------------------------- MODULE Background_proofs --------------------------
(***************************************************************************)
(* What is proved of the components that work in the background: the       *)
(* scheduler, the job queues, the audit chain, the agent registry, the     *)
(* simulation engine and the index of the world engine.                    *)
(* Each part has the invariant of its component, one lemma for each action *)
(* or group of actions that keeps it, and the theorems that follow.        *)
(***************************************************************************)
EXTENDS Scheduler, JobQueue, AuditChain, AgentRegistry, Simulation, WorldGraph, Search_proofs,
        TLAPS, FiniteSetTheorems, WellFoundedInduction, SequenceTheorems

-----------------------------------------------------------------------------
(***************************************************************************)
(* The scheduler.                                                          *)
(***************************************************************************)

\* A run within its lease holds the lock, which has not expired.
LockHeld ==
    \A s \in Schedule, b \in By :
        (Active(b, s) /\ <<b, s>> \notin outlived) => (lock[s] = b /\ s \in valid)

ValidOwned == \A s \in valid : lock[s] \in By

\* A chain runs schedules only in a tick, or the ones on its list.
ActiveAlive ==
    \A c \in Chain, s \in Schedule :
        Active(c, s) =>
            (chain[c] = "ticking" \/ (chain[c] = "recovering" /\ s \in listed[c]))

\* The lists of recoveries that are not alone may be old.
BesideStale ==
    \A c, d \in Chain :
        (c # d /\ Alive(d) /\ chain[c] = "recovering") => listed[c] \subseteq stale

Spared(s) == fired[s] = 0 \/ s \in late \cup stale

DueNotFired == \A s \in due : fired[s] = 0

PolicyNotFired ==
    \A c \in Chain, s \in Schedule :
        (run[c][s] = "policy" /\ <<c, s>> \notin outlived) => Spared(s)

ListedNotFired ==
    \A c \in Chain, s \in Schedule :
        (chain[c] = "recovering" /\ s \in listed[c] /\ ~Active(c, s)) => Spared(s)

LockInv == LockHeld /\ ValidOwned
ChainInv == ActiveAlive /\ BesideStale
FiredInv == DueNotFired /\ PolicyNotFired /\ ListedNotFired /\ OccurrenceOnce
ScheduleInv == ScheduleTypeOK /\ LockInv /\ ChainInv /\ FiredInv

-----------------------------------------------------------------------------
(* What Acquired does to the runs and their locks.                         *)
LEMMA AcquiredMeans ==
  ASSUME ScheduleTypeOK, NEW b \in By, NEW S \in SUBSET Schedule, Acquired(b, S)
  PROVE  /\ run' \in [By -> [Schedule -> {"none", "policy", "handling"}]]
         /\ lock' \in [Schedule -> By \cup {NoRun}] /\ valid' \subseteq Schedule
         /\ valid' = valid \cup S
         /\ \A s \in S : run'[b][s] = "policy" /\ lock'[s] = b
         /\ \A s \in Schedule \ S : run'[b][s] = run[b][s] /\ lock'[s] = lock[s]
         /\ \A d \in By \ {b} : run'[d] = run[d]
<1> DEFINE mine == [s \in Schedule |-> IF s \in S THEN "policy" ELSE run[b][s]]
<1>1. run' = [run EXCEPT ![b] = mine]
  BY DEF Acquired
<1>2. /\ run[b] \in [Schedule -> {"none", "policy", "handling"}]
      /\ run \in [By -> [Schedule -> {"none", "policy", "handling"}]]
  BY DEF ScheduleTypeOK
<1>3. mine \in [Schedule -> {"none", "policy", "handling"}]
  BY <1>2
<1>4. /\ \A s \in S : mine[s] = "policy"
      /\ \A s \in Schedule \ S : mine[s] = run[b][s]
  OBVIOUS
<1> HIDE DEF mine
<1>5. /\ run' \in [By -> [Schedule -> {"none", "policy", "handling"}]]
      /\ run'[b] = mine
      /\ \A d \in By \ {b} : run'[d] = run[d]
  BY <1>1, <1>2, <1>3
<1>6. /\ lock' \in [Schedule -> By \cup {NoRun}]
      /\ valid' = valid \cup S /\ valid' \subseteq Schedule
      /\ \A s \in S : lock'[s] = b
      /\ \A s \in Schedule \ S : lock'[s] = lock[s]
  BY DEF Acquired, ScheduleTypeOK
<1> QED
  BY <1>4, <1>5, <1>6

(* A chain or a hand that acquires free locks, of schedules it does not    *)
(* run, is within the leases it gets, and nobody loses one.                *)
LEMMA AcquiredKeepsLocks ==
  ASSUME ScheduleTypeOK, LockInv, NEW b \in By, NEW S \in SUBSET Schedule, Acquired(b, S),
         \A s \in S : Free(s),
         outlived' = outlived
  PROVE  LockInv'
<1>1. /\ valid' = valid \cup S
      /\ \A s \in S : run'[b][s] = "policy" /\ lock'[s] = b
      /\ \A s \in Schedule \ S : run'[b][s] = run[b][s] /\ lock'[s] = lock[s]
      /\ \A d \in By \ {b} : run'[d] = run[d]
  BY AcquiredMeans
<1>2. ASSUME NEW s \in Schedule, NEW d \in By, Active(d, s)', <<d, s>> \notin outlived
      PROVE  lock'[s] = d /\ s \in valid'
  <2>1. CASE d = b /\ s \in S
    BY <1>1, <2>1
  <2>2. CASE s \notin S
    <3>1. Active(d, s)
      BY <1>1, <1>2, <2>2 DEF Active
    <3>2. lock[s] = d /\ s \in valid
      BY <1>2, <3>1 DEF LockInv, LockHeld
    <3> QED
      BY <1>1, <2>2, <3>2
  <2>3. CASE d # b /\ s \in S
    <3>1. Active(d, s)
      BY <1>1, <1>2, <2>3 DEF Active
    <3>2. s \in valid
      BY <1>2, <3>1 DEF LockInv, LockHeld
    <3> QED
      BY <2>3, <3>2 DEF Free
  <2> QED
    BY <2>1, <2>2, <2>3
<1>3. \A s \in valid' : lock'[s] \in By
  BY <1>1 DEF LockInv, ValidOwned, ScheduleTypeOK
<1> QED
  BY <1>2, <1>3 DEF LockInv, LockHeld, ValidOwned

(* What the end of a run does.                                             *)
LEMMA RunOverMeans ==
  ASSUME ScheduleTypeOK, NEW b \in By, NEW s \in Schedule, RunOver(b, s)
  PROVE  /\ run' \in [By -> [Schedule -> {"none", "policy", "handling"}]]
         /\ run'[b][s] = "none"
         /\ \A t \in Schedule \ {s} : run'[b][t] = run[b][t]
         /\ \A d \in By \ {b} : run'[d] = run[d]
         /\ outlived' = outlived \ {<<b, s>>}
         /\ \A t \in Schedule : (t = s /\ lock[t] = b) \/ (lock'[t] = lock[t] /\ (t \in valid' <=> t \in valid))
         /\ lock' \in [Schedule -> By \cup {NoRun}] /\ valid' \subseteq valid
         /\ listed' \in [Chain -> SUBSET Schedule] /\ due' \subseteq due
         /\ \A c \in Chain : listed'[c] \subseteq listed[c]
         /\ \A c \in Chain, t \in Schedule :
               t \in listed[c] \ listed'[c] => c = b /\ t = s
         /\ (b \in Chain /\ chain[b] = "recovering") => s \notin listed'[b]
<1>1. /\ run \in [By -> [Schedule -> {"none", "policy", "handling"}]]
      /\ run[b] \in [Schedule -> {"none", "policy", "handling"}]
      /\ run' = [run EXCEPT ![b] = [run[b] EXCEPT ![s] = "none"]]
      /\ outlived' = outlived \ {<<b, s>>}
  BY DEF ScheduleTypeOK, RunOver
<1> DEFINE mine == [run[b] EXCEPT ![s] = "none"]
<1>2. /\ mine \in [Schedule -> {"none", "policy", "handling"}]
      /\ mine[s] = "none" /\ \A t \in Schedule \ {s} : mine[t] = run[b][t]
  BY <1>1
<1> HIDE DEF mine
<1>3. /\ run' \in [By -> [Schedule -> {"none", "policy", "handling"}]]
      /\ run'[b] = mine /\ \A d \in By \ {b} : run'[d] = run[d]
  BY <1>1, <1>2 DEF mine
<1>4. /\ lock' \in [Schedule -> By \cup {NoRun}] /\ valid' \subseteq valid
      /\ \A t \in Schedule : (t = s /\ lock[t] = b) \/ (lock'[t] = lock[t] /\ (t \in valid' <=> t \in valid))
  BY DEF RunOver, Released, ScheduleTypeOK
<1>5. /\ listed' \in [Chain -> SUBSET Schedule] /\ due' \subseteq due
      /\ \A c \in Chain : listed'[c] \subseteq listed[c]
      /\ \A c \in Chain, t \in Schedule : t \in listed[c] \ listed'[c] => c = b /\ t = s
      /\ (b \in Chain /\ chain[b] = "recovering") => s \notin listed'[b]
  <2>1. listed \in [Chain -> SUBSET Schedule]
    BY DEF ScheduleTypeOK
  <2>2. CASE b \in Chain /\ chain[b] = "recovering"
    BY <2>1, <2>2 DEF RunOver
  <2>3. CASE ~(b \in Chain /\ chain[b] = "recovering")
    BY <2>1, <2>3 DEF RunOver
  <2> QED
    BY <2>2, <2>3
<1> QED
  BY <1>1, <1>2, <1>3, <1>4, <1>5

(* A run that ends takes away no lock but its own.                         *)
LEMMA RunOverKeepsLocks ==
  ASSUME ScheduleTypeOK, LockInv, NEW b \in By, NEW s \in Schedule, RunOver(b, s)
  PROVE  LockInv'
<1>1. /\ run'[b][s] = "none"
      /\ \A t \in Schedule \ {s} : run'[b][t] = run[b][t]
      /\ \A d \in By \ {b} : run'[d] = run[d]
      /\ outlived' = outlived \ {<<b, s>>}
      /\ \A t \in Schedule :
            (t = s /\ lock[t] = b) \/ (lock'[t] = lock[t] /\ (t \in valid' <=> t \in valid))
      /\ valid' \subseteq valid /\ valid \subseteq Schedule
  BY RunOverMeans DEF ScheduleTypeOK
<1>2. ASSUME NEW t \in Schedule, NEW d \in By, Active(d, t)', <<d, t>> \notin outlived'
      PROVE  lock'[t] = d /\ t \in valid'
  <2>1. ~(d = b /\ t = s)
    BY <1>1, <1>2 DEF Active
  <2>2. Active(d, t) /\ <<d, t>> \notin outlived
    BY <1>1, <1>2, <2>1 DEF Active
  <2>3. lock[t] = d /\ t \in valid
    BY <2>2 DEF LockInv, LockHeld
  <2> QED
    BY <1>1, <2>1, <2>3
<1>3. \A t \in valid' : lock'[t] \in By
  <2> SUFFICES ASSUME NEW t \in valid' PROVE lock'[t] \in By
    OBVIOUS
  <2>1. t \in valid /\ t \in Schedule
    BY <1>1
  <2>2. CASE t = s /\ lock[t] = b
    <3>1. lock[s] = b /\ valid' = valid \ {s}
      BY <2>2 DEF RunOver, Released
    <3> QED
      BY <2>2, <3>1
  <2>3. CASE lock'[t] = lock[t]
    BY <2>1, <2>3 DEF LockInv, ValidOwned
  <2> QED
    BY <1>1, <2>1, <2>2, <2>3
<1> QED
  BY <1>2, <1>3 DEF LockInv, LockHeld, ValidOwned

-----------------------------------------------------------------------------
LEMMA ScheduleStarts == ScheduleInit => ScheduleInv
<1> SUFFICES ASSUME ScheduleInit PROVE ScheduleInv
  OBVIOUS
<1>1. \A b \in By, s \in Schedule : run[b][s] = "none"
  BY DEF ScheduleInit
<1>2. ScheduleTypeOK
  <2>1. \A x \in Scopes : x.schedules \subseteq Schedule
    BY SchedulerAssumption
  <2>2. /\ chain \in [Chain -> {"none", "recovering", "waiting", "ticking", "over"}]
        /\ listed \in [Chain -> SUBSET Schedule]
        /\ run \in [By -> [Schedule -> {"none", "policy", "handling"}]]
        /\ lock \in [Schedule -> By \cup {NoRun}]
        /\ fired \in [Schedule -> 0..2]
    BY DEF ScheduleInit
  <2>3. scope \in Scopes /\ enabled \subseteq Schedule /\ due \subseteq Schedule
    BY <2>1 DEF ScheduleInit
  <2> QED
    BY <2>2, <2>3 DEF ScheduleInit, ScheduleTypeOK
<1>3. LockInv
  BY <1>1 DEF ScheduleInit, LockInv, LockHeld, ValidOwned, Active
<1>4. ChainInv
  BY <1>1 DEF ScheduleInit, ChainInv, ActiveAlive, BesideStale, Active, By
<1>5. FiredInv
  <2>1. due \subseteq Schedule /\ \A s \in Schedule : fired[s] = 0
    BY <1>2 DEF ScheduleInit, ScheduleTypeOK
  <2> QED
    BY <2>1 DEF FiredInv, DueNotFired, PolicyNotFired, ListedNotFired, OccurrenceOnce, Spared
<1> QED
  BY <1>2, <1>3, <1>4, <1>5 DEF ScheduleInv

(* start: the new recovery lists what is due, which has not been fired; if *)
(* it is not alone, its list and the lists of the others may be old.       *)
LEMMA StartKeeps ==
  ASSUME ScheduleInv, NEW c \in Chain, StartScheduler(c)
  PROVE  ScheduleInv'
<1> USE DEF ScheduleInv
<1>1. /\ chain[c] = "none"
      /\ chain' = [chain EXCEPT ![c] = "recovering"]
      /\ listed' = [listed EXCEPT ![c] = Due]
      /\ UNCHANGED <<tickTimer, run, lock, valid, enabled, due, scope, fired, outlived, late>>
      /\ isRunning' = TRUE
  BY DEF StartScheduler, lockState, repositoryState
<1>2. Due \subseteq Schedule /\ Due \subseteq due
  BY DEF Due, ScheduleTypeOK
<1>3. /\ chain' \in [Chain -> {"none", "recovering", "waiting", "ticking", "over"}]
      /\ chain'[c] = "recovering" /\ \A d \in Chain \ {c} : chain'[d] = chain[d]
      /\ listed' \in [Chain -> SUBSET Schedule]
      /\ listed'[c] = Due /\ \A d \in Chain \ {c} : listed'[d] = listed[d]
  BY <1>1, <1>2 DEF ScheduleTypeOK
<1>4. /\ stale \subseteq stale' /\ stale' \subseteq Schedule
      /\ (\E d \in Chain : Alive(d)) =>
            /\ Due \subseteq stale'
            /\ \A d \in Chain : listed[d] \subseteq stale'
  <2>1. CASE \E d \in Chain : Alive(d)
    <3>1. stale' = (stale \cup Due) \cup UNION {listed[d] : d \in Chain}
      BY <2>1, Zenon DEF StartScheduler
    <3>2. \A d \in Chain : listed[d] \subseteq UNION {listed[e] : e \in Chain}
      OBVIOUS
    <3>3. UNION {listed[d] : d \in Chain} \subseteq Schedule
      BY DEF ScheduleTypeOK
    <3> QED
      BY <1>2, <3>1, <3>2, <3>3 DEF ScheduleTypeOK
  <2>2. CASE ~\E d \in Chain : Alive(d)
    <3>1. stale' = stale
      BY <2>2, Zenon DEF StartScheduler
    <3> QED
      BY <2>2, <3>1 DEF ScheduleTypeOK
  <2> QED
    BY <2>1, <2>2
<1>5. ScheduleTypeOK'
  BY <1>1, <1>3, <1>4 DEF ScheduleTypeOK
<1>6. LockInv'
  BY <1>1 DEF LockInv, LockHeld, ValidOwned, Active
<1>7. \A s \in Schedule : ~Active(c, s)
  BY <1>1 DEF ChainInv, ActiveAlive
<1>8. ChainInv'
  <2>1. ActiveAlive'
    BY <1>1, <1>3, <1>7 DEF ChainInv, ActiveAlive, Active
  <2>2. BesideStale'
    <3> SUFFICES ASSUME NEW d \in Chain, NEW e \in Chain, d # e, Alive(e)', chain'[d] = "recovering"
                 PROVE  listed'[d] \subseteq stale'
      BY DEF BesideStale
    <3>1. CASE d = c
      <4>1. Alive(e)
        BY <1>3, <3>1 DEF Alive
      <4> QED
        BY <1>3, <1>4, <3>1, <4>1
    <3>2. CASE d # c
      <4>1. Alive(d)
        BY <1>3, <3>2 DEF Alive
      <4> QED
        BY <1>3, <1>4, <3>2, <4>1
    <3> QED
      BY <3>1, <3>2
  <2> QED
    BY <2>1, <2>2 DEF ChainInv
<1>9. FiredInv'
  <2>1. \A s \in Schedule : Spared(s) => Spared(s)'
    BY <1>1, <1>4 DEF Spared
  <2>2. DueNotFired'
    BY <1>1 DEF FiredInv, DueNotFired
  <2>3. PolicyNotFired'
    BY <1>1, <2>1 DEF FiredInv, PolicyNotFired
  <2>4. ListedNotFired'
    <3> SUFFICES ASSUME NEW d \in Chain, NEW s \in Schedule, chain'[d] = "recovering",
                        s \in listed'[d], ~Active(d, s)'
                 PROVE  Spared(s)'
      BY DEF ListedNotFired
    <3>1. CASE d = c
      <4>1. s \in due
        BY <1>2, <1>3, <3>1
      <4> QED
        BY <2>1, <4>1 DEF FiredInv, DueNotFired, Spared
    <3>2. CASE d # c
      <4>1. chain[d] = "recovering" /\ s \in listed[d] /\ ~Active(d, s)
        BY <1>1, <1>3, <3>2 DEF Active
      <4> QED
        BY <2>1, <4>1 DEF FiredInv, ListedNotFired
    <3> QED
      BY <3>1, <3>2
  <2>5. OccurrenceOnce'
    BY <1>1, <1>4 DEF FiredInv, OccurrenceOnce
  <2> QED
    BY <2>2, <2>3, <2>4, <2>5 DEF FiredInv
<1> QED
  BY <1>5, <1>6, <1>8, <1>9
(* A step that fires nothing, and lets a run begin or a recovery go on     *)
(* only for what has not been fired, keeps the occurrences.                *)
LEMMA FiredFrame ==
  ASSUME FiredInv,
         due' \subseteq due, fired' = fired, late' = late, stale' = stale,
         \A c \in Chain, s \in Schedule :
            (run'[c][s] = "policy" /\ <<c, s>> \notin outlived') =>
               (Spared(s) \/ (run[c][s] = "policy" /\ <<c, s>> \notin outlived)),
         \A c \in Chain, s \in Schedule :
            (chain'[c] = "recovering" /\ s \in listed'[c] /\ ~Active(c, s)') =>
               (chain[c] = "recovering" /\ s \in listed[c] /\ ~Active(c, s))
  PROVE  FiredInv'
<1>1. \A s \in Schedule : Spared(s) => Spared(s)'
  BY DEF Spared
<1>2. DueNotFired' /\ OccurrenceOnce'
  BY DEF FiredInv, DueNotFired, OccurrenceOnce
<1>3. PolicyNotFired'
  BY <1>1 DEF FiredInv, PolicyNotFired
<1>4. ListedNotFired'
  BY <1>1 DEF FiredInv, ListedNotFired
<1> QED
  BY <1>2, <1>3, <1>4 DEF FiredInv

(* No chain comes to life and no list grows.                               *)
LEMMA ChainFrame ==
  ASSUME ChainInv,
         stale' = stale,
         \A c \in Chain : (Alive(c)' => Alive(c)) /\ listed'[c] \subseteq listed[c],
         \A c \in Chain : chain'[c] = "recovering" => chain[c] = "recovering",
         ActiveAlive'
  PROVE  ChainInv'
<1>1. BesideStale'
  BY DEF ChainInv, BesideStale
<1> QED
  BY <1>1 DEF ChainInv

LEMMA StopKeeps ==
  ASSUME ScheduleInv, StopScheduler
  PROVE  ScheduleInv'
<1> USE DEF ScheduleInv
<1>1. /\ isRunning' = FALSE /\ tickTimer' = NoRun
      /\ chain' = [c \in Chain |->
                     IF c = tickTimer /\ chain[c] = "waiting" THEN "over" ELSE chain[c]]
      /\ UNCHANGED <<listed, run, lock, valid, enabled, due, scope, fired, outlived, late, stale>>
  BY DEF StopScheduler, lockState, repositoryState, historyState
<1>2. /\ chain' \in [Chain -> {"none", "recovering", "waiting", "ticking", "over"}]
      /\ \A c \in Chain : chain'[c] = chain[c] \/ (chain[c] = "waiting" /\ chain'[c] = "over")
  BY <1>1 DEF ScheduleTypeOK
<1>3. ScheduleTypeOK'
  BY <1>1, <1>2 DEF ScheduleTypeOK
<1>4. LockInv'
  BY <1>1 DEF LockInv, LockHeld, ValidOwned, Active
<1>5. ActiveAlive'
  <2>1. \A c \in Chain, s \in Schedule :
           Active(c, s) => (chain[c] = "ticking" \/ (chain[c] = "recovering" /\ s \in listed[c]))
    BY DEF ChainInv, ActiveAlive
  <2> QED
    BY <1>1, <1>2, <2>1 DEF ActiveAlive, Active
<1>6. ChainInv'
  BY <1>1, <1>2, <1>5, ChainFrame DEF Alive
<1>7. FiredInv'
  BY <1>1, <1>2, FiredFrame DEF Active
<1> QED
  BY <1>3, <1>4, <1>6, <1>7

LEMMA GoOnKeeps ==
  ASSUME ScheduleInv, NEW c \in Chain, ChainGoesOn(c)
  PROVE  ScheduleInv'
<1> USE DEF ScheduleInv
<1>1. /\ UNCHANGED <<listed, run, lock, valid, enabled, due, scope, fired, outlived, late, stale>>
      /\ isRunning' = isRunning
      /\ \A s \in Schedule : ~Active(c, s)
      /\ chain[c] \in {"recovering", "ticking"}
      /\ tickTimer' = IF isRunning THEN c ELSE tickTimer
      /\ chain' = [chain EXCEPT ![c] = IF isRunning THEN "waiting" ELSE "over"]
  BY DEF ChainGoesOn, lockState, repositoryState, historyState
<1>2. /\ chain' \in [Chain -> {"none", "recovering", "waiting", "ticking", "over"}]
      /\ chain'[c] \in {"waiting", "over"} /\ \A d \in Chain \ {c} : chain'[d] = chain[d]
  BY <1>1 DEF ScheduleTypeOK
<1>3. ScheduleTypeOK'
  BY <1>1, <1>2 DEF ScheduleTypeOK
<1>4. LockInv'
  BY <1>1 DEF LockInv, LockHeld, ValidOwned, Active
<1>5. ActiveAlive'
  BY <1>1, <1>2 DEF ChainInv, ActiveAlive, Active
<1>6. ChainInv'
  BY <1>1, <1>2, <1>5, ChainFrame DEF Alive
<1>7. FiredInv'
  BY <1>1, <1>2, FiredFrame DEF Active
<1> QED
  BY <1>3, <1>4, <1>6, <1>7

(* tick: what it runs is due, so it has not been fired.                    *)
LEMMA TickKeeps ==
  ASSUME ScheduleInv, NEW c \in Chain, Tick(c)
  PROVE  ScheduleInv'
<1> USE DEF ScheduleInv
<1> DEFINE S == {s \in Due : Free(s)}
<1>1. /\ UNCHANGED <<isRunning, tickTimer, listed, enabled, due, scope, fired, outlived, late, stale>>
      /\ chain[c] = "waiting"
      /\ chain' = [chain EXCEPT ![c] = "ticking"]
      /\ Acquired(c, S)
  BY DEF Tick, repositoryState, historyState
<1>2. /\ S \in SUBSET Schedule /\ \A s \in S : s \in due /\ Free(s)
      /\ c \in By
  BY DEF ScheduleTypeOK, Due, By
<1> HIDE DEF S
<1>3. /\ run' \in [By -> [Schedule -> {"none", "policy", "handling"}]]
      /\ lock' \in [Schedule -> By \cup {NoRun}] /\ valid' \subseteq Schedule
      /\ \A s \in S : run'[c][s] = "policy"
      /\ \A s \in Schedule \ S : run'[c][s] = run[c][s]
      /\ \A d \in By \ {c} : run'[d] = run[d]
  BY <1>1, <1>2, AcquiredMeans
<1>4. LockInv'
  BY <1>1, <1>2, AcquiredKeepsLocks
<1>5. /\ chain' \in [Chain -> {"none", "recovering", "waiting", "ticking", "over"}]
      /\ chain'[c] = "ticking" /\ \A d \in Chain \ {c} : chain'[d] = chain[d]
  BY <1>1 DEF ScheduleTypeOK
<1>6. ScheduleTypeOK'
  BY <1>1, <1>3, <1>5 DEF ScheduleTypeOK
<1>7. Chain \subseteq By
  BY DEF By
<1>8. ActiveAlive'
  BY <1>1, <1>3, <1>5, <1>7 DEF ChainInv, ActiveAlive, Active
<1>9. ChainInv'
  BY <1>1, <1>5, <1>8, ChainFrame DEF Alive
<1>10. FiredInv'
  <2>1. \A s \in S : Spared(s)
    BY <1>2 DEF FiredInv, DueNotFired, Spared
  <2>2. \A d \in Chain, s \in Schedule :
           run'[d][s] = "policy" => (Spared(s) \/ run[d][s] = "policy")
    BY <1>3, <1>7, <2>1
  <2>3. \A d \in Chain, s \in Schedule :
            (chain'[d] = "recovering" /\ s \in listed'[d] /\ ~Active(d, s)') =>
               (chain[d] = "recovering" /\ s \in listed[d] /\ ~Active(d, s))
    BY <1>1, <1>3, <1>5, <1>7 DEF Active
  <2> QED
    BY <1>1, <2>2, <2>3, FiredFrame
<1> QED
  BY <1>4, <1>6, <1>9, <1>10

(* A recovery runs what is on its list, or takes it off.                   *)
LEMMA RecoverKeeps ==
  ASSUME ScheduleInv, NEW c \in Chain, NEW s \in Schedule, RecoverSchedule(c, s)
  PROVE  ScheduleInv'
<1> USE DEF ScheduleInv
<1>1. /\ UNCHANGED <<isRunning, chain, tickTimer, enabled, scope, fired, outlived, late, stale>>
      /\ chain[c] = "recovering" /\ s \in listed[c]
      /\ \A t \in Schedule : ~Active(c, t)
  BY DEF RecoverSchedule, schedulerState, historyState
<1>2. c \in By /\ Chain \subseteq By
  BY DEF By
<1>3. CASE s \in FireNow /\ Free(s)
  <2>1. Acquired(c, {s}) /\ UNCHANGED <<listed, due>>
    BY <1>3, Zenon DEF RecoverSchedule
  <2>2. /\ run' \in [By -> [Schedule -> {"none", "policy", "handling"}]]
        /\ lock' \in [Schedule -> By \cup {NoRun}] /\ valid' \subseteq Schedule
        /\ run'[c][s] = "policy"
        /\ \A t \in Schedule \ {s} : run'[c][t] = run[c][t]
        /\ \A d \in By \ {c} : run'[d] = run[d]
    BY <1>2, <2>1, AcquiredMeans
  <2>3. LockInv'
    BY <1>1, <1>2, <1>3, <2>1, AcquiredKeepsLocks
  <2>4. ScheduleTypeOK'
    BY <1>1, <2>1, <2>2 DEF ScheduleTypeOK
  <2>5. ActiveAlive'
    BY <1>1, <1>2, <2>1, <2>2 DEF ChainInv, ActiveAlive, Active
  <2>6. ChainInv'
    BY <1>1, <2>1, <2>5, ChainFrame DEF Alive
  <2>7. Spared(s)
    BY <1>1 DEF FiredInv, ListedNotFired
  <2>8. \A d \in Chain, t \in Schedule :
           run'[d][t] = "policy" => (Spared(t) \/ run[d][t] = "policy")
    BY <1>2, <2>2, <2>7
  <2>9. \A d \in Chain, t \in Schedule :
            (chain'[d] = "recovering" /\ t \in listed'[d] /\ ~Active(d, t)') =>
               (chain[d] = "recovering" /\ t \in listed[d] /\ ~Active(d, t))
    BY <1>1, <1>2, <2>1, <2>2 DEF Active
  <2>10. FiredInv'
    BY <1>1, <2>1, <2>8, <2>9, FiredFrame
  <2> QED
    BY <2>3, <2>4, <2>6, <2>10
<1>4. CASE ~(s \in FireNow /\ Free(s))
  <2>1. /\ listed' = [listed EXCEPT ![c] = listed[c] \ {s}]
        /\ due' = due \ {s} /\ UNCHANGED <<run, lock, valid>>
    BY <1>4 DEF RecoverSchedule, lockState
  <2>2. /\ listed' \in [Chain -> SUBSET Schedule]
        /\ listed'[c] = listed[c] \ {s} /\ \A d \in Chain \ {c} : listed'[d] = listed[d]
    BY <2>1 DEF ScheduleTypeOK
  <2>3. ScheduleTypeOK'
    BY <1>1, <2>1, <2>2 DEF ScheduleTypeOK
  <2>4. LockInv'
    BY <1>1, <2>1 DEF LockInv, LockHeld, ValidOwned, Active
  <2>5. ActiveAlive'
    BY <1>1, <2>1, <2>2 DEF ChainInv, ActiveAlive, Active
  <2>6. ChainInv'
    BY <1>1, <2>2, <2>5, ChainFrame DEF Alive
  <2>7. FiredInv'
    BY <1>1, <2>1, <2>2, FiredFrame DEF Active
  <2> QED
    BY <2>3, <2>4, <2>6, <2>7
<1> QED
  BY <1>3, <1>4

LEMMA TriggerKeeps ==
  ASSUME ScheduleInv, NEW s \in Schedule, Trigger(s)
  PROVE  ScheduleInv'
<1> USE DEF ScheduleInv
<1>1. /\ UNCHANGED <<isRunning, chain, tickTimer, listed, enabled, due, scope, fired, outlived,
                     late, stale>>
      /\ Acquired(Manual, {s}) /\ Free(s)
  BY DEF Trigger, schedulerState, repositoryState, historyState
<1>2. Manual \in By /\ \A c \in Chain : c \in By \ {Manual}
  BY SchedulerAssumption DEF By
<1>3. /\ run' \in [By -> [Schedule -> {"none", "policy", "handling"}]]
      /\ lock' \in [Schedule -> By \cup {NoRun}] /\ valid' \subseteq Schedule
      /\ \A c \in Chain : run'[c] = run[c]
  BY <1>1, <1>2, AcquiredMeans
<1>4. LockInv'
  BY <1>1, <1>2, AcquiredKeepsLocks
<1>5. ScheduleTypeOK'
  BY <1>1, <1>3 DEF ScheduleTypeOK
<1>6. ActiveAlive'
  BY <1>1, <1>3 DEF ChainInv, ActiveAlive, Active
<1>7. ChainInv'
  BY <1>1, <1>6, ChainFrame DEF Alive
<1>8. FiredInv'
  BY <1>1, <1>3, FiredFrame DEF Active
<1> QED
  BY <1>4, <1>5, <1>7, <1>8

(* A handler starts.  Another run of the schedule that is about to fire    *)
(* has outlived its lease, or this one has.  Another chain beside a        *)
(* recovery makes the list of the recovery an old one.                     *)
LEMMA AllowKeeps ==
  ASSUME ScheduleInv, NEW b \in By, NEW s \in Schedule, PolicyAllows(b, s)
  PROVE  ScheduleInv'
<1> USE DEF ScheduleInv
<1>1. /\ UNCHANGED <<isRunning, chain, tickTimer, listed, lock, valid, enabled, scope, outlived,
                     stale>>
      /\ run[b][s] = "policy"
      /\ run' = [run EXCEPT ![b] = [run[b] EXCEPT ![s] = "handling"]]
      /\ due' = due \ {s}
      /\ fired' = [fired EXCEPT ![s] = IF b = Manual \/ fired[s] = 2 THEN fired[s]
                                                                     ELSE fired[s] + 1]
      /\ late' = IF <<b, s>> \in outlived THEN late \cup {s} ELSE late
  BY DEF PolicyAllows, schedulerState, lockState
<1>2. /\ run \in [By -> [Schedule -> {"none", "policy", "handling"}]]
      /\ run[b] \in [Schedule -> {"none", "policy", "handling"}]
      /\ fired \in [Schedule -> 0..2] /\ fired[s] \in 0..2
  BY DEF ScheduleTypeOK
<1> DEFINE mine == [run[b] EXCEPT ![s] = "handling"]
<1>3. /\ mine \in [Schedule -> {"none", "policy", "handling"}]
      /\ mine[s] = "handling" /\ \A t \in Schedule \ {s} : mine[t] = run[b][t]
  BY <1>2
<1> HIDE DEF mine
<1>4. /\ run' \in [By -> [Schedule -> {"none", "policy", "handling"}]]
      /\ run'[b] = mine /\ \A d \in By \ {b} : run'[d] = run[d]
  BY <1>1, <1>2, <1>3 DEF mine
<1>5. /\ fired' \in [Schedule -> 0..2]
      /\ \A t \in Schedule \ {s} : fired'[t] = fired[t]
      /\ b = Manual => fired'[s] = fired[s]
      /\ fired'[s] > 1 => (fired[s] > 0 \/ s \in late \cup stale)
  <2>1. CASE b = Manual \/ fired[s] = 2
    BY <1>1, <1>2, <2>1
  <2>2. CASE ~(b = Manual \/ fired[s] = 2)
    BY <1>1, <1>2, <2>2
  <2> QED
    BY <2>1, <2>2
<1>6. late \subseteq late' /\ late' \subseteq Schedule
  BY <1>1 DEF ScheduleTypeOK
<1>7. ScheduleTypeOK'
  BY <1>1, <1>4, <1>5, <1>6 DEF ScheduleTypeOK
<1>8. \A d \in By, t \in Schedule : Active(d, t)' <=> Active(d, t)
  <2>1. Active(b, s)' /\ Active(b, s)
    BY <1>1, <1>3, <1>4 DEF Active
  <2> QED
    BY <1>3, <1>4, <2>1 DEF Active
<1>9. LockInv'
  BY <1>1, <1>8 DEF LockInv, LockHeld, ValidOwned
<1>10. Chain \subseteq By /\ (b # Manual => b \in Chain)
  BY DEF By
<1>11. ActiveAlive'
  BY <1>1, <1>8, <1>10 DEF ChainInv, ActiveAlive
<1>12. ChainInv'
  BY <1>1, <1>11, ChainFrame DEF Alive
<1>13. ASSUME NEW t \in Schedule, Spared(t), t # s \/ b = Manual \/ s \in late' \cup stale
       PROVE  Spared(t)'
  <2>1. CASE t = s /\ b # Manual
    BY <1>1, <1>6, <1>13, <2>1 DEF Spared
  <2>2. CASE t # s \/ b = Manual
    <3>1. fired'[t] = fired[t]
      BY <1>5, <2>2
    <3> QED
      BY <1>1, <1>6, <1>13, <3>1 DEF Spared
  <2> QED
    BY <2>1, <2>2
<1>14. DueNotFired'
  <2>1. \A t \in due' : t \in due /\ t \in Schedule \ {s}
    BY <1>1 DEF ScheduleTypeOK
  <2> QED
    BY <1>5, <2>1 DEF FiredInv, DueNotFired
<1>15. OccurrenceOnce'
  <2> SUFFICES ASSUME NEW t \in Schedule, fired'[t] > 1 PROVE t \in late' \cup stale'
    BY DEF OccurrenceOnce
  <2>1. CASE t # s \/ b = Manual
    <3>1. fired[t] > 1
      BY <1>5, <2>1
    <3> QED
      BY <1>1, <1>6, <3>1 DEF FiredInv, OccurrenceOnce
  <2>2. CASE t = s /\ b # Manual
    <3>1. CASE <<b, s>> \in outlived
      BY <1>1, <2>2, <3>1
    <3>2. CASE <<b, s>> \notin outlived
      <4>1. Spared(s)
        BY <1>1, <1>10, <2>2, <3>2 DEF FiredInv, PolicyNotFired
      <4>2. s \in late \cup stale
        BY <1>2, <1>5, <2>2, <4>1 DEF Spared
      <4> QED
        BY <1>1, <1>6, <2>2, <4>2
    <3> QED
      BY <3>1, <3>2
  <2> QED
    BY <2>1, <2>2
<1>16. PolicyNotFired'
  <2> SUFFICES ASSUME NEW c \in Chain, NEW t \in Schedule, run'[c][t] = "policy",
                      <<c, t>> \notin outlived'
               PROVE  Spared(t)'
    BY DEF PolicyNotFired
  <2>1. ~(c = b /\ t = s) /\ run[c][t] = "policy"
    BY <1>3, <1>4, <1>10
  <2>2. Spared(t)
    BY <1>1, <2>1 DEF FiredInv, PolicyNotFired
  <2>3. CASE t = s /\ b # Manual
    <3>1. Active(c, s) /\ Active(b, s) /\ c # b /\ c \in By
      BY <1>1, <1>10, <2>1, <2>3 DEF Active
    <3>2. <<b, s>> \in outlived
      BY <1>1, <2>3, <3>1 DEF LockInv, LockHeld
    <3> QED
      BY <1>1, <1>13, <2>2, <2>3, <3>2
  <2>4. CASE t # s \/ b = Manual
    BY <1>13, <2>2, <2>4
  <2> QED
    BY <2>3, <2>4
<1>17. ListedNotFired'
  <2> SUFFICES ASSUME NEW c \in Chain, NEW t \in Schedule, chain'[c] = "recovering",
                      t \in listed'[c], ~Active(c, t)'
               PROVE  Spared(t)'
    BY DEF ListedNotFired
  <2>1. chain[c] = "recovering" /\ t \in listed[c] /\ ~Active(c, t)
    BY <1>1, <1>8, <1>10
  <2>2. Spared(t)
    BY <2>1 DEF FiredInv, ListedNotFired
  <2>3. CASE t = s /\ b # Manual
    <3>1. b \in Chain /\ Active(b, s) /\ c # b
      BY <1>1, <1>10, <2>1, <2>3 DEF Active
    <3>2. Alive(b)
      BY <3>1 DEF ChainInv, ActiveAlive, Alive
    <3>3. s \in stale
      BY <2>1, <2>3, <3>1, <3>2 DEF ChainInv, BesideStale
    <3> QED
      BY <1>13, <2>2, <2>3, <3>3
  <2>4. CASE t # s \/ b = Manual
    BY <1>13, <2>2, <2>4
  <2> QED
    BY <2>3, <2>4
<1> QED
  BY <1>7, <1>9, <1>12, <1>14, <1>15, <1>16, <1>17 DEF FiredInv

(* A run ends.                                                             *)
LEMMA OverKeeps ==
  ASSUME ScheduleInv, NEW b \in By, NEW s \in Schedule, PolicyDenies(b, s) \/ HandlerEnds(b, s)
  PROVE  ScheduleInv'
<1> USE DEF ScheduleInv
<1>1. /\ UNCHANGED <<isRunning, chain, tickTimer, enabled, scope, fired, late, stale>>
      /\ RunOver(b, s)
  BY DEF PolicyDenies, HandlerEnds, schedulerState
<1>2. /\ run' \in [By -> [Schedule -> {"none", "policy", "handling"}]]
      /\ run'[b][s] = "none"
      /\ \A t \in Schedule \ {s} : run'[b][t] = run[b][t]
      /\ \A d \in By \ {b} : run'[d] = run[d]
      /\ outlived' = outlived \ {<<b, s>>}
      /\ lock' \in [Schedule -> By \cup {NoRun}] /\ valid' \subseteq valid
      /\ listed' \in [Chain -> SUBSET Schedule] /\ due' \subseteq due
  BY <1>1, RunOverMeans
<1>3. /\ \A c \in Chain : listed'[c] \subseteq listed[c]
      /\ \A c \in Chain, t \in Schedule : t \in listed[c] \ listed'[c] => c = b /\ t = s
      /\ (b \in Chain /\ chain[b] = "recovering") => s \notin listed'[b]
  BY <1>1, RunOverMeans
<1>4. LockInv'
  BY <1>1, RunOverKeepsLocks
<1>5. ScheduleTypeOK'
  BY <1>1, <1>2 DEF ScheduleTypeOK
<1>6. Chain \subseteq By
  BY DEF By
<1>7. \A c \in Chain, t \in Schedule : run'[c][t] = run[c][t] \/ (c = b /\ t = s)
  BY <1>2, <1>6
<1>8. ActiveAlive'
  <2> SUFFICES ASSUME NEW c \in Chain, NEW t \in Schedule, Active(c, t)'
               PROVE  chain'[c] = "ticking" \/ (chain'[c] = "recovering" /\ t \in listed'[c])
    BY DEF ActiveAlive
  <2>1. ~(c = b /\ t = s) /\ Active(c, t)
    BY <1>2, <1>7 DEF Active
  <2> QED
    BY <1>1, <1>3, <2>1 DEF ChainInv, ActiveAlive
<1>9. ChainInv'
  BY <1>1, <1>3, <1>8, ChainFrame DEF Alive
<1>10. FiredInv'
  <2>1. \A c \in Chain, t \in Schedule :
           (run'[c][t] = "policy" /\ <<c, t>> \notin outlived') =>
              (run[c][t] = "policy" /\ <<c, t>> \notin outlived)
    <3> SUFFICES ASSUME NEW c \in Chain, NEW t \in Schedule, run'[c][t] = "policy",
                        <<c, t>> \notin outlived'
                 PROVE  run[c][t] = "policy" /\ <<c, t>> \notin outlived
      OBVIOUS
    <3>1. ~(c = b /\ t = s)
      BY <1>2
    <3> QED
      BY <1>2, <1>7, <3>1
  <2>2. \A c \in Chain, t \in Schedule :
            (chain'[c] = "recovering" /\ t \in listed'[c] /\ ~Active(c, t)') =>
               (chain[c] = "recovering" /\ t \in listed[c] /\ ~Active(c, t))
    <3> SUFFICES ASSUME NEW c \in Chain, NEW t \in Schedule, chain'[c] = "recovering",
                        t \in listed'[c], ~Active(c, t)'
                 PROVE  chain[c] = "recovering" /\ t \in listed[c] /\ ~Active(c, t)
      OBVIOUS
    <3>1. ~(c = b /\ t = s)
      BY <1>1, <1>3
    <3> QED
      BY <1>1, <1>3, <1>7, <3>1 DEF Active
  <2> QED
    BY <1>1, <1>2, <2>1, <2>2, FiredFrame
<1> QED
  BY <1>4, <1>5, <1>9, <1>10

LEMMA ExpiryKeeps ==
  ASSUME ScheduleInv, NEW s \in Schedule, LeaseExpires(s)
  PROVE  ScheduleInv'
<1> USE DEF ScheduleInv
<1>1. /\ UNCHANGED <<isRunning, chain, tickTimer, listed, run, lock, enabled, due, scope, fired,
                     late, stale>>
      /\ s \in valid /\ valid' = valid \ {s}
      /\ outlived' = outlived \cup {<<lock[s], s>>}
  BY DEF LeaseExpires, schedulerState, repositoryState
<1>2. lock[s] \in By
  BY <1>1 DEF LockInv, ValidOwned
<1>3. ScheduleTypeOK'
  BY <1>1, <1>2 DEF ScheduleTypeOK
<1>4. LockInv'
  <2>1. ASSUME NEW t \in Schedule, NEW b \in By, Active(b, t)', <<b, t>> \notin outlived'
        PROVE  lock'[t] = b /\ t \in valid'
    <3>1. lock[t] = b /\ t \in valid
      BY <1>1, <2>1 DEF LockInv, LockHeld, Active
    <3> QED
      BY <1>1, <2>1, <3>1
  <2> QED
    BY <1>1, <2>1 DEF LockInv, LockHeld, ValidOwned
<1>5. ChainInv'
  BY <1>1, ChainFrame DEF Alive, ChainInv, ActiveAlive, Active
<1>6. FiredInv'
  BY <1>1, FiredFrame DEF Active
<1> QED
  BY <1>3, <1>4, <1>5, <1>6

(* A new occurrence has not been fired.                                    *)
LEMMA DueKeeps ==
  ASSUME ScheduleInv, NEW s \in Schedule, BecomesDue(s)
  PROVE  ScheduleInv'
<1> USE DEF ScheduleInv
<1>1. /\ UNCHANGED <<isRunning, chain, tickTimer, listed, run, lock, valid, enabled, scope,
                     outlived, stale>>
      /\ due' = due \cup {s} /\ late' = late \ {s}
      /\ fired' = [fired EXCEPT ![s] = 0]
  BY DEF BecomesDue, schedulerState, lockState
<1>2. /\ fired' \in [Schedule -> 0..2] /\ fired'[s] = 0
      /\ \A t \in Schedule \ {s} : fired'[t] = fired[t]
  BY <1>1 DEF ScheduleTypeOK
<1>3. ScheduleTypeOK'
  BY <1>1, <1>2 DEF ScheduleTypeOK
<1>4. LockInv'
  BY <1>1 DEF LockInv, LockHeld, ValidOwned, Active
<1>5. ChainInv'
  BY <1>1, ChainFrame DEF Alive, ChainInv, ActiveAlive, Active
<1>6. \A t \in Schedule : Spared(t) => Spared(t)'
  BY <1>1, <1>2 DEF Spared
<1>7. FiredInv'
  <2>1. DueNotFired'
    BY <1>1, <1>2 DEF FiredInv, DueNotFired, ScheduleTypeOK
  <2>2. PolicyNotFired'
    BY <1>1, <1>6 DEF FiredInv, PolicyNotFired
  <2>3. ListedNotFired'
    BY <1>1, <1>6 DEF FiredInv, ListedNotFired, Active
  <2>4. OccurrenceOnce'
    BY <1>1, <1>2 DEF FiredInv, OccurrenceOnce
  <2> QED
    BY <2>1, <2>2, <2>3, <2>4 DEF FiredInv
<1> QED
  BY <1>3, <1>4, <1>5, <1>7

LEMMA EnableKeeps ==
  ASSUME ScheduleInv, NEW s \in Schedule, NEW on \in BOOLEAN, SetEnabled(s, on)
  PROVE  ScheduleInv'
<1> USE DEF ScheduleInv
<1>1. /\ UNCHANGED <<isRunning, chain, tickTimer, listed, run, lock, valid, scope, fired,
                     outlived, late, stale>>
      /\ due' = due \ {s}
      /\ enabled' = IF on THEN enabled \cup {s} ELSE enabled \ {s}
  BY DEF SetEnabled, schedulerState, lockState, historyState
<1>2. ScheduleTypeOK'
  BY <1>1 DEF ScheduleTypeOK
<1>3. LockInv'
  BY <1>1 DEF LockInv, LockHeld, ValidOwned, Active
<1>4. ChainInv'
  BY <1>1, ChainFrame DEF Alive, ChainInv, ActiveAlive, Active
<1>5. FiredInv'
  BY <1>1, FiredFrame DEF Active
<1> QED
  BY <1>2, <1>3, <1>4, <1>5

LEMMA ScheduleKeeps == ScheduleInv /\ [ScheduleNext]_scheduleVars => ScheduleInv'
<1> SUFFICES ASSUME ScheduleInv, [ScheduleNext]_scheduleVars PROVE ScheduleInv'
  OBVIOUS
<1>1. CASE UNCHANGED scheduleVars
  <2>1. UNCHANGED <<isRunning, chain, tickTimer, listed, run, lock, valid, enabled, due, scope,
                    fired, outlived, late, stale>>
    BY <1>1 DEF scheduleVars
  <2>2. ScheduleTypeOK'
    BY <2>1 DEF ScheduleInv, ScheduleTypeOK
  <2>3. LockInv'
    BY <2>1 DEF ScheduleInv, LockInv, LockHeld, ValidOwned, Active
  <2>4. ChainInv'
    BY <2>1 DEF ScheduleInv, ChainInv, ActiveAlive, BesideStale, Active, Alive
  <2>5. FiredInv'
    BY <2>1, FiredFrame DEF ScheduleInv, Active
  <2> QED
    BY <2>2, <2>3, <2>4, <2>5 DEF ScheduleInv
<1>2. ASSUME NEW c \in Chain,
             \/ StartScheduler(c) \/ ChainGoesOn(c) \/ Tick(c)
             \/ \E s \in Schedule : RecoverSchedule(c, s)
      PROVE  ScheduleInv'
  BY <1>2, StartKeeps, GoOnKeeps, TickKeeps, RecoverKeeps
<1>3. CASE StopScheduler
  BY <1>3, StopKeeps
<1>4. ASSUME NEW s \in Schedule,
             \/ Trigger(s) \/ LeaseExpires(s) \/ BecomesDue(s)
             \/ \E on \in BOOLEAN : SetEnabled(s, on)
             \/ \E b \in By : PolicyAllows(b, s) \/ PolicyDenies(b, s) \/ HandlerEnds(b, s)
      PROVE  ScheduleInv'
  BY <1>4, TriggerKeeps, ExpiryKeeps, DueKeeps, EnableKeeps, AllowKeeps, OverKeeps
<1> QED
  BY <1>1, <1>2, <1>3, <1>4, Zenon DEF ScheduleNext

LEMMA Invariance == ScheduleSpec => []ScheduleInv
<1> QED
  BY ScheduleStarts, ScheduleKeeps, PTL DEF ScheduleSpec

-----------------------------------------------------------------------------
(* Every reachable state of the scheduler has the types its declarations   *)
(* give it.                                                                *)
THEOREM ScheduleTypeCorrect == ScheduleSpec => []ScheduleTypeOK
<1>1. ScheduleInv => ScheduleTypeOK
  BY DEF ScheduleInv
<1> QED
  BY <1>1, Invariance, PTL

(* ScheduleLock: whatever chains, recoveries and hands run a schedule, two *)
(* runs within their leases never overlap.                                 *)
THEOREM RunsExcludeEachOther == ScheduleSpec => []OneRunPerLease
<1>1. ScheduleInv => OneRunPerLease
  BY DEF ScheduleInv, LockInv, LockHeld, OneRunPerLease
<1> QED
  BY <1>1, Invariance, PTL

(* ScheduleRunner: the chains fire an occurrence once, unless a handler    *)
(* starts after its lease or a recovery is not alone.                      *)
THEOREM OccurrencesFireOnce == ScheduleSpec => []OccurrenceOnce
<1>1. ScheduleInv => OccurrenceOnce
  BY DEF ScheduleInv, FiredInv
<1> QED
  BY <1>1, Invariance, PTL

-----------------------------------------------------------------------------
(***************************************************************************)
(* The job queues.                                                         *)
(***************************************************************************)

Dead(k) == file[k] = Torn /\ cache[k] = Nothing /\ \A c \in Caller : ~Of(c, k)
OnFile(j) == file[j] # Nothing /\ j \notin ended
Around(j) == (cache[j] # Nothing \/ file[j] # Nothing) /\ j \notin ended

FilesKnown == \A j \in Job : Readable(file[j]) \/ file[j] \in {Nothing, Torn}
Stays == \A j \in accepted \ (ended \cup spoilt) : Readable(file[j])

Recovered == (\A j \in Job : OnFile(j) => cache[j] # Nothing) \/ \E k \in Job : Dead(k)
ReadyRecovered == ready => Recovered
TornDead == ~ready => \A k \in Job : file[k] = Torn => Dead(k)

\* What holds of the call of c.
RemovingEnded(c) == \A j \in Job : (call[c].at = "removing" /\ Of(c, j)) => j \in ended
LoadingRest(c) ==
    call[c].at \in {"loading", "read"} =>
        \A j \in Job : OnFile(j) =>
            \/ j \in call[c].todo
            \/ call[c].at = "read" /\ Of(c, j)
            \/ cache[j] # Nothing
WritingCached(c) ==
    \A j \in Job : (Writing(c) /\ Of(c, j)) =>
                       (Readable(call[c].data) /\ (cache[j] # Nothing \/ j \in ended))
ReadyCalls(c) == call[c].at \notin {"idle", "loading", "read"} => ready
TodoOnFile(c) == \A j \in call[c].todo : file[j] = Nothing => ready
ReadOnFile(c) ==
    \A j \in Job : (call[c].at = "read" /\ Of(c, j)) =>
                       (Readable(call[c].data) /\ (file[j] # Nothing \/ j \in ended))
CallOK(c) ==
    /\ RemovingEnded(c) /\ LoadingRest(c) /\ WritingCached(c)
    /\ ReadyCalls(c) /\ TodoOnFile(c) /\ ReadOnFile(c)

FileInv ==
    /\ FilesKnown /\ Stays /\ ReadyRecovered /\ TornDead
    /\ \A c \in Caller : CallOK(c)

KeysApart ==
    \/ \E k \in Job : Dead(k)
    \/ \A j, k \in Job :
          (setting.key[j] = setting.key[k] /\ Around(j) /\ Around(k)) => j = k
HeldLeased ==
    \A w \in Worker, j \in Job :
        (Holds(w, j) /\ j \notin loose \cup ended) => cache[j].state = "LEASED"
OneHolder ==
    \A v, w \in Worker, j \in Job :
        (Holds(v, j) /\ Holds(w, j) /\ j \notin loose \cup ended) => v = w
LeaseInv == KeysApart /\ HeldLeased /\ OneHolder

JobInv == JobTypeOK /\ FileInv /\ LeaseInv

\* The call of d goes on as it was, but for what it knows of other writes.
Same(d) ==
    /\ call'[d].at = call[d].at /\ call'[d].job = call[d].job
    /\ call'[d].todo = call[d].todo /\ call'[d].data = call[d].data

-----------------------------------------------------------------------------
LEMMA NothingTyped == Nothing \in Entry /\ Nothing \in Content
BY JobAssumption DEF Nothing, Entry, Content, Tries

(* One caller moves to v.                                                  *)
LEMMA Moves ==
  ASSUME call \in [Caller -> Calls], NEW c \in Caller, NEW v \in Calls,
         call' = [call EXCEPT ![c] = v]
  PROVE  /\ call' \in [Caller -> Calls] /\ call'[c] = v
         /\ \A d \in Caller \ {c} : Same(d)
BY DEF Same

(* What a step of one caller has to respect for the files.                 *)
LEMMA FileFrame ==
  ASSUME FileInv, NEW c \in Caller,
         \A d \in Caller \ {c} : Same(d),
         CallOK(c)',
         ready => ready',
         (ready' /\ ~ready) => Recovered',
         ended \subseteq ended',
         \A j \in Job : Dead(j) => Dead(j)',
         \A j \in Job : cache[j] # Nothing => (cache'[j] # Nothing \/ j \in ended'),
         \A j \in Job : OnFile(j)' => (OnFile(j) \/ cache'[j] # Nothing),
         \A j \in Job : (file'[j] = Nothing /\ file[j] # Nothing) => (ready' /\ j \in ended'),
         ready' \/ file' = file,
         FilesKnown', Stays'
  PROVE  FileInv'
<1>1. ReadyRecovered'
  <2>1. CASE ready
    <3>1. CASE \E k \in Job : Dead(k)
      BY <3>1 DEF ReadyRecovered, Recovered
    <3>2. CASE \A j \in Job : OnFile(j) => cache[j] # Nothing
      <4>1. \A j \in Job : OnFile(j)' => cache'[j] # Nothing
        <5> SUFFICES ASSUME NEW j \in Job, OnFile(j)' PROVE cache'[j] # Nothing
          OBVIOUS
        <5>1. j \notin ended'
          BY DEF OnFile
        <5> QED
          BY <3>2, <5>1
      <4> QED
        BY <4>1 DEF ReadyRecovered, Recovered
    <3> QED
      BY <2>1, <3>1, <3>2 DEF FileInv, ReadyRecovered, Recovered
  <2>2. CASE ~ready
    BY <2>2 DEF ReadyRecovered
  <2> QED
    BY <2>1, <2>2
<1>2. TornDead'
  BY DEF FileInv, TornDead
<1>3. ASSUME NEW d \in Caller, d # c
      PROVE  CallOK(d)'
  <2>1. Same(d) /\ CallOK(d)
    BY <1>3 DEF FileInv
  <2>2. RemovingEnded(d)'
    BY <2>1 DEF Same, CallOK, RemovingEnded, Of
  <2>3. LoadingRest(d)'
    <3>1. ASSUME NEW j \in Job, OnFile(j)', call[d].at \in {"loading", "read"},
                 cache'[j] = Nothing
          PROVE  j \in call[d].todo \/ (call[d].at = "read" /\ Of(d, j))
      <4>1. OnFile(j) /\ cache[j] = Nothing
        BY <3>1 DEF OnFile
      <4> QED
        BY <2>1, <3>1, <4>1 DEF CallOK, LoadingRest
    <3> QED
      BY <2>1, <3>1 DEF Same, LoadingRest, Of
  <2>4. WritingCached(d)'
    BY <2>1 DEF Same, CallOK, WritingCached, Of, Writing
  <2>5. ReadyCalls(d)' /\ TodoOnFile(d)'
    <3>1. ReadyCalls(d)'
      BY <2>1 DEF Same, CallOK, ReadyCalls
    <3>2. \A j \in call[d].todo : file'[j] = Nothing => ready'
      <4>1. CASE file' = file
        BY <2>1, <4>1 DEF CallOK, TodoOnFile
      <4> QED
        BY <4>1
    <3> QED
      BY <2>1, <3>1, <3>2 DEF Same, TodoOnFile
  <2>6. ReadOnFile(d)'
    BY <2>1 DEF Same, CallOK, ReadOnFile, Of
  <2> QED
    BY <2>2, <2>3, <2>4, <2>5, <2>6 DEF CallOK
<1> QED
  BY <1>1, <1>2, <1>3 DEF FileInv

(* And for the leases.                                                     *)
LEMMA LeaseFrame ==
  ASSUME LeaseInv, NEW c \in Caller,
         \A d \in Caller \ {c} : Same(d),
         KeysApart',
         ended \subseteq ended', loose \subseteq loose',
         \A j \in Job : (cache[j].state = "LEASED" /\ j \notin loose' \cup ended') =>
               (cache'[j].state = "LEASED" \/ \A w \in Worker \ {c} : ~Holds(w, j)),
         \A j \in Job : (c \in Worker /\ Holds(c, j)' /\ j \notin loose' \cup ended') =>
               /\ cache'[j].state = "LEASED"
               /\ Holds(c, j) \/ cache[j].state # "LEASED"
  PROVE  LeaseInv'
<1>1. Worker \subseteq Caller
  BY DEF Caller
<1>2. \A w \in Worker \ {c}, j \in Job : Holds(w, j)' <=> Holds(w, j)
  BY <1>1 DEF Same, Holds, Of
<1>3. HeldLeased'
  <2> SUFFICES ASSUME NEW w \in Worker, NEW j \in Job, Holds(w, j)', j \notin loose' \cup ended'
               PROVE  cache'[j].state = "LEASED"
    BY DEF HeldLeased
  <2>1. CASE w = c
    BY <2>1
  <2>2. CASE w # c
    BY <1>2, <2>2 DEF LeaseInv, HeldLeased
  <2> QED
    BY <2>1, <2>2
<1>4. OneHolder'
  <2> SUFFICES ASSUME NEW v \in Worker, NEW w \in Worker, NEW j \in Job, Holds(v, j)', Holds(w, j)',
                      j \notin loose' \cup ended'
               PROVE  v = w
    BY DEF OneHolder
  <2>1. j \notin loose \cup ended
    OBVIOUS
  <2>2. ASSUME NEW u \in Worker \ {c}, Holds(u, j)' PROVE Holds(u, j) /\ cache[j].state = "LEASED"
    BY <1>2, <2>1, <2>2 DEF LeaseInv, HeldLeased
  <2>3. (v # c /\ w = c) => Holds(c, j)
    BY <2>2
  <2>4. (w # c /\ v = c) => Holds(c, j)
    BY <2>2
  <2> QED
    BY <2>1, <2>2, <2>3, <2>4 DEF LeaseInv, OneHolder
<1> QED
  BY <1>3, <1>4 DEF LeaseInv

(* The jobs around stay apart as long as none comes up.                    *)
LEMMA ApartKeeps ==
  ASSUME LeaseInv, setting' = setting,
         \A j \in Job : Dead(j) => Dead(j)',
         \A j \in Job : Around(j)' => Around(j)
  PROVE  KeysApart'
BY DEF LeaseInv, KeysApart

-----------------------------------------------------------------------------
LEMMA JobsStart == JobInit => JobInv
<1> SUFFICES ASSUME JobInit PROVE JobInv
  OBVIOUS
<1>1. /\ \A j \in Job : cache[j] = Nothing /\ file[j] = Nothing
      /\ \A c \in Caller : call[c] = Idle
      /\ ~ready /\ accepted = {}
  BY DEF JobInit
<1>2. JobTypeOK
  <2>1. Nothing \in Entry /\ Nothing \in Content /\ Idle \in Calls
    BY JobAssumption DEF Nothing, Entry, Content, Idle, Calls, Tries
  <2>2. setting \in Settings /\ setting.faults \in Nat
    BY JobAssumption DEF JobInit
  <2>3. faults \in 0..setting.faults
    BY <2>2 DEF JobInit
  <2>4. cache \in [Job -> Entry] /\ file \in [Job -> Content] /\ call \in [Caller -> Calls]
    BY <2>1 DEF JobInit
  <2> QED
    BY <2>2, <2>3, <2>4 DEF JobInit, JobTypeOK
<1>3. FileInv
  <2>1. ASSUME NEW c \in Caller
        PROVE  CallOK(c)
    <3>1. call[c].at = "idle" /\ call[c].todo = {}
      BY <1>1 DEF Idle
    <3> QED
      BY <3>1 DEF CallOK, RemovingEnded, LoadingRest, WritingCached, ReadyCalls, TodoOnFile,
                  ReadOnFile, Writing
  <2>2. FilesKnown /\ Stays /\ ReadyRecovered /\ TornDead
    BY <1>1 DEF FilesKnown, Stays, ReadyRecovered, TornDead, Nothing, Torn
  <2> QED
    BY <2>1, <2>2 DEF FileInv
<1>4. LeaseInv
  <2>1. \A w \in Worker : call[w].at = "idle"
    BY <1>1 DEF Caller, Idle
  <2>2. \A j \in Job : ~Around(j)
    BY <1>1 DEF Around
  <2> QED
    BY <2>1, <2>2 DEF LeaseInv, KeysApart, HeldLeased, OneHolder, Holds
<1> QED
  BY <1>2, <1>3, <1>4 DEF JobInv

(* A step of the call of c that touches neither cache nor files.           *)
LEMMA OnlyCallKeeps ==
  ASSUME JobInv, NEW c \in Caller, NEW v \in Calls, call' = [call EXCEPT ![c] = v],
         UNCHANGED <<cache, file, setting, accepted, ended, spoilt, loose, faults>>,
         ready' \in BOOLEAN, ready => ready',
         (ready' /\ ~ready) => Recovered',
         CallOK(c)',
         v.at \notin {"leasing", "working"},
         \A j \in Job : v.job = {j} => ~Dead(j)
  PROVE  JobInv'
<1>1. /\ call \in [Caller -> Calls]
      /\ JobTypeOK /\ FileInv /\ LeaseInv
  BY DEF JobInv, JobTypeOK
<1>2. /\ call' \in [Caller -> Calls] /\ call'[c] = v
      /\ \A d \in Caller \ {c} : Same(d)
  BY <1>1, Moves
<1>3. JobTypeOK'
  BY <1>1, <1>2 DEF JobTypeOK
<1>4. \A j \in Job : Dead(j) => Dead(j)'
  BY <1>2 DEF Dead, Of, Same
<1>5. \A j \in Job : ~Holds(c, j)'
  BY <1>2 DEF Holds
<1>6. FilesKnown' /\ Stays'
  BY <1>1 DEF FileInv, FilesKnown, Stays
<1>7. \A j \in Job : OnFile(j)' => OnFile(j)
  BY DEF OnFile
<1>8. FileInv'
  BY <1>1, <1>2, <1>4, <1>6, <1>7, FileFrame
<1>9. KeysApart'
  BY <1>1, <1>4, ApartKeeps DEF Around
<1>10. LeaseInv'
  BY <1>1, <1>2, <1>5, <1>9, LeaseFrame
<1> QED
  BY <1>3, <1>8, <1>10 DEF JobInv

(* What a place of no consequence asks of the invariant.                   *)
LEMMA QuietPlace ==
  ASSUME NEW c \in Caller, call'[c].at \in {"idle", "begun"}, call'[c].todo = {},
         call'[c].at = "begun" => ready'
  PROVE  CallOK(c)'
BY DEF CallOK, RemovingEnded, LoadingRest, WritingCached, ReadyCalls, TodoOnFile, ReadOnFile,
       Writing

LEMMA BeginKeeps ==
  ASSUME JobInv, NEW c \in Caller, Begin(c)
  PROVE  JobInv'
<1> DEFINE v == IF ready THEN [Idle EXCEPT !.at = "begun"]
                ELSE [Idle EXCEPT !.at = "loading", !.todo = {j \in Job : file[j] # Nothing}]
<1>1. /\ call' = [call EXCEPT ![c] = v]
      /\ UNCHANGED <<cache, file, ready, setting, accepted, ended, spoilt, loose, faults>>
      /\ call \in [Caller -> Calls] /\ ready \in BOOLEAN
  BY DEF Begin, jobHistory, JobInv, JobTypeOK
<1>2. v \in Calls /\ v.at \in {"begun", "loading"} /\ v.job = {}
  <2>2. CASE ready
    BY <2>2, NothingTyped DEF Idle, Calls
  <2>3. CASE ~ready
    BY <2>3, NothingTyped DEF Idle, Calls
  <2> QED
    BY <2>2, <2>3
<1>3. v.at = "begun" => (ready /\ v.todo = {})
  BY DEF Idle
<1>4. v.at = "loading" => (~ready /\ v.todo = {j \in Job : file[j] # Nothing})
  BY DEF Idle
<1> HIDE DEF v
<1>5. call'[c] = v
  BY <1>1
<1>6. CallOK(c)'
  <2>1. CASE v.at = "begun"
    BY <1>1, <1>3, <1>5, <2>1, QuietPlace
  <2>2. CASE v.at = "loading"
    <3>1. LoadingRest(c)'
      BY <1>1, <1>4, <1>5, <2>2 DEF LoadingRest, OnFile
    <3>2. TodoOnFile(c)'
      BY <1>1, <1>4, <1>5, <2>2 DEF TodoOnFile
    <3> QED
      BY <1>5, <2>2, <3>1, <3>2 DEF CallOK, RemovingEnded, WritingCached, ReadyCalls,
                                    ReadOnFile, Writing
  <2> QED
    BY <1>2, <2>1, <2>2
<1> QED
  BY <1>1, <1>2, <1>6, OnlyCallKeeps

LEMMA ReadKeeps ==
  ASSUME JobInv, NEW c \in Caller, NEW j \in Job, ReadFile(c, j)
  PROVE  JobInv'
<1> DEFINE v == [Idle EXCEPT !.at = "read", !.data = file[j], !.job = {j},
                             !.todo = call[c].todo \ {j}]
<1>1. /\ call' = [call EXCEPT ![c] = v]
      /\ UNCHANGED <<cache, file, ready, setting, accepted, ended, spoilt, loose, faults>>
      /\ call \in [Caller -> Calls] /\ call[c] \in Calls /\ ready \in BOOLEAN
      /\ file[j] \in Content
      /\ call[c].at = "loading" /\ Readable(file[j])
  BY DEF ReadFile, jobHistory, JobInv, JobTypeOK
<1>2. /\ v \in Calls /\ v.at = "read" /\ v.job = {j}
      /\ v.todo = call[c].todo \ {j} /\ v.data = file[j]
  BY <1>1 DEF Idle, Calls
<1> HIDE DEF v
<1>3. call'[c] = v
  BY <1>1
<1>4. /\ LoadingRest(c) /\ TodoOnFile(c)
  BY DEF JobInv, FileInv, CallOK
<1>5. file[j] # Nothing /\ ~Dead(j)
  BY <1>1 DEF Readable, Nothing, Torn, Dead
<1>6. CallOK(c)'
  <2>1. LoadingRest(c)'
    <3> SUFFICES ASSUME NEW k \in Job, OnFile(k)'
                 PROVE  k \in v.todo \/ v.job = {k} \/ cache[k] # Nothing
      BY <1>1, <1>2, <1>3 DEF LoadingRest, Of
    <3>1. k \in call[c].todo \/ cache[k] # Nothing
      BY <1>1, <1>4 DEF LoadingRest, OnFile
    <3> QED
      BY <1>2, <3>1
  <2>2. TodoOnFile(c)'
    BY <1>1, <1>2, <1>3, <1>4 DEF TodoOnFile
  <2>3. ReadOnFile(c)'
    BY <1>1, <1>2, <1>3, <1>5 DEF ReadOnFile, Of
  <2> QED
    BY <1>2, <1>3, <2>1, <2>2, <2>3 DEF CallOK, RemovingEnded, WritingCached, ReadyCalls, Writing
<1>7. \A k \in Job : v.job = {k} => ~Dead(k)
  BY <1>2, <1>5
<1> QED
  BY <1>1, <1>2, <1>6, <1>7, OnlyCallKeeps

(* The loading of c is over, or its read throws: what is left out then is  *)
(* left out because a file is torn, unless the queue is ready already.     *)
LEMMA LoadOverKeeps ==
  ASSUME JobInv, NEW c \in Caller, LoadEnds(c) \/ \E j \in Job : ReadThrows(c, j)
  PROVE  JobInv'
<1> DEFINE v == [Idle EXCEPT !.at = "begun"]
<1>1. /\ call' = [call EXCEPT ![c] = v]
      /\ ready' = TRUE
      /\ UNCHANGED <<cache, file, setting, accepted, ended, spoilt, loose, faults>>
      /\ call \in [Caller -> Calls] /\ call[c].at = "loading"
  BY DEF LoadEnds, ReadThrows, jobHistory, JobInv, JobTypeOK
<1>2. v \in Calls /\ v.at = "begun" /\ v.job = {} /\ v.todo = {}
  BY NothingTyped DEF Idle, Calls
<1> HIDE DEF v
<1>3. /\ call'[c] = v /\ \A d \in Caller \ {c} : Same(d)
  BY <1>1, <1>2, Moves
<1>4. CallOK(c)'
  BY <1>1, <1>2, <1>3, QuietPlace
<1>5. ASSUME ~ready PROVE Recovered'
  <2>1. CASE LoadEnds(c)
    <3>1. call[c].todo = {}
      BY <2>1 DEF LoadEnds
    <3>2. \A j \in Job : OnFile(j) => cache[j] # Nothing
      BY <1>1, <3>1 DEF JobInv, FileInv, CallOK, LoadingRest
    <3> QED
      BY <1>1, <3>2 DEF Recovered, OnFile
  <2>2. ASSUME NEW j \in Job, ReadThrows(c, j) PROVE Recovered'
    <3>1. \A d \in Caller : ~Writing(d)
      BY <1>5 DEF JobInv, FileInv, CallOK, ReadyCalls, Writing
    <3>2. j \in call[c].todo /\ ~Readable(file[j])
      BY <2>2, <3>1 DEF ReadThrows
    <3>3. file[j] = Torn
      BY <1>5, <3>2 DEF JobInv, FileInv, FilesKnown, CallOK, TodoOnFile
    <3>4. Dead(j)
      BY <1>5, <3>3 DEF JobInv, FileInv, TornDead
    <3>5. Dead(j)'
      BY <1>1, <1>2, <1>3, <3>4 DEF Dead, Of, Same
    <3> QED
      BY <3>5 DEF Recovered
  <2> QED
    BY <2>1, <2>2
<1> QED
  BY <1>1, <1>2, <1>4, <1>5, OnlyCallKeeps

LEMMA NothingKeeps ==
  ASSUME JobInv, NEW w \in Worker, TakeNothing(w)
  PROVE  JobInv'
<1>1. /\ call' = [call EXCEPT ![w] = Idle]
      /\ UNCHANGED <<cache, file, ready, setting, accepted, ended, spoilt, loose, faults>>
      /\ call \in [Caller -> Calls] /\ w \in Caller /\ ready \in BOOLEAN
  BY DEF TakeNothing, jobHistory, JobInv, JobTypeOK, Caller
<1>2. Idle \in Calls /\ Idle.at = "idle" /\ Idle.job = {} /\ Idle.todo = {}
  BY NothingTyped DEF Idle, Calls
<1>3. call'[w] = Idle
  BY <1>1
<1>4. CallOK(w)'
  BY <1>1, <1>2, <1>3, QuietPlace
<1> QED
  BY <1>1, <1>2, <1>4, OnlyCallKeeps

(* A step on one job leaves the other files dead.                          *)
LEMMA DeadStays ==
  ASSUME call \in [Caller -> Calls], cache \in [Job -> Entry],
         NEW c \in Caller, NEW v \in Calls, call' = [call EXCEPT ![c] = v],
         NEW j \in Job, NEW e \in Entry, cache' = [cache EXCEPT ![j] = e],
         file' = file, ~Dead(j), v.job \in {{}, {j}}
  PROVE  \A k \in Job : Dead(k) => Dead(k)'
<1> SUFFICES ASSUME NEW k \in Job, Dead(k) PROVE Dead(k)'
  OBVIOUS
<1>1. k # j /\ cache'[k] = cache[k]
  OBVIOUS
<1>2. /\ call'[c] = v /\ \A d \in Caller \ {c} : Same(d)
  BY Moves
<1>3. \A d \in Caller : ~Of(d, k)'
  BY <1>1, <1>2 DEF Dead, Of, Same
<1> QED
  BY <1>1, <1>3 DEF Dead

(* What writing asks of the invariant.                                     *)
LEMMA WritingPlace ==
  ASSUME NEW c \in Caller, NEW j \in Job,
         call'[c].at \in {"expiring", "leasing", "saving"}, call'[c].job = {j},
         call'[c].todo = {}, Readable(call'[c].data), ready',
         cache'[j] # Nothing \/ j \in ended'
  PROVE  CallOK(c)'
BY DEF CallOK, RemovingEnded, LoadingRest, WritingCached, ReadyCalls, TodoOnFile, ReadOnFile,
       Writing, Of

(* A step of c on the entry of one job j in the cache, which is on its way *)
(* from or to a file, or new.                                              *)
LEMMA CacheKeeps ==
  ASSUME JobInv, NEW c \in Caller, NEW v \in Calls, call' = [call EXCEPT ![c] = v],
         NEW j \in Job, NEW e \in Entry, cache' = [cache EXCEPT ![j] = e],
         UNCHANGED <<file, ready, setting, accepted, spoilt, faults>>,
         ended \subseteq ended', ended' \subseteq Job,
         loose \subseteq loose', loose' \subseteq Job,
         CallOK(c)',
         v.job \in {{}, {j}},
         ~Dead(j),
         e # Nothing \/ j \in ended',
         Around(j) \/ j \in ended \/ KeysApart',
         (cache[j].state = "LEASED" /\ j \notin loose' \cup ended') =>
            (e.state = "LEASED" \/ \A w \in Worker \ {c} : ~Holds(w, j)),
         (v.at \in {"leasing", "working"} /\ v.job = {j}) =>
            (e.state = "LEASED" /\ cache[j].state # "LEASED")
  PROVE  JobInv'
<1>1. /\ call \in [Caller -> Calls] /\ cache \in [Job -> Entry]
      /\ JobTypeOK /\ FileInv /\ LeaseInv
  BY DEF JobInv, JobTypeOK
<1>2. /\ call' \in [Caller -> Calls] /\ call'[c] = v
      /\ \A d \in Caller \ {c} : Same(d)
  BY <1>1, Moves
<1>3. /\ cache' \in [Job -> Entry] /\ cache'[j] = e
      /\ \A k \in Job \ {j} : cache'[k] = cache[k]
  BY <1>1
<1>4. JobTypeOK'
  BY <1>1, <1>2, <1>3 DEF JobTypeOK
<1>5. \A k \in Job : Dead(k) => Dead(k)'
  BY <1>1, DeadStays
<1>6. FilesKnown' /\ Stays'
  BY <1>1 DEF FileInv, FilesKnown, Stays
<1>7. \A k \in Job : OnFile(k)' => OnFile(k)
  BY DEF OnFile
<1>8. \A k \in Job : cache[k] # Nothing => (cache'[k] # Nothing \/ k \in ended')
  BY <1>3
<1>9. FileInv'
  BY <1>1, <1>2, <1>5, <1>6, <1>7, <1>8, FileFrame
<1>10. KeysApart'
  <2>1. CASE Around(j) \/ j \in ended
    <3>1. \A k \in Job : Around(k)' => Around(k)
      BY <1>3, <2>1 DEF Around
    <3> QED
      BY <1>1, <1>5, <3>1, ApartKeeps
  <2> QED
    BY <2>1
<1>11. \A k \in Job : (cache[k].state = "LEASED" /\ k \notin loose' \cup ended') =>
               (cache'[k].state = "LEASED" \/ \A w \in Worker \ {c} : ~Holds(w, k))
  BY <1>3
<1>12. \A k \in Job : (Holds(c, k)' /\ k \notin loose' \cup ended') =>
               /\ cache'[k].state = "LEASED"
               /\ Holds(c, k) \/ cache[k].state # "LEASED"
  BY <1>2, <1>3 DEF Holds, Of
<1>13. LeaseInv'
  BY <1>1, <1>2, <1>10, <1>11, <1>12, LeaseFrame
<1> QED
  BY <1>4, <1>9, <1>13 DEF JobInv

(* A loaded job is put into the cache.  Before the queue is ready nobody   *)
(* holds it.                                                               *)
LEMMA LoadKeeps ==
  ASSUME JobInv, NEW c \in Caller, NEW j \in Job, LoadJob(c, j)
  PROVE  JobInv'
<1> DEFINE v == [Idle EXCEPT !.at = "loading", !.todo = call[c].todo]
           e == [state |-> "PENDING", tries |-> call[c].data.tries]
<1>1. /\ call' = [call EXCEPT ![c] = v]
      /\ cache' = [cache EXCEPT ![j] = e]
      /\ UNCHANGED <<file, ready, setting, accepted, ended, spoilt, faults>>
      /\ loose' = IF ready THEN loose \cup {j} ELSE loose
      /\ call \in [Caller -> Calls] /\ call[c] \in Calls
      /\ cache \in [Job -> Entry] /\ loose \subseteq Job /\ ended \subseteq Job
      /\ call[c].at = "read" /\ Of(c, j)
  BY DEF LoadJob, JobInv, JobTypeOK
<1>2. /\ v \in Calls /\ v.at = "loading" /\ v.job = {} /\ v.todo = call[c].todo
  BY <1>1, NothingTyped DEF Idle, Calls
<1>3. e \in Entry /\ e # Nothing
  BY <1>1 DEF Calls, Content, Entry, Nothing
<1> HIDE DEF v, e
<1>4. /\ call'[c] = v /\ cache'[j] = e /\ \A k \in Job \ {j} : cache'[k] = cache[k]
  BY <1>1
<1>5. LoadingRest(c) /\ TodoOnFile(c) /\ ReadOnFile(c)
  BY DEF JobInv, FileInv, CallOK
<1>6. CallOK(c)'
  <2>1. LoadingRest(c)'
    <3> SUFFICES ASSUME NEW k \in Job, OnFile(k)'
                 PROVE  k \in v.todo \/ cache'[k] # Nothing
      BY <1>2, <1>4 DEF LoadingRest
    <3>1. k \in call[c].todo \/ Of(c, k) \/ cache[k] # Nothing
      BY <1>1, <1>5 DEF LoadingRest, OnFile
    <3>2. Of(c, k) => k = j
      BY <1>1 DEF Of
    <3> QED
      BY <1>2, <1>3, <1>4, <3>1, <3>2
  <2>2. TodoOnFile(c)'
    BY <1>1, <1>2, <1>4, <1>5 DEF TodoOnFile
  <2> QED
    BY <1>2, <1>4, <2>1, <2>2 DEF CallOK, RemovingEnded, WritingCached, ReadyCalls, ReadOnFile,
                                  Writing
<1>7. ~Dead(j)
  BY <1>1 DEF Dead
<1>8. Around(j) \/ j \in ended
  BY <1>1, <1>5 DEF ReadOnFile, Around
<1>9. ~ready => \A w \in Worker : ~Holds(w, j)
  BY DEF JobInv, FileInv, CallOK, ReadyCalls, Holds, Caller
<1>10. v.job \in {{}, {j}} /\ v.at \notin {"leasing", "working"}
  BY <1>2
<1>11. j \notin loose' => \A w \in Worker \ {c} : ~Holds(w, j)
  BY <1>1, <1>9
<1>12. loose \subseteq loose' /\ loose' \subseteq Job
  BY <1>1
<1> QED
  BY <1>1, <1>2, <1>3, <1>6, <1>7, <1>8, <1>10, <1>11, <1>12, CacheKeeps

(* What a caller that has begun knows.                                     *)
LEMMA BegunReady ==
  ASSUME JobInv, NEW c \in Caller, call[c].at \notin {"idle", "loading", "read"}
  PROVE  ready
BY DEF JobInv, FileInv, CallOK, ReadyCalls

(* A call that does nothing more.                                          *)
LEMMA ReturnKeeps ==
  ASSUME JobInv, NEW c \in Caller, call' = [call EXCEPT ![c] = Idle],
         UNCHANGED <<cache, file, ready, setting, accepted, ended, spoilt, loose, faults>>
  PROVE  JobInv'
<1>1. Idle \in Calls /\ Idle.at = "idle" /\ Idle.job = {} /\ Idle.todo = {}
  BY NothingTyped DEF Idle, Calls
<1>2. call'[c] = Idle /\ ready \in BOOLEAN
  BY DEF JobInv, JobTypeOK
<1>3. CallOK(c)'
  BY <1>1, <1>2, QuietPlace
<1> QED
  BY <1>1, <1>2, <1>3, OnlyCallKeeps

(* A new job comes around: none of its key is in the cache, and so none is *)
(* on file, or a file is dead.                                             *)
LEMMA EnqueueKeeps ==
  ASSUME JobInv, NEW j \in Job, Enqueue(j)
  PROVE  JobInv'
<1> DEFINE v == [Idle EXCEPT !.at = "saving", !.job = {j},
                             !.data = [state |-> "PENDING", tries |-> 0]]
           e == [cache[j] EXCEPT !.state = "PENDING"]
<1>1. /\ UNCHANGED <<file, ready, setting, accepted, ended, spoilt, loose, faults>>
      /\ call[Producer].at = "begun" /\ j \in Fresh
      /\ call \in [Caller -> Calls] /\ cache \in [Job -> Entry] /\ cache[j] \in Entry
      /\ ended \subseteq Job /\ loose \subseteq Job /\ Producer \in Caller
  BY DEF Enqueue, jobHistory, JobInv, JobTypeOK, Caller
<1>2. CASE Alike(j) # {}
  BY <1>1, <1>2, ReturnKeeps DEF Enqueue
<1>3. CASE Alike(j) = {}
  <2>1. cache' = [cache EXCEPT ![j] = e] /\ call' = [call EXCEPT ![Producer] = v]
    BY <1>3 DEF Enqueue, Persist
  <2>2. /\ v \in Calls /\ v.at = "saving" /\ v.job = {j} /\ v.todo = {}
        /\ v.data.state = "PENDING"
    <3>1. [state |-> "PENDING", tries |-> 0] \in Content
      BY JobAssumption DEF Content, Tries
    <3> QED
      BY <3>1, NothingTyped DEF Idle, Calls
  <2>3. e \in Entry /\ e # Nothing
    BY <1>1 DEF Entry, Nothing
  <2> HIDE DEF v, e
  <2>4. call'[Producer] = v /\ cache'[j] = e /\ \A k \in Job \ {j} : cache'[k] = cache[k]
    BY <1>1, <2>1
  <2>5. ready
    BY <1>1, BegunReady
  <2>6. CallOK(Producer)'
    BY <1>1, <2>2, <2>3, <2>4, <2>5, WritingPlace DEF Readable
  <2>7. cache[j] = Nothing /\ file[j] = Nothing /\ ~Dead(j)
    BY <1>1 DEF Fresh, Dead, Nothing, Torn
  <2>8. KeysApart'
    <3>1. CASE \E k \in Job : Dead(k)
      BY <1>1, <2>1, <2>2, <2>3, <2>7, <3>1, DeadStays DEF KeysApart
    <3>2. CASE ~\E k \in Job : Dead(k)
      <4>1. \A k \in Job : OnFile(k) => cache[k] # Nothing
        BY <2>5, <3>2 DEF JobInv, FileInv, ReadyRecovered, Recovered
      <4>2. \A k \in Job \ {j} : setting.key[k] = setting.key[j] => cache[k] = Nothing
        BY <1>3 DEF Alike
      <4>3. \A k \in Job \ {j} : Around(k)' <=> Around(k)
        BY <1>1, <2>4 DEF Around
      <4>4. \A k \in Job \ {j} : setting.key[k] = setting.key[j] => ~Around(k)
        BY <4>1, <4>2 DEF Around, OnFile
      <4>5. \A k, l \in Job :
               (setting.key[k] = setting.key[l] /\ Around(k) /\ Around(l)) => k = l
        BY <3>2 DEF JobInv, LeaseInv, KeysApart
      <4>6. ASSUME NEW k \in Job, NEW l \in Job, setting.key[k] = setting.key[l],
                   Around(k)', Around(l)'
            PROVE  k = l
        BY <4>3, <4>4, <4>5, <4>6
      <4> QED
        BY <1>1, <4>6 DEF KeysApart
    <3> QED
      BY <3>1, <3>2
  <2>9. cache[j].state # "LEASED"
    BY <2>7 DEF Nothing
  <2> QED
    BY <1>1, <2>1, <2>2, <2>3, <2>6, <2>7, <2>8, <2>9, CacheKeeps
<1> QED
  BY <1>2, <1>3

LEMMA LapsedKeeps ==
  ASSUME JobInv, NEW w \in Worker, NEW j \in Job, ReturnLapsed(w, j)
  PROVE  JobInv'
<1> DEFINE v == [Idle EXCEPT !.at = "expiring", !.job = {j},
                             !.data = [state |-> "PENDING", tries |-> cache[j].tries]]
           e == [cache[j] EXCEPT !.state = "PENDING"]
<1>1. /\ UNCHANGED <<file, ready, setting, accepted, ended, spoilt, loose, faults>>
      /\ call[w].at = "begun" /\ cache[j].state = "LAPSED" /\ w \in Caller
      /\ call \in [Caller -> Calls] /\ cache \in [Job -> Entry] /\ cache[j] \in Entry
      /\ ended \subseteq Job /\ loose \subseteq Job
      /\ cache' = [cache EXCEPT ![j] = e] /\ call' = [call EXCEPT ![w] = v]
  BY DEF ReturnLapsed, Persist, jobHistory, JobInv, JobTypeOK, Caller
<1>2. /\ v \in Calls /\ v.at = "expiring" /\ v.job = {j} /\ v.todo = {}
      /\ v.data.state = "PENDING"
  BY <1>1, NothingTyped DEF Idle, Calls, Content, Entry
<1>3. e \in Entry /\ e # Nothing /\ cache[j] # Nothing
  BY <1>1 DEF Entry, Nothing
<1> HIDE DEF v, e
<1>4. call'[w] = v /\ cache'[j] = e
  BY <1>1
<1>5. ready
  BY <1>1, BegunReady
<1>6. CallOK(w)'
  BY <1>1, <1>2, <1>3, <1>4, <1>5, WritingPlace DEF Readable
<1>7. ~Dead(j) /\ (Around(j) \/ j \in ended)
  BY <1>3 DEF Dead, Around
<1> QED
  BY <1>1, <1>2, <1>3, <1>6, <1>7, CacheKeeps

(* A job that is taken is PENDING, so nobody within a lease holds it.      *)
LEMMA TakeKeeps ==
  ASSUME JobInv, NEW w \in Worker, NEW j \in Job, Take(w, j)
  PROVE  JobInv'
<1> DEFINE tries == IF Exhausted(j) THEN cache[j].tries ELSE cache[j].tries + 1
           e == [state |-> "LEASED", tries |-> tries]
           v == [Idle EXCEPT !.at = "leasing", !.job = {j}, !.data = e]
<1>1. /\ UNCHANGED <<file, ready, setting, accepted, ended, spoilt, loose, faults>>
      /\ call[w].at = "begun" /\ cache[j].state = "PENDING" /\ w \in Caller
      /\ call \in [Caller -> Calls] /\ cache \in [Job -> Entry] /\ cache[j] \in Entry
      /\ ended \subseteq Job /\ loose \subseteq Job /\ setting \in Settings
      /\ cache' = [cache EXCEPT ![j] = e] /\ call' = [call EXCEPT ![w] = v]
  BY DEF Take, Persist, jobHistory, JobInv, JobTypeOK, Caller
<1>2. tries \in Tries
  BY <1>1, JobAssumption DEF Exhausted, Entry, Tries
<1> HIDE DEF tries
<1>3. /\ v \in Calls /\ v.at = "leasing" /\ v.job = {j} /\ v.todo = {}
      /\ v.data.state = "LEASED"
  BY <1>2, NothingTyped DEF Idle, Calls, Content
<1>4. e \in Entry /\ e # Nothing /\ e.state = "LEASED" /\ cache[j] # Nothing
  BY <1>1, <1>2 DEF Entry, Nothing
<1> HIDE DEF v, e
<1>5. call'[w] = v /\ cache'[j] = e
  BY <1>1
<1>6. ready
  BY <1>1, BegunReady
<1>7. CallOK(w)'
  BY <1>1, <1>3, <1>4, <1>5, <1>6, WritingPlace DEF Readable
<1>8. ~Dead(j) /\ (Around(j) \/ j \in ended)
  BY <1>4 DEF Dead, Around
<1> QED
  BY <1>1, <1>3, <1>4, <1>7, <1>8, CacheKeeps

(* A job that is removed has ended; a job that is tried again was held by  *)
(* nobody else within a lease.                                             *)
LEMMA RemoveKeeps ==
  ASSUME JobInv, NEW w \in Worker, NEW j \in Job, call[w].at = "working", Of(w, j),
         cache[j] # Nothing, RemoveJob(w, j),
         UNCHANGED <<file, ready, setting, accepted, spoilt, loose, faults>>
  PROVE  JobInv'
<1> DEFINE v == [Idle EXCEPT !.at = "removing", !.job = {j}]
<1>1. /\ cache' = [cache EXCEPT ![j] = Nothing] /\ call' = [call EXCEPT ![w] = v]
      /\ ended' = ended \cup {j} /\ w \in Caller
      /\ call \in [Caller -> Calls] /\ cache \in [Job -> Entry]
      /\ ended \subseteq Job /\ loose \subseteq Job
  BY DEF RemoveJob, JobInv, JobTypeOK, Caller
<1>2. v \in Calls /\ v.at = "removing" /\ v.job = {j} /\ v.todo = {}
  BY NothingTyped DEF Idle, Calls
<1> HIDE DEF v
<1>3. call'[w] = v /\ ready
  BY <1>1, BegunReady
<1>4. CallOK(w)'
  BY <1>1, <1>2, <1>3 DEF CallOK, RemovingEnded, LoadingRest, WritingCached, ReadyCalls,
                          TodoOnFile, ReadOnFile, Writing, Of
<1>5. ~Dead(j) /\ (Around(j) \/ j \in ended)
  BY DEF Dead, Around
<1>6. ended' \subseteq Job /\ j \in ended' /\ Nothing \in Entry
  BY <1>1, NothingTyped
<1> QED
  BY <1>1, <1>2, <1>4, <1>5, <1>6, CacheKeeps

LEMMA AnswerKeeps ==
  ASSUME JobInv, NEW w \in Worker, NEW j \in Job,
         Ack(w, j) \/ \E fatal \in BOOLEAN : Nack(w, j, fatal)
  PROVE  JobInv'
<1>1. /\ UNCHANGED <<file, ready, setting, accepted, spoilt, loose, faults>>
      /\ call[w].at = "working" /\ Of(w, j) /\ w \in Caller
      /\ call \in [Caller -> Calls] /\ cache \in [Job -> Entry] /\ cache[j] \in Entry
      /\ ended \subseteq Job /\ loose \subseteq Job
  BY DEF Ack, Nack, JobInv, JobTypeOK, Caller
<1>2. CASE cache[j] = Nothing
  BY <1>1, <1>2, ReturnKeeps DEF Ack, Nack
<1>3. CASE cache[j] # Nothing /\ RemoveJob(w, j)
  BY <1>1, <1>3, RemoveKeeps
<1> DEFINE v == [Idle EXCEPT !.at = "saving", !.job = {j},
                             !.data = [state |-> "PENDING", tries |-> cache[j].tries]]
           e == [cache[j] EXCEPT !.state = "PENDING"]
<1>4. CASE cache' = [cache EXCEPT ![j] = e] /\ call' = [call EXCEPT ![w] = v] /\ ended' = ended
           /\ cache[j] # Nothing
  <2>1. /\ v \in Calls /\ v.at = "saving" /\ v.job = {j} /\ v.todo = {}
        /\ v.data.state = "PENDING"
    BY <1>1, NothingTyped DEF Idle, Calls, Content, Entry
  <2>2. e \in Entry /\ e # Nothing
    BY <1>1 DEF Entry, Nothing
  <2> HIDE DEF v, e
  <2>3. call'[w] = v /\ cache'[j] = e
    BY <1>1, <1>4
  <2>4. ready
    BY <1>1, BegunReady
  <2>5. CallOK(w)'
    BY <1>1, <2>1, <2>2, <2>3, <2>4, WritingPlace DEF Readable
  <2>6. ~Dead(j) /\ (Around(j) \/ j \in ended)
    BY <1>4 DEF Dead, Around
  <2>7. j \notin loose \cup ended => \A u \in Worker \ {w} : ~Holds(u, j)
    BY <1>1 DEF JobInv, LeaseInv, OneHolder, Holds
  <2> QED
    BY <1>1, <1>4, <2>1, <2>2, <2>5, <2>6, <2>7, CacheKeeps
<1> QED
  <2>1. CASE Ack(w, j)
    BY <1>2, <1>3, <2>1 DEF Ack
  <2>2. ASSUME NEW fatal \in BOOLEAN, Nack(w, j, fatal) PROVE JobInv'
    BY <1>2, <1>3, <1>4, <2>2, Zenon DEF Nack, Persist
  <2> QED
    BY <2>1, <2>2

-----------------------------------------------------------------------------
(* A write of c is over, and x is in the file.  The job is in the cache, or*)
(* has ended.                                                              *)
LEMMA WriteKeeps ==
  ASSUME JobInv, NEW c \in Caller, NEW j \in Job, Writing(c), Of(c, j), AfterWrite(c, j),
         NEW x \in Content, file' = [file EXCEPT ![j] = x],
         UNCHANGED <<cache, ready, setting, ended, loose>>,
         spoilt \subseteq spoilt', spoilt' \subseteq Job, faults' \in 0..setting.faults,
         Readable(x) \/ (x \in {Torn, file[j]} /\ j \in spoilt')
  PROVE  JobInv'
<1>1. /\ call \in [Caller -> Calls] /\ file \in [Job -> Content] /\ accepted \subseteq Job
      /\ setting \in Settings /\ JobTypeOK /\ FileInv /\ LeaseInv
  BY DEF JobInv, JobTypeOK
<1>2. /\ call'[c].at \in {"idle", "begun", "working"}
      /\ call'[c].at = "working" => call[c].at = "leasing"
      /\ call'[c].todo = {} /\ call'[c].job \in {{}, {j}} /\ call'[c] \in Calls
  BY NothingTyped DEF AfterWrite, Writing, Idle, Calls
<1>3. ASSUME NEW d \in Caller \ {c} PROVE Same(d) /\ call'[d] \in Calls
  <2>1. call'[d] = IF Writing(d) /\ Of(d, j) THEN [call[d] EXCEPT !.mixed = TRUE] ELSE call[d]
    BY <1>3 DEF AfterWrite
  <2>2. call[d] \in Calls
    BY <1>1
  <2> QED
    BY <2>1, <2>2 DEF Same, Calls
<1>4. call' \in [Caller -> Calls]
  <2> DEFINE after(d) ==
          IF d = c
          THEN CASE call[c].at = "expiring" -> [Idle EXCEPT !.at = "begun"]
                 [] call[c].at = "leasing"  -> [Idle EXCEPT !.at = "working", !.job = {j}]
                 [] call[c].at = "saving"   -> Idle
          ELSE IF Writing(d) /\ Of(d, j) THEN [call[d] EXCEPT !.mixed = TRUE] ELSE call[d]
  <2>1. call' = [d \in Caller |-> after(d)]
    BY Zenon DEF AfterWrite
  <2>2. \A d \in Caller : call'[d] \in Calls
    BY <1>2, <1>3
  <2> HIDE DEF after
  <2> QED
    BY <2>1, <2>2
<1>5. /\ file' \in [Job -> Content] /\ file'[j] = x
      /\ \A k \in Job \ {j} : file'[k] = file[k]
      /\ accepted' \in {accepted, accepted \cup {j}}
  BY <1>1 DEF AfterWrite
<1>6. JobTypeOK'
  BY <1>1, <1>4, <1>5 DEF JobTypeOK
<1>7. ready
  BY BegunReady DEF Writing
<1>8. cache[j] # Nothing \/ j \in ended
  BY DEF JobInv, FileInv, CallOK, WritingCached
<1>9. CallOK(c)'
  BY <1>2, <1>7 DEF CallOK, RemovingEnded, LoadingRest, WritingCached, ReadyCalls, TodoOnFile,
                    ReadOnFile, Writing
<1>10. \A k \in Job : Dead(k) => Dead(k)'
  <2> SUFFICES ASSUME NEW k \in Job, Dead(k) PROVE Dead(k)'
    OBVIOUS
  <2>1. k # j
    BY DEF Dead
  <2>2. \A d \in Caller : ~Of(d, k)'
    BY <1>2, <1>3, <2>1 DEF Dead, Of, Same
  <2> QED
    BY <1>5, <2>1, <2>2 DEF Dead
<1>11. FilesKnown' /\ Stays'
  <2>1. Readable(file[j]) \/ file[j] \in {Nothing, Torn}
    BY <1>1 DEF FileInv, FilesKnown
  <2>2. FilesKnown'
    BY <1>1, <1>5, <2>1 DEF FileInv, FilesKnown
  <2>3. \A k \in Job \ {j} : k \in accepted' => k \in accepted
    BY <1>5
  <2>4. Readable(x) \/ j \in spoilt'
    OBVIOUS
  <2>5. ASSUME NEW k \in Job, k \in accepted', k \notin ended' \cup spoilt' PROVE Readable(file'[k])
    <3>1. CASE k = j
      BY <1>5, <2>4, <2>5, <3>1
    <3>2. CASE k # j
      BY <1>1, <1>5, <2>3, <2>5, <3>2 DEF FileInv, Stays
    <3> QED
      BY <3>1, <3>2
  <2> QED
    BY <1>6, <2>2, <2>5 DEF Stays, JobTypeOK
<1>12. \A k \in Job : OnFile(k)' => (OnFile(k) \/ cache'[k] # Nothing)
  BY <1>5, <1>8 DEF OnFile
<1>13. \A k \in Job : file'[k] = Nothing => file[k] = Nothing
  <2>1. Readable(x) \/ x = Torn => x # Nothing
    BY DEF Readable, Nothing, Torn
  <2> QED
    BY <1>5, <2>1
<1>14. FileInv'
  BY <1>1, <1>3, <1>7, <1>9, <1>10, <1>11, <1>12, <1>13, FileFrame
<1>15. \A k \in Job : Around(k)' => Around(k)
  BY <1>5, <1>8 DEF Around
<1>16. KeysApart'
  BY <1>1, <1>10, <1>15, ApartKeeps
<1>17. \A k \in Job : (c \in Worker /\ Holds(c, k)' /\ k \notin loose' \cup ended') =>
               /\ cache'[k].state = "LEASED"
               /\ Holds(c, k)
  <2> SUFFICES ASSUME NEW k \in Job, c \in Worker, Holds(c, k)', k \notin loose' \cup ended'
               PROVE  cache[k].state = "LEASED" /\ Holds(c, k)
    OBVIOUS
  <2>1. Holds(c, k)
    BY <1>2 DEF Holds, Of
  <2> QED
    BY <1>1, <2>1 DEF LeaseInv, HeldLeased
<1>18. LeaseInv'
  BY <1>1, <1>3, <1>16, <1>17, LeaseFrame
<1> QED
  BY <1>6, <1>14, <1>18 DEF JobInv

LEMMA WritesKeep ==
  ASSUME JobInv, NEW c \in Caller, NEW j \in Job,
         WriteEnds(c, j) \/ WriteMixes(c, j) \/ WriteFails(c, j)
  PROVE  JobInv'
<1>1. /\ call \in [Caller -> Calls] /\ file \in [Job -> Content] /\ spoilt \subseteq Job
      /\ setting \in Settings /\ faults \in 0..setting.faults /\ setting.faults \in Nat
  BY JobAssumption DEF JobInv, JobTypeOK
<1>2. CASE WriteEnds(c, j)
  <2>1. Readable(call[c].data) /\ call[c].data \in Content
    BY <1>1, <1>2 DEF WriteEnds, JobInv, FileInv, CallOK, WritingCached, Calls
  <2> QED
    BY <1>1, <1>2, <2>1, WriteKeeps DEF WriteEnds
<1>3. CASE WriteMixes(c, j)
  <2>1. Torn \in Content
    BY JobAssumption DEF Torn, Content, Tries
  <2> QED
    BY <1>1, <1>3, <2>1, WriteKeeps DEF WriteMixes
<1>4. CASE WriteFails(c, j)
  <2>1. file' = [file EXCEPT ![j] = file[j]] /\ file[j] \in Content
    BY <1>1, <1>4 DEF WriteFails
  <2>2. faults' \in 0..setting.faults
    BY <1>1, <1>4 DEF WriteFails, Fault
  <2> QED
    BY <1>1, <1>4, <2>1, <2>2, WriteKeeps DEF WriteFails
<1> QED
  BY <1>2, <1>3, <1>4

(* The file of a job that has ended is removed.                            *)
LEMMA RemoveEndsKeeps ==
  ASSUME JobInv, NEW w \in Worker, NEW j \in Job, RemoveEnds(w, j)
  PROVE  JobInv'
<1>1. /\ call \in [Caller -> Calls] /\ file \in [Job -> Content] /\ w \in Caller
      /\ JobTypeOK /\ FileInv /\ LeaseInv
      /\ file' = [file EXCEPT ![j] = Nothing] /\ call' = [call EXCEPT ![w] = Idle]
      /\ UNCHANGED <<cache, ready, setting, accepted, ended, spoilt, loose, faults>>
      /\ call[w].at = "removing" /\ Of(w, j)
  BY DEF RemoveEnds, jobHistory, JobInv, JobTypeOK, Caller
<1>2. Idle \in Calls /\ Idle.at = "idle" /\ Idle.job = {} /\ Idle.todo = {}
  BY NothingTyped DEF Idle, Calls
<1>3. /\ call' \in [Caller -> Calls] /\ call'[w] = Idle
      /\ \A d \in Caller \ {w} : Same(d)
  BY <1>1, <1>2, Moves
<1>4. /\ file' \in [Job -> Content] /\ file'[j] = Nothing
      /\ \A k \in Job \ {j} : file'[k] = file[k]
  BY <1>1, NothingTyped
<1>5. JobTypeOK'
  BY <1>1, <1>3, <1>4 DEF JobTypeOK
<1>6. ready /\ j \in ended
  <2>1. j \in ended
    BY <1>1 DEF FileInv, CallOK, RemovingEnded
  <2> QED
    BY <1>1, <2>1, BegunReady
<1>7. CallOK(w)'
  BY <1>1, <1>2, <1>3, QuietPlace
<1>8. \A k \in Job : Dead(k) => Dead(k)'
  <2> SUFFICES ASSUME NEW k \in Job, Dead(k) PROVE Dead(k)'
    OBVIOUS
  <2>1. k # j
    BY <1>1 DEF Dead
  <2>2. \A d \in Caller : ~Of(d, k)'
    BY <1>2, <1>3 DEF Dead, Of, Same
  <2> QED
    BY <1>1, <1>4, <2>1, <2>2 DEF Dead
<1>9. FilesKnown' /\ Stays'
  BY <1>1, <1>4, <1>6 DEF FileInv, FilesKnown, Stays
<1>10. /\ \A k \in Job : OnFile(k)' => OnFile(k)
       /\ \A k \in Job : Around(k)' => Around(k)
  BY <1>1, <1>4 DEF OnFile, Around
<1>11. \A k \in Job : (file'[k] = Nothing /\ file[k] # Nothing) => k \in ended'
  BY <1>1, <1>4, <1>6
<1>12. FileInv'
  BY <1>1, <1>3, <1>6, <1>7, <1>8, <1>9, <1>10, <1>11, FileFrame
<1>13. KeysApart'
  BY <1>1, <1>8, <1>10, ApartKeeps
<1>14. \A k \in Job : ~Holds(w, k)'
  BY <1>2, <1>3 DEF Holds
<1>15. LeaseInv'
  BY <1>1, <1>3, <1>13, <1>14, LeaseFrame
<1> QED
  BY <1>5, <1>12, <1>15 DEF JobInv

(* A lease that runs out makes its job loose.                              *)
LEMMA LapseKeeps ==
  ASSUME JobInv, NEW j \in Job, Lapse(j)
  PROVE  JobInv'
<1> DEFINE e == [cache[j] EXCEPT !.state = "LAPSED"]
<1>1. /\ call \in [Caller -> Calls] /\ cache \in [Job -> Entry] /\ cache[j] \in Entry
      /\ JobTypeOK /\ FileInv /\ LeaseInv /\ Producer \in Caller
      /\ cache' = [cache EXCEPT ![j] = e] /\ loose' = loose \cup {j}
      /\ UNCHANGED <<file, ready, call, setting, accepted, ended, spoilt>>
      /\ cache[j].state = "LEASED" /\ setting \in Settings
      /\ faults \in 0..setting.faults /\ setting.faults \in Nat
  BY JobAssumption DEF Lapse, JobInv, JobTypeOK, Caller
<1>2. e \in Entry /\ e # Nothing /\ cache[j] # Nothing
  BY <1>1 DEF Entry, Nothing
<1> HIDE DEF e
<1>3. /\ cache' \in [Job -> Entry]
      /\ \A k \in Job \ {j} : cache'[k] = cache[k]
      /\ \A k \in Job : cache'[k] = Nothing <=> cache[k] = Nothing
  BY <1>1, <1>2
<1>4. faults' \in 0..setting'.faults
  BY <1>1 DEF Lapse, Fault
<1>5. JobTypeOK'
  BY <1>1, <1>3, <1>4 DEF JobTypeOK
<1>6. \A d \in Caller : Same(d)
  BY <1>1 DEF Same
<1>7. CallOK(Producer)'
  <2>1. CallOK(Producer)
    BY <1>1 DEF FileInv
  <2>2. LoadingRest(Producer)'
    BY <1>1, <1>3, <2>1 DEF CallOK, LoadingRest, OnFile, Of
  <2>3. WritingCached(Producer)'
    BY <1>1, <1>3, <2>1 DEF CallOK, WritingCached, Of, Writing
  <2> QED
    BY <1>1, <2>1, <2>2, <2>3 DEF CallOK, RemovingEnded, ReadyCalls, TodoOnFile, ReadOnFile, Of
<1>8. \A k \in Job : Dead(k) => Dead(k)'
  BY <1>1, <1>3 DEF Dead, Of
<1>9. FilesKnown' /\ Stays'
  BY <1>1 DEF FileInv, FilesKnown, Stays
<1>10. /\ \A k \in Job : OnFile(k)' => OnFile(k)
       /\ \A k \in Job : Around(k)' => Around(k)
  BY <1>1, <1>3 DEF OnFile, Around
<1>11. FileInv'
  BY <1>1, <1>3, <1>6, <1>7, <1>8, <1>9, <1>10, FileFrame
<1>12. KeysApart'
  BY <1>1, <1>8, <1>10, ApartKeeps
<1>13. LeaseInv'
  BY <1>1, <1>3, <1>6, <1>12, JobAssumption, LeaseFrame
<1> QED
  BY <1>5, <1>11, <1>13 DEF JobInv

(* A crash leaves the files; one that is torn then is in nobody's hands.   *)
LEMMA CrashKeeps ==
  ASSUME JobInv, NEW cut \in SUBSET Caller, Crash(cut)
  PROVE  JobInv'
<1> DEFINE hit == {j \in Job : \E c \in cut : Of(c, j)}
<1>1. /\ file \in [Job -> Content] /\ spoilt \subseteq Job
      /\ JobTypeOK /\ FileInv /\ LeaseInv
      /\ setting \in Settings /\ faults \in 0..setting.faults /\ setting.faults \in Nat
      /\ file' = [j \in Job |-> IF j \in hit THEN Torn ELSE file[j]]
      /\ spoilt' = spoilt \cup hit
      /\ cut \subseteq {c \in Caller : Writing(c)}
      /\ UNCHANGED <<setting, accepted, ended>> /\ loose' = {} /\ ready' = FALSE
  BY JobAssumption DEF Crash, JobInv, JobTypeOK
<1>2. /\ hit \subseteq Job
      /\ \A j \in hit : cache[j] # Nothing \/ j \in ended
  BY <1>1 DEF FileInv, CallOK, WritingCached
<1> HIDE DEF hit
<1>3. /\ \A j \in Job : cache'[j] = Nothing
      /\ \A c \in Caller : call'[c] = Idle
      /\ Idle.at = "idle" /\ Idle.job = {} /\ Idle.todo = {}
  BY DEF Crash, Idle
<1>4. JobTypeOK'
  <2>1. Nothing \in Entry /\ Idle \in Calls
    BY NothingTyped DEF Idle, Calls
  <2>2. cache' \in [Job -> Entry] /\ call' \in [Caller -> Calls]
    BY <2>1 DEF Crash
  <2>3. Torn \in Content
    BY JobAssumption DEF Torn, Content, Tries
  <2>4. file' \in [Job -> Content]
    BY <1>1, <2>3
  <2>5. faults' \in 0..setting'.faults
    BY <1>1 DEF Crash, Fault
  <2> QED
    BY <1>1, <1>2, <2>2, <2>4, <2>5 DEF JobTypeOK
<1>5. FileInv'
  <2>1. FilesKnown'
    BY <1>1 DEF FileInv, FilesKnown
  <2>2. Stays'
    <3> SUFFICES ASSUME NEW j \in accepted \ (ended \cup spoilt'), j \in Job PROVE Readable(file'[j])
      BY <1>1, <1>4 DEF Stays, JobTypeOK
    <3> QED
      BY <1>1 DEF FileInv, Stays
  <2>3. TornDead' /\ ReadyRecovered'
    BY <1>1, <1>3 DEF TornDead, ReadyRecovered, Dead, Of
  <2>4. \A c \in Caller : CallOK(c)'
    BY <1>3, QuietPlace
  <2> QED
    BY <2>1, <2>2, <2>3, <2>4 DEF FileInv
<1>6. LeaseInv'
  <2>1. \A w \in Worker, j \in Job : ~Holds(w, j)'
    BY <1>3 DEF Holds, Caller
  <2>2. \A k \in Job : Dead(k) => Dead(k)'
    BY <1>1, <1>3 DEF Dead, Of
  <2>3. \A k \in Job : Around(k)' => Around(k)
    BY <1>1, <1>2, <1>3 DEF Around
  <2>4. KeysApart'
    BY <1>1, <2>2, <2>3, ApartKeeps
  <2> QED
    BY <2>1, <2>4 DEF LeaseInv, HeldLeased, OneHolder
<1> QED
  BY <1>4, <1>5, <1>6 DEF JobInv

-----------------------------------------------------------------------------
LEMMA StutterKeeps == JobInv /\ UNCHANGED jobVars => JobInv'
<1> SUFFICES ASSUME JobInv, UNCHANGED jobVars PROVE JobInv'
  OBVIOUS
<1>1. JobTypeOK'
  BY DEF JobInv, JobTypeOK, jobVars
<1>2. FilesKnown' /\ Stays' /\ ReadyRecovered' /\ TornDead'
  BY DEF JobInv, FileInv, FilesKnown, Stays, ReadyRecovered, Recovered, TornDead, Dead, OnFile,
         Of, jobVars
<1>3. ASSUME NEW c \in Caller PROVE CallOK(c)'
  <2>1. CallOK(c)
    BY DEF JobInv, FileInv
  <2> QED
    BY <2>1 DEF CallOK, RemovingEnded, LoadingRest, WritingCached, ReadyCalls, TodoOnFile,
                ReadOnFile, OnFile, Writing, Of, jobVars
<1>4. LeaseInv'
  BY DEF JobInv, LeaseInv, KeysApart, HeldLeased, OneHolder, Holds, Around, Dead, Of, jobVars
<1> QED
  BY <1>1, <1>2, <1>3, <1>4 DEF JobInv, FileInv

LEMMA JobsKeep == JobInv /\ [JobNext]_jobVars => JobInv'
<1> SUFFICES ASSUME JobInv, [JobNext]_jobVars PROVE JobInv'
  OBVIOUS
<1>1. ASSUME NEW c \in Caller, Begin(c) PROVE JobInv'
  BY <1>1, BeginKeeps
<1>2. ASSUME NEW c \in Caller, LoadSteps(c) PROVE JobInv'
  BY <1>2, ReadKeeps, LoadOverKeeps, LoadKeeps DEF LoadSteps
<1>3. ASSUME NEW c \in Caller, WriteSteps(c) PROVE JobInv'
  BY <1>3, WritesKeep DEF WriteSteps
<1>4. ASSUME NEW j \in Job, Enqueue(j) PROVE JobInv'
  BY <1>4, EnqueueKeeps
<1>5. ASSUME NEW w \in Worker, WorkSteps(w) PROVE JobInv'
  <2>1. CASE TakeNothing(w)
    BY <2>1, NothingKeeps
  <2>2. CASE \E j \in Job : RemoveEnds(w, j)
    BY <2>2, RemoveEndsKeeps
  <2>3. CASE \E j \in Job : ReturnLapsed(w, j) \/ Take(w, j) \/ Ack(w, j)
    BY <2>3, LapsedKeeps, TakeKeeps, AnswerKeeps
  <2>4. CASE \E j \in Job, fatal \in BOOLEAN : Nack(w, j, fatal)
    BY <2>4, AnswerKeeps
  <2> QED
    BY <1>5, <2>1, <2>2, <2>3, <2>4, Zenon DEF WorkSteps
<1>6. ASSUME NEW j \in Job, Lapse(j) PROVE JobInv'
  BY <1>6, LapseKeeps
<1>7. ASSUME NEW cut \in SUBSET Caller, Crash(cut) PROVE JobInv'
  BY <1>7, CrashKeeps
<1>8. CASE UNCHANGED jobVars
  BY <1>8, StutterKeeps
<1> QED
  BY <1>1, <1>2, <1>3, <1>4, <1>5, <1>6, <1>7, <1>8, Zenon DEF JobNext

(* The invariant, with its parts on files and leases, holds of every       *)
(* behaviour of the queue.                                                 *)
THEOREM JobInvariance == JobSpec => []JobInv
<1>1. JobSpec => JobInit /\ [][JobNext]_jobVars
  BY DEF JobSpec
<1> QED
  BY <1>1, JobsStart, JobsKeep, PTL

(* Cache, files and calls of DurableJobQueue keep their types.             *)
THEOREM JobTypeCorrect == JobSpec => []JobTypeOK
<1>1. JobInv => JobTypeOK
  BY DEF JobInv
<1> QED
  BY <1>1, JobInvariance, PTL

(* A job whose enqueue has returned stays on file, and in the cache of a   *)
(* queue that is initialized, until it is acknowledged or given up.        *)
THEOREM AcceptedIsNotForgotten == JobSpec => []NeverForgotten
<1>1. JobInv => NeverForgotten
  <2> SUFFICES ASSUME JobInv, NEW j \in accepted \ (ended \cup spoilt)
               PROVE  /\ Readable(file[j])
                      /\ ready => cache[j] # Nothing \/ \E k \in Job : file[k] = Torn
    BY DEF NeverForgotten
  <2>1. Readable(file[j]) /\ j \in Job
    BY DEF JobInv, FileInv, Stays, JobTypeOK
  <2>2. OnFile(j)
    BY <2>1 DEF OnFile, Readable, Nothing
  <2> QED
    BY <2>1, <2>2 DEF JobInv, FileInv, ReadyRecovered, Recovered, Dead
<1> QED
  BY <1>1, JobInvariance, PTL

LEMMA LeasesApart == JobInv => LeaseExclusive
<1> SUFFICES ASSUME JobInv, NEW v \in Worker, NEW w \in Worker, NEW j \in Job, NEW k \in Job,
                    Holds(v, j), Holds(w, k), setting.key[j] = setting.key[k],
                    {j, k} \cap (loose \cup ended) = {},
                    \A i \in Job : file[i] # Torn
             PROVE  v = w
  BY DEF LeaseExclusive
<1>1. j \notin loose \cup ended /\ k \notin loose \cup ended
  OBVIOUS
<1>2. cache[j].state = "LEASED" /\ cache[k].state = "LEASED"
  BY <1>1 DEF JobInv, LeaseInv, HeldLeased
<1>3. Around(j) /\ Around(k)
  BY <1>1, <1>2 DEF Around, Nothing
<1>4. j = k
  BY <1>3 DEF JobInv, LeaseInv, KeysApart, Dead
<1> QED
  BY <1>1, <1>4 DEF JobInv, LeaseInv, OneHolder

(* Two workers have jobs of one key only after a lease ran out, a late     *)
(* load, the return of a job that had ended, or a torn file.               *)
THEOREM LeasesExclude == JobSpec => []LeaseExclusive
BY LeasesApart, JobInvariance, PTL

-----------------------------------------------------------------------------
(* The queue keeps the promise of JobContract.                             *)

\* What the contract calls working.
Given == [w \in Worker |-> IF call[w].at = "working" THEN call[w].job ELSE {}]

\* One of the steps that the contract allows.
Allowed ==
    \/ \E j \in Job : Promise!Accept(j)
    \/ \E w \in Worker, j \in Job : Promise!Deliver(w, j) \/ Promise!End(w, j)
    \/ \E w \in Worker : Promise!GiveBack(w)
    \/ Promise!Restart
    \/ UNCHANGED <<accepted, ended, Given>>

\* A worker has one job at a time.
OneJob == \A w \in Worker : call[w].at = "working" => \E j \in Job : Of(w, j)

LEMMA ContractStarts == JobInit => Promise!ContractInit
<1> SUFFICES ASSUME JobInit PROVE Promise!ContractInit
  OBVIOUS
<1>1. Worker \subseteq Caller
  BY DEF Caller
<1>2. \A j \in Job : ~Readable(file[j]) /\ file[j] # Torn
  BY DEF JobInit, Readable, Nothing, Torn
<1>3. \A w \in Worker : call[w].at = "idle"
  BY <1>1 DEF JobInit, Idle
<1> QED
  BY <1>2, <1>3 DEF JobInit, Promise!ContractInit

(* What an accepted job needs after a step is part of the invariant, and   *)
(* so is that the jobs of one key exclude each other.                      *)
LEMMA StepIsPromised ==
  ASSUME JobInv', OneJob', setting' = setting, spoilt \subseteq spoilt', Allowed
  PROVE  Promise!ContractNext
<1>1. Promise!OnRecord'
  <2>1. \A j \in accepted' \ (ended' \cup spoilt') : j \in Job /\ Readable(file[j])'
    BY DEF JobInv, JobTypeOK, FileInv, Stays
  <2> QED
    BY <2>1 DEF Promise!OnRecord
<1>2. Promise!OnePerKey'
  <2>1. LeaseExclusive'
    BY LeasesApart, PTL
  <2>2. ASSUME NEW v \in Worker, NEW j \in Given'[v]
        PROVE  j \in Job /\ Holds(v, j)'
    <3>1. call'[v].at = "working" /\ j \in call'[v].job
      BY <2>2 DEF Given
    <3>2. PICK i \in Job : Of(v, i)'
      BY <3>1 DEF OneJob
    <3>3. call'[v].job = {i} /\ j = i
      BY <3>1, <3>2 DEF Of
    <3> QED
      BY <3>1, <3>3 DEF Holds, Of
  <2>3. ASSUME NEW v \in Worker, NEW w \in Worker, NEW j \in Given'[v], NEW k \in Given'[w],
               v # w, setting'.key[j] = setting'.key[k]
        PROVE  {j, k} \cap (loose \cup ended \cup {i \in Job : \E h \in Job : file[h] = Torn})' # {}
    BY <2>1, <2>2, <2>3 DEF LeaseExclusive
  <2> QED
    BY <2>3 DEF Promise!OnePerKey, Given
<1> QED
  BY <1>1, <1>2, Zenon DEF Promise!ContractNext, Allowed, Given

\* The call of c goes to another place than the work on a job, alone.
Leaves(c) == call'[c].at # "working" /\ \A d \in Caller \ {c} : call'[d] = call[d]

LEMMA PersistMoves ==
  ASSUME JobInv, NEW c \in Caller, NEW at, NEW j, NEW entry, Persist(c, at, j, entry),
         at # "working"
  PROVE  Leaves(c)
<1>1. call \in [Caller -> Calls]
  BY DEF JobInv, JobTypeOK
<1> QED
  BY <1>1 DEF Persist, Leaves, Idle

LEMMA RemoveMoves ==
  ASSUME JobInv, NEW c \in Caller, NEW j, RemoveJob(c, j)
  PROVE  Leaves(c)
<1>1. call \in [Caller -> Calls]
  BY DEF JobInv, JobTypeOK
<1> QED
  BY <1>1 DEF RemoveJob, Leaves, Idle

LEMMA IdleMoves ==
  ASSUME JobInv, NEW c \in Caller, NEW a, a # "working",
         call' = [call EXCEPT ![c] = Idle] \/ call' = [call EXCEPT ![c] = [Idle EXCEPT !.at = a]]
  PROVE  Leaves(c)
<1>1. call \in [Caller -> Calls]
  BY DEF JobInv, JobTypeOK
<1> QED
  BY <1>1 DEF Leaves, Idle

LEMMA LoadsLeave ==
  ASSUME JobInv, NEW c \in Caller, Begin(c) \/ LoadSteps(c)
  PROVE  Leaves(c)
<1>1. call \in [Caller -> Calls]
  BY DEF JobInv, JobTypeOK
<1>2. CASE Begin(c)
  BY <1>1, <1>2 DEF Begin, Leaves, Idle
<1>3. CASE LoadSteps(c)
  BY <1>1, <1>3 DEF LoadSteps, ReadFile, ReadThrows, LoadJob, LoadEnds, Leaves, Idle
<1> QED
  BY <1>2, <1>3

LEMMA EnqueueLeaves ==
  ASSUME JobInv, NEW j \in Job, Enqueue(j)
  PROVE  Leaves(Producer)
<1>1. Producer \in Caller
  BY DEF Caller
<1>2. CASE Alike(j) = {}
  BY <1>1, <1>2, PersistMoves, "saving" # "working" DEF Enqueue
<1>3. CASE Alike(j) # {}
  BY <1>1, <1>3, IdleMoves DEF Enqueue
<1> QED
  BY <1>2, <1>3

LEMMA WorkLeaves ==
  ASSUME JobInv, NEW w \in Worker, WorkSteps(w)
  PROVE  Leaves(w)
<1>1. w \in Caller
  BY DEF Caller
<1>2. ASSUME NEW j \in Job, ReturnLapsed(w, j) PROVE Leaves(w)
  BY <1>1, <1>2, PersistMoves DEF ReturnLapsed
<1>3. ASSUME NEW j \in Job, Take(w, j) PROVE Leaves(w)
  BY <1>1, <1>3, PersistMoves DEF Take
<1>4. ASSUME NEW j \in Job, Ack(w, j) PROVE Leaves(w)
  BY <1>1, <1>4, RemoveMoves, IdleMoves DEF Ack
<1>5. ASSUME NEW j \in Job, NEW fatal \in BOOLEAN, Nack(w, j, fatal) PROVE Leaves(w)
  BY <1>1, <1>5, RemoveMoves, IdleMoves, PersistMoves DEF Nack
<1>6. ASSUME NEW j \in Job, TakeNothing(w) \/ RemoveEnds(w, j) PROVE Leaves(w)
  BY <1>1, <1>6, IdleMoves DEF TakeNothing, RemoveEnds
<1>7. CASE TakeNothing(w)
  BY <1>6, <1>7, JobAssumption
<1> QED
  BY <1>2, <1>3, <1>4, <1>5, <1>6, <1>7, Zenon DEF WorkSteps

(* A caller that moves between places outside the work on a job is given   *)
(* none, and loses none.                                                   *)
LEMMA QuietStep ==
  ASSUME NEW c \in Caller, Leaves(c), call[c].at # "working",
         accepted' = accepted, ended' = ended
  PROVE  Allowed
<1>1. \A w \in Worker : Given'[w] = Given[w]
  BY DEF Given, Leaves, Caller
<1>2. Given' = Given
  BY <1>1 DEF Given
<1> QED
  BY <1>2, Zenon DEF Allowed

LEMMA LoadsAllowed ==
  ASSUME JobInv, NEW c \in Caller, Begin(c) \/ LoadSteps(c)
  PROVE  Allowed
<1>1. call[c].at # "working" /\ accepted' = accepted /\ ended' = ended
  BY DEF Begin, LoadSteps, ReadFile, ReadThrows, LoadJob, LoadEnds, jobHistory
<1> QED
  BY <1>1, LoadsLeave, QuietStep

LEMMA EnqueueAllowed ==
  ASSUME JobInv, NEW j \in Job, Enqueue(j)
  PROVE  Allowed
<1>1. call[Producer].at # "working" /\ accepted' = accepted /\ ended' = ended
  BY DEF Enqueue, jobHistory
<1>2. Producer \in Caller
  BY DEF Caller
<1> QED
  BY <1>1, <1>2, EnqueueLeaves, QuietStep

LEMMA TakesAllowed ==
  ASSUME JobInv, NEW w \in Worker, WorkSteps(w), call[w].at # "working"
  PROVE  Allowed
<1>1. accepted' = accepted /\ ended' = ended
  BY DEF WorkSteps, ReturnLapsed, Take, TakeNothing, Ack, Nack, RemoveEnds, jobHistory
<1>2. w \in Caller
  BY DEF Caller
<1> QED
  BY <1>1, <1>2, WorkLeaves, QuietStep

(* ack and nack end the job of the worker or give it back.                 *)
LEMMA AnswersAllowed ==
  ASSUME JobInv, NEW w \in Worker, WorkSteps(w), call[w].at = "working"
  PROVE  Allowed
<1>1. PICK j \in Job : Ack(w, j) \/ \E fatal \in BOOLEAN : Nack(w, j, fatal)
  BY DEF WorkSteps, ReturnLapsed, Take, TakeNothing, RemoveEnds
<1>2. Given[w] = {j} /\ accepted' = accepted
  BY <1>1 DEF Given, Ack, Nack, Of
<1>3. w \in Caller /\ Worker \subseteq Caller
  BY DEF Caller
<1>4. Given' = [Given EXCEPT ![w] = {}]
  <2>1. (\A u \in Worker \ {w} : Given'[u] = Given[u]) /\ Given'[w] = {}
    BY <1>3, WorkLeaves DEF Given, Leaves
  <2> QED
    BY <2>1 DEF Given
<1>5. CASE ended' = ended
  <2>1. Promise!GiveBack(w)
    BY <1>2, <1>4, <1>5 DEF Promise!GiveBack, Given
  <2> QED
    BY <2>1 DEF Allowed
<1>6. CASE ended' = ended \cup {j}
  <2>1. Promise!End(w, j)
    BY <1>2, <1>4, <1>6 DEF Promise!End, Given
  <2> QED
    BY <2>1 DEF Allowed
<1>7. ended' = ended \/ ended' = ended \cup {j}
  BY <1>1 DEF Ack, Nack, RemoveJob
<1> QED
  BY <1>5, <1>6, <1>7

(* A write that is over accepts the job, or gives it to the worker.        *)
LEMMA WritesAllowed ==
  ASSUME JobInv, OneJob, NEW c \in Caller, WriteSteps(c)
  PROVE  Allowed
<1>1. PICK j \in Job : Writing(c) /\ Of(c, j) /\ AfterWrite(c, j) /\ ended' = ended
  BY DEF WriteSteps, WriteEnds, WriteMixes, WriteFails
<1>2. Worker \subseteq Caller /\ call \in [Caller -> Calls]
  BY DEF JobInv, JobTypeOK, Caller
<1>3. \A w \in Worker \ {c} : call'[w].at = call[w].at /\ call'[w].job = call[w].job
  <2> SUFFICES ASSUME NEW w \in Worker \ {c}
               PROVE  call'[w].at = call[w].at /\ call'[w].job = call[w].job
    OBVIOUS
  <2>1. call[w] \in Calls
    BY <1>2
  <2>2. call'[w] = IF Writing(w) /\ Of(w, j) THEN [call[w] EXCEPT !.mixed = TRUE] ELSE call[w]
    BY <1>1, <1>2 DEF AfterWrite
  <2> QED
    BY <2>1, <2>2 DEF Calls
<1>4. \A w \in Worker \ {c} : Given'[w] = Given[w]
  BY <1>3 DEF Given
<1>5. CASE c \in Worker /\ call[c].at = "leasing"
  <2>1. Given[c] = {} /\ Given'[c] = {j}
    <3>1. call'[c] = [Idle EXCEPT !.at = "working", !.job = {j}]
      BY <1>1, <1>5 DEF AfterWrite
    <3> QED
      BY <1>5, <3>1 DEF Given, Idle
  <2>2. Given' = [Given EXCEPT ![c] = {j}]
    BY <1>4, <2>1 DEF Given
  <2>3. Holds(c, j)
    BY <1>1, <1>5 DEF Holds
  <2>4. ASSUME NEW v \in Worker, NEW k \in Given[v], setting.key[k] = setting.key[j]
        PROVE  \/ {j, k} \cap (loose \cup ended) # {}
               \/ \E i \in Job : file[i] = Torn
    <3>1. call[v].at = "working" /\ k \in call[v].job /\ v # c
      BY <2>1, <2>4 DEF Given
    <3>2. k \in Job
      BY <1>2, <3>1 DEF Calls
    <3>3. Of(v, k)
      BY <3>1 DEF OneJob, Of
    <3>4. Holds(v, k)
      BY <3>1, <3>3 DEF Holds
    <3> QED
      BY <1>5, <2>3, <2>4, <3>1, <3>2, <3>4, LeasesApart DEF LeaseExclusive
  <2>5. accepted' = accepted
    BY <1>1, <1>5, JobAssumption DEF AfterWrite
  <2>6. Promise!Deliver(c, j)
    BY <1>1, <1>5, <2>1, <2>2, <2>4, <2>5 DEF Promise!Deliver, Given
  <2> QED
    BY <1>5, <2>6 DEF Allowed
<1>6. CASE ~(c \in Worker /\ call[c].at = "leasing")
  <2>1. c \in Worker => Given'[c] = Given[c]
    BY <1>1, <1>6 DEF AfterWrite, Writing, Given, Idle
  <2>2. Given' = Given
    BY <1>4, <2>1 DEF Given
  <2>3. CASE c = Producer
    <3>1. Promise!Accept(j)
      BY <1>1, <2>2, <2>3 DEF AfterWrite, Promise!Accept, Given
    <3> QED
      BY <3>1 DEF Allowed
  <2>4. CASE c # Producer
    <3>1. accepted' = accepted
      BY <1>1, <2>4 DEF AfterWrite
    <3> QED
      BY <1>1, <2>2, <3>1 DEF Allowed
  <2> QED
    BY <2>3, <2>4
<1> QED
  BY <1>5, <1>6

LEMMA OutsideAllowed ==
  ASSUME JobInv,
         \/ \E j \in Job : Lapse(j)
         \/ \E cut \in SUBSET Caller : Crash(cut)
         \/ UNCHANGED jobVars
  PROVE  Allowed
<1>1. CASE \E j \in Job : Lapse(j)
  BY <1>1 DEF Lapse, Allowed, Given
<1>2. CASE \E cut \in SUBSET Caller : Crash(cut)
  <2>1. call' = [c \in Caller |-> Idle] /\ accepted' = accepted /\ ended' = ended
    BY <1>2 DEF Crash
  <2>2. \A w \in Worker : call'[w].at = "idle"
    BY <2>1 DEF Caller, Idle
  <2>3. Promise!Restart
    BY <2>1, <2>2 DEF Promise!Restart
  <2> QED
    BY <2>3 DEF Allowed
<1>3. CASE UNCHANGED jobVars
  BY <1>3 DEF jobVars, Allowed, Given
<1> QED
  BY <1>1, <1>2, <1>3

LEMMA SettingStays == [JobNext]_jobVars => setting' = setting /\ spoilt \subseteq spoilt'
<1>1. ASSUME NEW c \in Caller, Begin(c) \/ LoadSteps(c) \/ WriteSteps(c)
      PROVE  setting' = setting /\ spoilt \subseteq spoilt'
  BY <1>1 DEF Begin, LoadSteps, ReadFile, ReadThrows, LoadJob, LoadEnds, WriteSteps, WriteEnds,
              WriteMixes, WriteFails, jobHistory
<1>2. ASSUME NEW w \in Worker, WorkSteps(w)
      PROVE  setting' = setting /\ spoilt \subseteq spoilt'
  BY <1>2 DEF WorkSteps, ReturnLapsed, Take, Ack, Nack, TakeNothing, RemoveEnds, jobHistory
<1>3. ASSUME NEW j \in Job, Enqueue(j) \/ Lapse(j)
      PROVE  setting' = setting /\ spoilt \subseteq spoilt'
  BY <1>3 DEF Enqueue, Lapse, jobHistory
<1>4. ASSUME NEW cut \in SUBSET Caller, Crash(cut)
      PROVE  setting' = setting /\ spoilt \subseteq spoilt'
  BY <1>4 DEF Crash
<1>5. CASE UNCHANGED jobVars
  BY <1>5 DEF jobVars
<1> QED
  BY <1>1, <1>2, <1>3, <1>4, <1>5, Zenon DEF JobNext

LEMMA StepAllowed == JobInv /\ OneJob /\ [JobNext]_jobVars => Allowed
<1> SUFFICES ASSUME JobInv, OneJob, [JobNext]_jobVars PROVE Allowed
  OBVIOUS
<1>1. ASSUME NEW w \in Worker, WorkSteps(w) PROVE Allowed
  BY <1>1, TakesAllowed, AnswersAllowed
<1> QED
  BY <1>1, LoadsAllowed, WritesAllowed, EnqueueAllowed, OutsideAllowed, Zenon DEF JobNext

LEMMA OneJobStarts == JobInit => OneJob
BY DEF JobInit, OneJob, Caller, Idle

LEMMA OneJobKeeps == JobInv /\ OneJob /\ [JobNext]_jobVars => OneJob'
<1> SUFFICES ASSUME JobInv, OneJob, [JobNext]_jobVars, NEW w \in Worker, call'[w].at = "working"
             PROVE  \E j \in Job : Of(w, j)'
  BY DEF OneJob
<1>1. call \in [Caller -> Calls] /\ Worker \subseteq Caller /\ Producer \in Caller
  BY DEF JobInv, JobTypeOK, Caller
<1>2. ASSUME call'[w].at = call[w].at, call'[w].job = call[w].job
      PROVE  \E j \in Job : Of(w, j)'
  BY <1>2 DEF OneJob, Of
<1>3. ASSUME NEW c \in Caller, Begin(c) \/ LoadSteps(c)
      PROVE  call'[w] = call[w]
  BY <1>1, <1>3, LoadsLeave DEF Leaves
<1>4. ASSUME NEW c \in Caller, WriteSteps(c)
      PROVE  \E j \in Job : Of(w, j)'
  <2>1. PICK j \in Job : AfterWrite(c, j)
    BY <1>4 DEF WriteSteps, WriteEnds, WriteMixes, WriteFails
  <2>2. CASE w = c
    <3>1. call'[w] = [Idle EXCEPT !.at = "working", !.job = {j}]
      BY <1>1, <1>4, <2>1, <2>2
      DEF AfterWrite, WriteSteps, WriteEnds, WriteMixes, WriteFails, Writing, Idle
    <3> QED
      BY <3>1 DEF Of, Idle
  <2>3. CASE w # c
    <3>1. call[w] \in Calls
      BY <1>1
    <3>2. \/ call'[w] = [call[w] EXCEPT !.mixed = TRUE]
          \/ call'[w] = call[w]
      BY <1>1, <2>1, <2>3 DEF AfterWrite
    <3>3. call'[w].at = call[w].at /\ call'[w].job = call[w].job
      BY <3>1, <3>2 DEF Calls
    <3> QED
      BY <1>2, <3>3
  <2> QED
    BY <2>2, <2>3
<1>5. ASSUME NEW j \in Job, Enqueue(j)
      PROVE  call'[w] = call[w]
  BY <1>1, <1>5, EnqueueLeaves DEF Leaves
<1>6. ASSUME NEW u \in Worker, WorkSteps(u)
      PROVE  call'[w] = call[w]
  BY <1>1, <1>6, WorkLeaves DEF Leaves
<1>7. ASSUME NEW cut \in SUBSET Caller, Crash(cut)
      PROVE  FALSE
  BY <1>1, <1>7 DEF Crash, Idle
<1>8. CASE UNCHANGED jobVars \/ \E j \in Job : Lapse(j)
  BY <1>2, <1>8 DEF Lapse, jobVars
<1> QED
  BY <1>2, <1>3, <1>4, <1>5, <1>6, <1>7, <1>8, Zenon DEF JobNext

(* DurableJobQueue keeps the promise of IQueue: every step of it is one of *)
(* the contract, or none.                                                  *)
THEOREM QueueKeepsItsPromise == JobSpec => PromiseKept
<1>1. JobSpec => JobInit /\ [][JobNext]_jobVars
  BY DEF JobSpec
<1>2. JobInv /\ JobInv' /\ OneJob /\ OneJob' /\ [JobNext]_jobVars
          => [Promise!ContractNext]_Promise!contractVars
  BY StepAllowed, SettingStays, StepIsPromised
<1> QED
  BY <1>1, <1>2, ContractStarts, JobInvariance, OneJobStarts, OneJobKeeps, PTL DEF PromiseKept, Promise!Contract

-----------------------------------------------------------------------------
(***************************************************************************)
(* The audit chain.                                                        *)
(***************************************************************************)

\* A number that was given to an append that was rejected.
Excused(n, ns, as) == \E e \in Event : <<n, e>> \in ns /\ as[e] = "rejected"

\* A record with number n and previous hash h may follow the record r.
Follows(r, n, h, ns, as) ==
    /\ r.sequence < n
    /\ (n = r.sequence + 1 /\ h = HashOf(r)) \/ Excused(n - 1, ns, as)

Consecutive(rs) ==
    /\ \A i \in 1..Len(rs) : rs[i].sequence = rs[1].sequence + i - 1
    /\ \A i \in 1..Len(rs) - 1 : rs[i + 1].prevHash = HashOf(rs[i])

ChainOK(rs, ns, as) ==
    \A i \in 1..Len(rs) - 1 :
        Follows(rs[i], rs[i + 1].sequence, rs[i + 1].prevHash, ns, as)

\* Who waits, or is in the batch, has no answer yet, and waits once.
PendingInv ==
    /\ \A i \in DOMAIN waiting : answer[waiting[i]] = "pending"
    /\ \A i, j \in DOMAIN waiting : i # j => waiting[i] # waiting[j]
    /\ \A i \in DOMAIN batch : answer[batch[i].event] = "pending"
    /\ \A i \in DOMAIN waiting, j \in DOMAIN batch : waiting[i] # batch[j].event

BatchInv ==
    /\ Consecutive(batch)
    /\ \A i \in DOMAIN batch : <<batch[i].sequence, batch[i].event>> \in numbered
    /\ storing = "nothing" <=> batch = <<>>
    /\ storing = "block" =>
          /\ Len(batch) <= Len(records)
          /\ \A i \in DOMAIN batch : records[Len(records) - Len(batch) + i] = batch[i]

\* The record that comes next may follow the last one stored: the first of the
\* batch that is to be stored, or the one the counters stand for.
NextFollows(n, h) ==
    records # <<>> => Follows(records[Len(records)], n, h, numbered, answer)

TieInv ==
    ~early =>
        /\ ChainOK(records, numbered, answer)
        /\ batch # <<>> => /\ boot = "ready"
                           /\ currentSequence = batch[Len(batch)].sequence
                           /\ lastHash = HashOf(batch[Len(batch)])
        /\ storing = "records" => NextFollows(batch[1].sequence, batch[1].prevHash)
        /\ (storing # "records" /\ boot # "cold") => NextFollows(currentSequence + 1, lastHash)

StoredInv ==
    \A e \in Event : answer[e] = "resolved" =>
        \E i \in DOMAIN records, k \in DOMAIN blocks :
            /\ records[i].event = e
            /\ records[i].sequence \in blocks[k].first..blocks[k].last

AuditInv == AuditTypeOK /\ PendingInv /\ BatchInv /\ TieInv /\ StoredInv

-----------------------------------------------------------------------------
\* More numbers, and more rejections, excuse more.
LEMMA FollowsMore ==
  ASSUME NEW ns, NEW ns2, ns \subseteq ns2, NEW as, NEW as2,
         \A e \in Event : as[e] = "rejected" => as2[e] = "rejected"
  PROVE  /\ \A r, n, h : Follows(r, n, h, ns, as) => Follows(r, n, h, ns2, as2)
         /\ \A rs : ChainOK(rs, ns, as) => ChainOK(rs, ns2, as2)
<1>1. \A n : Excused(n, ns, as) => Excused(n, ns2, as2)
  BY DEF Excused
<1>2. \A r, n, h : Follows(r, n, h, ns, as) => Follows(r, n, h, ns2, as2)
  BY <1>1 DEF Follows
<1> QED BY <1>2 DEF ChainOK

\* A hash stands for the records it was computed from.
LEMMA HashIsSequence ==
  ASSUME NEW r \in Record
  PROVE  HashOf(r) \in Seq(Nat \X Event)
<1>1. r.prevHash \in Seq(Nat \X Event) /\ <<r.sequence, r.event>> \in Nat \X Event
  BY DEF Record
<1> QED BY <1>1 DEF HashOf, ChainHash

\* Joining a sequence with one more element appends it.
LEMMA ConcatAppend ==
  ASSUME NEW S, NEW s \in Seq(S), NEW t \in Seq(S), NEW x \in S
  PROVE  s \o Append(t, x) = Append(s \o t, x)
<1>1. <<x>> \in Seq(S) /\ s \o t \in Seq(S)
  OBVIOUS
<1>2. Append(t, x) = t \o <<x>> /\ Append(s \o t, x) = (s \o t) \o <<x>>
  BY <1>1, AppendIsConcat
<1> QED BY <1>1, <1>2, ConcatAssociative

\* The records of a batch are numbered in a row and linked to each other.
LEMMA ChainedMeans ==
  ASSUME NEW es \in Seq(Event), currentSequence \in Nat, lastHash \in Seq(Nat \X Event)
  PROVE  /\ Chained(es) \in Seq(Record) /\ Len(Chained(es)) = Len(es)
         /\ \A i \in 1..Len(es) : /\ Chained(es)[i].sequence = currentSequence + i
                                  /\ Chained(es)[i].event = es[i]
         /\ Consecutive(Chained(es))
         /\ Len(es) > 0 => Chained(es)[1].prevHash = lastHash
<1> DEFINE Sums(i) == [j \in 1..i |-> <<currentSequence + j, es[j]>>]
           Hash(i) == lastHash \o Sums(i)
           rs == [i \in 1..Len(es) |-> [sequence |-> currentSequence + i, prevHash |-> Hash(i - 1),
                                        event |-> es[i]]]
<1>1. Chained(es) = rs
  BY DEF Chained
<1>2. Len(es) \in Nat /\ \A i \in 1..Len(es) : es[i] \in Event
  OBVIOUS
<1>3. ASSUME NEW i \in 0..Len(es)
      PROVE  Sums(i) \in Seq(Nat \X Event) /\ Len(Sums(i)) = i
  <2>1. i \in Nat /\ \A j \in 1..i : <<currentSequence + j, es[j]>> \in Nat \X Event
    BY <1>2
  <2>2. Sums(i) \in [1..i -> Nat \X Event]
    BY <2>1
  <2> HIDE DEF Sums
  <2> QED BY <2>1, <2>2
<1>4. \A i \in 0..Len(es) : Hash(i) \in Seq(Nat \X Event)
  <2> HIDE DEF Sums
  <2> QED BY <1>3
<1>5. \A i \in 1..Len(es) : rs[i] \in Record
  <2> TAKE i \in 1..Len(es)
  <2>1. i - 1 \in 0..Len(es) /\ currentSequence + i \in Nat \ {0}
    BY <1>2
  <2>2. Hash(i - 1) \in Seq(Nat \X Event)
    BY <1>4, <2>1
  <2> HIDE DEF Hash
  <2> QED BY <1>2, <2>1, <2>2 DEF Record
<1>6. rs \in Seq(Record) /\ Len(rs) = Len(es)
  <2>1. rs \in [1..Len(es) -> Record]
    BY <1>5
  <2> HIDE DEF rs
  <2> QED BY <1>2, <2>1, SMTT(60)
<1>7. \A i \in 1..Len(es) : /\ rs[i].sequence = currentSequence + i /\ rs[i].event = es[i]
                            /\ rs[i].prevHash = Hash(i - 1)
  BY <1>2
<1>8. ASSUME NEW i \in 1..Len(es)
      PROVE  Hash(i) = Append(Hash(i - 1), <<currentSequence + i, es[i]>>)
  <2>1. i \in 0..Len(es) /\ i - 1 \in 0..Len(es) /\ i \in Nat /\ i - 1 \in Nat
    BY <1>2
  <2>2. /\ Sums(i) \in Seq(Nat \X Event) /\ Len(Sums(i)) = i
        /\ Sums(i - 1) \in Seq(Nat \X Event) /\ Len(Sums(i - 1)) = i - 1
    BY <1>3, <2>1
  <2>3. <<currentSequence + i, es[i]>> \in Nat \X Event
    BY <1>2
  <2>4. Sums(i) = Append(Sums(i - 1), <<currentSequence + i, es[i]>>)
    <3>1. \A j \in 1..i - 1 : Sums(i)[j] = Sums(i - 1)[j]
      BY <2>1
    <3>2. Sums(i)[i] = <<currentSequence + i, es[i]>>
      BY <2>1
    <3> HIDE DEF Sums
    <3>3. \A j \in 1..i : Sums(i)[j] = Append(Sums(i - 1), <<currentSequence + i, es[i]>>)[j]
      BY <2>1, <2>2, <2>3, <3>1, <3>2, SMTT(30)
    <3>4. /\ Append(Sums(i - 1), <<currentSequence + i, es[i]>>) \in Seq(Nat \X Event)
          /\ Len(Append(Sums(i - 1), <<currentSequence + i, es[i]>>)) = i
      BY <2>1, <2>2, <2>3
    <3> QED BY <2>2, <3>3, <3>4, SeqEqual
  <2> HIDE DEF Sums
  <2>5. Hash(i) = lastHash \o Append(Sums(i - 1), <<currentSequence + i, es[i]>>)
    BY <2>4
  <2> QED BY <2>2, <2>3, <2>5, ConcatAppend, SMTT(30)
<1>9. ASSUME NEW i \in 1..Len(es) - 1 PROVE rs[i + 1].prevHash = HashOf(rs[i])
  <2>1. i \in 1..Len(es) /\ i + 1 \in 1..Len(es) /\ (i + 1) - 1 = i
    BY <1>2
  <2>2. HashOf(rs[i]) = Append(Hash(i - 1), <<currentSequence + i, es[i]>>)
    <3> HIDE DEF Hash, rs
    <3> QED BY <1>7, <2>1 DEF HashOf, ChainHash
  <2>3. rs[i + 1].prevHash = Hash(i)
    <3> HIDE DEF Hash, rs
    <3> QED BY <1>7, <2>1
  <2> QED BY <1>8, <2>1, <2>2, <2>3
<1>10. ASSUME Len(es) > 0 PROVE rs[1].prevHash = lastHash
  <2>1. 1 \in 1..Len(es) /\ 0 \in 0..Len(es) /\ 1 - 1 = 0
    BY <1>2, <1>10
  <2>2. Sums(0) = <<>>
    OBVIOUS
  <2>3. Hash(0) = lastHash
    BY <2>2
  <2> QED BY <1>7, <2>1, <2>3
<1>11. \A i \in 1..Len(rs) : rs[i].sequence = rs[1].sequence + i - 1
  <2> HIDE DEF rs
  <2> TAKE i \in 1..Len(rs)
  <2>1. i \in 1..Len(es) /\ 1 \in 1..Len(es)
    BY <1>2, <1>6
  <2>2. rs[i].sequence = currentSequence + i /\ rs[1].sequence = currentSequence + 1
    BY <1>7, <2>1
  <2> QED BY <1>2, <2>1, <2>2
<1> HIDE DEF rs
<1>12. Consecutive(rs)
  BY <1>6, <1>9, <1>11 DEF Consecutive
<1> QED BY <1>1, <1>6, <1>7, <1>10, <1>12

\* A flush of a queue that is not empty.
LEMMA FlushMeans ==
  ASSUME AuditTypeOK, NEW q \in Seq(Event), q # <<>>, Flush(q)
  PROVE  /\ batch' \in Seq(Record) /\ Len(batch') \in 1..Len(q)
         /\ \A i \in 1..Len(batch') : batch'[i].event = q[i]
         /\ waiting' \in Seq(Event) /\ Len(waiting') = Len(q) - Len(batch')
         /\ \A i \in 1..Len(waiting') : waiting'[i] = q[Len(batch') + i]
         /\ batch'[1].prevHash = lastHash /\ batch'[1].sequence = currentSequence + 1
         /\ Consecutive(batch') /\ storing' = "records"
         /\ currentSequence' = batch'[Len(batch')].sequence /\ currentSequence' \in Nat
         /\ lastHash' = HashOf(batch'[Len(batch')]) /\ lastHash' \in Seq(Nat \X Event)
         /\ currentBlockNumber' \in Nat
         /\ numbered \subseteq numbered' /\ numbered' \in SUBSET (Nat \X Event)
         /\ \A i \in 1..Len(batch') : <<batch'[i].sequence, batch'[i].event>> \in numbered'
         /\ early' = (early \/ boot # "ready")
<1> DEFINE n == Smaller(BatchSize, Len(q))
           es == SubSeq(q, 1, n)
           rs == Chained(es)
<1>1. Len(q) \in Nat \ {0} /\ BatchSize \in Nat \ {0}
  BY AuditAssumption
<1>2. n \in 1..Len(q)
  BY <1>1 DEF Smaller
<1>3. /\ waiting' = SubSeq(q, n + 1, Len(q)) /\ batch' = rs /\ storing' = "records"
      /\ currentSequence' = currentSequence + n /\ lastHash' = HashOf(rs[n])
      /\ currentBlockNumber' = currentBlockNumber + 1
      /\ numbered' = numbered \cup {<<rs[i].sequence, rs[i].event>> : i \in 1..n}
      /\ early' = (early \/ boot # "ready")
  BY DEF Flush
<1> HIDE DEF n
<1>4. /\ es \in Seq(Event) /\ Len(es) = n /\ \A i \in 1..n : es[i] = q[i]
  <2>1. \A i \in 1..n : q[i] \in Event
    BY <1>1, <1>2
  <2>2. /\ es \in Seq(Event) /\ Len(es) = n - 1 + 1
        /\ \A i \in 1..n - 1 + 1 : es[i] = q[1 + i - 1]
    BY <1>2, <2>1, SubSeqProperties
  <2> HIDE DEF es
  <2> QED BY <1>2, <2>2
<1>5. /\ waiting' \in Seq(Event) /\ Len(waiting') = Len(q) - n
      /\ \A i \in 1..Len(waiting') : waiting'[i] = q[n + i]
  <2>1. \A i \in n + 1..Len(q) : q[i] \in Event
    BY <1>1, <1>2
  <2>2. /\ waiting' \in Seq(Event)
        /\ Len(waiting') = IF n + 1 <= Len(q) THEN Len(q) - (n + 1) + 1 ELSE 0
        /\ \A i \in 1..Len(q) - (n + 1) + 1 : waiting'[i] = q[(n + 1) + i - 1]
    BY <1>1, <1>2, <1>3, <2>1, SubSeqProperties
  <2>3. Len(waiting') = Len(q) - n
    BY <1>1, <1>2, <2>2
  <2>4. \A i \in 1..Len(waiting') : (n + 1) + i - 1 = n + i
    BY <1>2, <2>3
  <2> QED BY <1>1, <1>2, <2>2, <2>3, <2>4
<1>6. currentSequence \in Nat /\ lastHash \in Seq(Nat \X Event)
  BY DEF AuditTypeOK
<1> HIDE DEF es
<1>7. /\ rs \in Seq(Record) /\ Len(rs) = n
      /\ \A i \in 1..n : rs[i].sequence = currentSequence + i /\ rs[i].event = q[i]
      /\ Consecutive(rs) /\ rs[1].prevHash = lastHash
  BY <1>2, <1>4, <1>6, ChainedMeans
<1> HIDE DEF rs
<1>8. rs[n] \in Record /\ 1 \in 1..n /\ n \in 1..n
  BY <1>2, <1>7
<1>9. HashOf(rs[n]) \in Seq(Nat \X Event)
  BY <1>8, HashIsSequence
<1>10. \A i \in 1..n : rs[i].sequence \in Nat /\ rs[i].event \in Event
  <2>1. \A i \in 1..n : rs[i] \in Record
    BY <1>7
  <2> QED BY <2>1 DEF Record
<1>11. numbered' \in SUBSET (Nat \X Event)
  BY <1>3, <1>10 DEF AuditTypeOK
<1>12. currentSequence' \in Nat /\ currentBlockNumber' \in Nat
  BY <1>2, <1>3 DEF AuditTypeOK
<1> QED
  BY <1>2, <1>3, <1>5, <1>7, <1>8, <1>9, <1>11, <1>12

\* A flush keeps what a batch and the counters have to do with what is stored,
\* provided the next record may follow it.
LEMMA FlushKeeps ==
  ASSUME AuditTypeOK, NEW q \in Seq(Event), Flush(q),
         boot' = boot, records' \in Seq(Record), answer' \in [Event -> Answers],
         \A i \in DOMAIN q : answer'[q[i]] = "pending",
         \A i, j \in DOMAIN q : i # j => q[i] # q[j],
         ~early => /\ ChainOK(records', numbered, answer')
                   /\ (boot # "cold" /\ records' # <<>>) =>
                         Follows(records'[Len(records')], currentSequence + 1, lastHash, numbered,
                                 answer')
  PROVE  /\ PendingInv' /\ BatchInv' /\ TieInv'
         /\ waiting' \in Seq(Event) /\ batch' \in Seq(Record)
         /\ storing' \in {"nothing", "records", "block"}
         /\ currentSequence' \in Nat /\ currentBlockNumber' \in Nat
         /\ lastHash' \in Seq(Nat \X Event)
         /\ numbered' \in SUBSET (Nat \X Event) /\ early' \in BOOLEAN
<1>1. CASE q = <<>>
  <2>1. /\ waiting' = <<>> /\ batch' = <<>> /\ storing' = "nothing"
        /\ UNCHANGED <<currentSequence, lastHash, currentBlockNumber, numbered, early>>
    BY <1>1 DEF Flush, counters
  <2>2. PendingInv' /\ BatchInv'
    BY <2>1 DEF PendingInv, BatchInv, Consecutive
  <2>3. TieInv'
    BY <2>1 DEF TieInv, NextFollows
  <2>4. waiting' \in Seq(Event) /\ batch' \in Seq(Record)
    BY <2>1
  <2> QED BY <2>1, <2>2, <2>3, <2>4 DEF AuditTypeOK
<1>2. CASE q # <<>>
  <2> DEFINE n == Len(batch')
  <2>1. /\ batch' \in Seq(Record) /\ n \in 1..Len(q)
        /\ \A i \in 1..n : batch'[i].event = q[i]
        /\ waiting' \in Seq(Event) /\ Len(waiting') = Len(q) - n
        /\ \A i \in 1..Len(waiting') : waiting'[i] = q[n + i]
        /\ batch'[1].prevHash = lastHash /\ batch'[1].sequence = currentSequence + 1
        /\ Consecutive(batch') /\ storing' = "records"
        /\ currentSequence' = batch'[n].sequence /\ currentSequence' \in Nat
        /\ lastHash' = HashOf(batch'[n]) /\ lastHash' \in Seq(Nat \X Event)
        /\ currentBlockNumber' \in Nat
        /\ numbered \subseteq numbered' /\ numbered' \in SUBSET (Nat \X Event)
        /\ \A i \in 1..n : <<batch'[i].sequence, batch'[i].event>> \in numbered'
        /\ early' = (early \/ boot # "ready")
    BY <1>2, FlushMeans
  <2>2. /\ DOMAIN batch' = 1..n /\ DOMAIN waiting' = 1..Len(waiting') /\ DOMAIN q = 1..Len(q)
        /\ Len(q) \in Nat /\ n \in Nat /\ batch' # <<>>
    BY <2>1
  <2> HIDE DEF n
  <2>3. \A i \in DOMAIN waiting' : n + i \in DOMAIN q /\ i \in Nat /\ waiting'[i] = q[n + i]
    <3> TAKE i \in DOMAIN waiting'
    <3>1. i \in 1..Len(q) - n /\ i \in 1..Len(waiting')
      BY <2>1, <2>2 DEF n
    <3>2. waiting'[i] = q[n + i]
      BY <2>1, <3>1 DEF n
    <3> QED BY <2>2, <3>1, <3>2
  <2>4. PendingInv'
    <3>1. \A i \in DOMAIN waiting' : answer'[waiting'[i]] = "pending"
      BY <2>3
    <3>2. \A i, j \in DOMAIN waiting' : i # j => waiting'[i] # waiting'[j]
      <4> TAKE i \in DOMAIN waiting', j \in DOMAIN waiting'
      <4>1. /\ n + i \in DOMAIN q /\ n + j \in DOMAIN q /\ (i # j => n + i # n + j)
            /\ waiting'[i] = q[n + i] /\ waiting'[j] = q[n + j]
        BY <2>2, <2>3
      <4> QED BY <4>1
    <3>3. \A i \in 1..n : i \in DOMAIN q
      BY <2>1, <2>2
    <3>4. \A i \in DOMAIN batch' : answer'[batch'[i].event] = "pending"
      BY <2>1, <2>2, <3>3, SMTT(30)
    <3>5. \A i \in DOMAIN waiting', j \in DOMAIN batch' : waiting'[i] # batch'[j].event
      <4> TAKE i \in DOMAIN waiting', j \in DOMAIN batch'
      <4>1. n + i \in DOMAIN q /\ j \in DOMAIN q /\ n + i # j
        BY <2>2, <2>3, <3>3
      <4> QED BY <2>1, <2>2, <4>1, SMTT(30)
    <3> QED BY <3>1, <3>2, <3>4, <3>5 DEF PendingInv
  <2>5. BatchInv'
    BY <2>1, <2>2 DEF BatchInv
  <2>6. TieInv'
    <3> SUFFICES ASSUME ~early'
                 PROVE  /\ ChainOK(records', numbered', answer') /\ boot' = "ready"
                        /\ (records' # <<>>) =>
                              Follows(records'[Len(records')], currentSequence + 1, lastHash,
                                      numbered', answer')
      BY <2>1, <2>2 DEF TieInv, NextFollows, n
    <3>1. ~early /\ boot = "ready"
      BY <2>1
    <3>2. /\ \A r, k, h : Follows(r, k, h, numbered, answer') => Follows(r, k, h, numbered', answer')
          /\ \A rs : ChainOK(rs, numbered, answer') => ChainOK(rs, numbered', answer')
      <4>1. numbered \subseteq numbered'
        BY <2>1
      <4>2. \A e \in Event : answer'[e] = "rejected" => answer'[e] = "rejected"
        OBVIOUS
      <4> QED BY <4>1, <4>2, FollowsMore
    <3> QED BY <3>1, <3>2
  <2> QED BY <2>1, <2>4, <2>5, <2>6 DEF AuditTypeOK
<1> QED BY <1>1, <1>2

-----------------------------------------------------------------------------
\* Storage keeps the first n records of the batch, or all: the chain goes on.
LEMMA PrefixStored ==
  ASSUME AuditTypeOK, BatchInv, TieInv, storing = "records",
         NEW n \in 0..Len(batch), NEW rs, rs = records \o SubSeq(batch, 1, n)
  PROVE  /\ rs \in Seq(Record) /\ Len(rs) = Len(records) + n /\ Len(records) \in Nat
         /\ \A i \in 1..Len(records) : rs[i] = records[i]
         /\ \A i \in 1..n : rs[Len(records) + i] = batch[i]
         /\ ~early => /\ ChainOK(rs, numbered, answer)
                      /\ rs # <<>> => rs[Len(rs)].sequence <= currentSequence
<1> DEFINE part == SubSeq(batch, 1, n)
           m == Len(records)
<1>1. /\ records \in Seq(Record) /\ batch \in Seq(Record) /\ m \in Nat /\ Len(batch) \in Nat
      /\ n \in Nat /\ n <= Len(batch) /\ batch # <<>>
      /\ DOMAIN batch = 1..Len(batch) /\ DOMAIN records = 1..m
  BY DEF AuditTypeOK, BatchInv
<1>2. /\ part \in Seq(Record) /\ Len(part) = n /\ \A i \in 1..n : part[i] = batch[i]
  <2>1. \A i \in 1..n : batch[i] \in Record
    BY <1>1
  <2>2. /\ part \in Seq(Record) /\ Len(part) = IF 1 <= n THEN n - 1 + 1 ELSE 0
        /\ \A i \in 1..n - 1 + 1 : part[i] = batch[1 + i - 1]
    BY <1>1, <2>1, SubSeqProperties
  <2> HIDE DEF part
  <2> QED BY <1>1, <2>2
<1> HIDE DEF part
<1>3. /\ rs \in Seq(Record) /\ Len(rs) = m + n
      /\ \A i \in 1..m + n : rs[i] = IF i <= m THEN records[i] ELSE part[i - m]
  BY <1>1, <1>2, ConcatProperties DEF part
<1>4. \A i \in 1..m : rs[i] = records[i]
  BY <1>1, <1>3
<1>5. \A i \in 1..n : rs[m + i] = batch[i]
  <2> TAKE i \in 1..n
  <2>1. m + i \in 1..m + n /\ ~(m + i <= m) /\ (m + i) - m = i
    BY <1>1
  <2> QED BY <1>2, <1>3, <2>1
<1>6. ASSUME ~early
      PROVE  /\ ChainOK(rs, numbered, answer)
             /\ rs # <<>> => rs[Len(rs)].sequence <= currentSequence
  <2>1. /\ ChainOK(records, numbered, answer)
        /\ currentSequence = batch[Len(batch)].sequence
        /\ records # <<>> =>
              Follows(records[m], batch[1].sequence, batch[1].prevHash, numbered, answer)
        /\ \A i \in 1..m - 1 :
              Follows(records[i], records[i + 1].sequence, records[i + 1].prevHash, numbered, answer)
    BY <1>1, <1>6 DEF TieInv, NextFollows, ChainOK
  <2> HIDE DEF m
  <2>2. /\ \A i \in 1..Len(batch) : batch[i].sequence = batch[1].sequence + i - 1
        /\ \A i \in 1..Len(batch) - 1 : batch[i + 1].prevHash = HashOf(batch[i])
        /\ \A i \in 1..Len(batch) : batch[i].sequence \in Nat
    <3>1. \A i \in 1..Len(batch) : batch[i] \in Record
      BY <1>1
    <3> QED BY <3>1 DEF BatchInv, Consecutive, Record
  <2>3. ASSUME NEW i \in 1..Len(rs) - 1
        PROVE  Follows(rs[i], rs[i + 1].sequence, rs[i + 1].prevHash, numbered, answer)
    <3>1. i \in Nat /\ i \in 1..m + n - 1
      BY <1>1, <1>3
    <3>2. CASE i < m
      <4>1. i \in 1..m /\ i + 1 \in 1..m /\ i \in 1..m - 1
        BY <1>1, <3>1, <3>2
      <4> QED BY <1>4, <2>1, <4>1
    <3>3. CASE i = m
      <4>1. /\ m \in 1..m /\ records # <<>> /\ 1 \in 1..n
        BY <1>1, <3>1, <3>3
      <4>2. rs[i] = records[m] /\ rs[i + 1] = batch[1]
        BY <1>4, <1>5, <3>3, <4>1
      <4> QED BY <2>1, <4>1, <4>2
    <3>4. CASE i > m
      <4>1. /\ i - m \in 1..n /\ (i - m) + 1 \in 1..n /\ m + (i - m) = i
            /\ m + ((i - m) + 1) = i + 1 /\ i - m \in 1..Len(batch) - 1
            /\ i - m \in 1..Len(batch) /\ (i - m) + 1 \in 1..Len(batch) /\ 1 \in 1..Len(batch)
        BY <1>1, <3>1, <3>4
      <4>2. rs[i] = batch[i - m] /\ rs[i + 1] = batch[(i - m) + 1]
        BY <1>5, <4>1
      <4>3. /\ batch[(i - m) + 1].prevHash = HashOf(batch[i - m])
            /\ batch[(i - m) + 1].sequence = batch[1].sequence + ((i - m) + 1) - 1
            /\ batch[i - m].sequence = batch[1].sequence + (i - m) - 1
            /\ batch[1].sequence \in Nat
        BY <2>2, <4>1
      <4>4. /\ batch[(i - m) + 1].sequence = batch[i - m].sequence + 1
            /\ batch[i - m].sequence < batch[(i - m) + 1].sequence
        BY <1>1, <3>1, <4>3
      <4> QED BY <4>2, <4>3, <4>4 DEF Follows
    <3>5. i < m \/ i = m \/ i > m
      BY <1>1, <3>1
    <3> QED BY <3>2, <3>3, <3>4, <3>5
  <2>4. ASSUME rs # <<>> PROVE rs[Len(rs)].sequence <= currentSequence
    <3>1. /\ batch[1].sequence \in Nat /\ 1 \in 1..Len(batch) /\ Len(batch) \in 1..Len(batch)
      BY <1>1, <2>2
    <3>2. /\ batch[Len(batch)].sequence = batch[1].sequence + Len(batch) - 1
      BY <2>2, <3>1
    <3>3. CASE n = 0
      <4>1. Len(rs) = m /\ records # <<>> /\ m \in 1..m
        BY <1>1, <1>3, <2>4, <3>3
      <4>2. rs[Len(rs)] = records[m]
        BY <1>4, <4>1
      <4>3. records[m] \in Record
        BY <1>1, <4>1
      <4>4. records[m].sequence < batch[1].sequence /\ records[m].sequence \in Nat
        BY <2>1, <4>1, <4>3 DEF Follows, Record
      <4>5. records[m].sequence <= batch[Len(batch)].sequence
        BY <1>1, <3>1, <3>2, <4>4
      <4> QED BY <2>1, <4>2, <4>5
    <3>4. CASE n # 0
      <4>1. n \in 1..n /\ n \in 1..Len(batch)
        BY <1>1, <3>4
      <4>2. rs[Len(rs)] = batch[n]
        BY <1>3, <1>5, <4>1
      <4>3. batch[n].sequence = batch[1].sequence + n - 1
        BY <2>2, <4>1
      <4>4. batch[n].sequence <= batch[Len(batch)].sequence
        BY <1>1, <3>1, <3>2, <4>3
      <4> QED BY <2>1, <4>2, <4>4
    <3> QED BY <3>3, <3>4
  <2> QED BY <2>3, <2>4 DEF ChainOK
<1> QED BY <1>1, <1>3, <1>4, <1>5, <1>6 DEF m

\* What has been resolved stays in storage.
LEMMA StoredStays ==
  ASSUME StoredInv, NEW rs, NEW bs, NEW as,
         \A i \in DOMAIN records : i \in DOMAIN rs /\ rs[i] = records[i],
         \A k \in DOMAIN blocks : k \in DOMAIN bs /\ bs[k] = blocks[k],
         NEW e \in Event, answer[e] = "resolved"
  PROVE  \E i \in DOMAIN rs, k \in DOMAIN bs :
             rs[i].event = e /\ rs[i].sequence \in bs[k].first..bs[k].last
<1>1. PICK i \in DOMAIN records, k \in DOMAIN blocks :
          records[i].event = e /\ records[i].sequence \in blocks[k].first..blocks[k].last
  BY DEF StoredInv
<1>2. /\ i \in DOMAIN rs /\ k \in DOMAIN bs
      /\ rs[i].event = e /\ rs[i].sequence \in bs[k].first..bs[k].last
  BY <1>1
<1> QED BY <1>2

\* The block of a batch, and the blocks with it.
LEMMA BlockFits ==
  ASSUME AuditTypeOK, batch # <<>>
  PROVE  /\ Block \in [number : Nat, first : Nat, last : Nat]
         /\ Append(blocks, Block) \in Seq([number : Nat, first : Nat, last : Nat])
         /\ Append(blocks, Block)[Len(blocks) + 1] = Block
         /\ \A k \in DOMAIN blocks :
               k \in DOMAIN Append(blocks, Block) /\ Append(blocks, Block)[k] = blocks[k]
         /\ Len(blocks) + 1 \in DOMAIN Append(blocks, Block)
<1>1. Block \in [number : Nat, first : Nat, last : Nat]
  <2>1. batch \in Seq(Record) /\ 1 \in 1..Len(batch) /\ Len(batch) \in 1..Len(batch)
    BY DEF AuditTypeOK
  <2>2. batch[1] \in Record /\ batch[Len(batch)] \in Record
    BY <2>1
  <2>3. batch[1].sequence \in Nat /\ batch[Len(batch)].sequence \in Nat /\ currentBlockNumber \in Nat
    BY <2>2 DEF Record, AuditTypeOK
  <2> QED BY <2>3 DEF Block
<1>2. blocks \in Seq([number : Nat, first : Nat, last : Nat])
  BY DEF AuditTypeOK
<1> HIDE DEF Block
<1> QED BY <1>1, <1>2

\* Storage, whatever it kept when it failed.
LEMMA KeptMeans ==
  ASSUME AuditTypeOK, BatchInv, TieInv, Kept
  PROVE  /\ records' \in Seq(Record)
         /\ blocks' \in Seq([number : Nat, first : Nat, last : Nat])
         /\ \A i \in DOMAIN records : i \in DOMAIN records' /\ records'[i] = records[i]
         /\ \A k \in DOMAIN blocks : k \in DOMAIN blocks' /\ blocks'[k] = blocks[k]
         /\ ~early => ChainOK(records', numbered, answer)
         /\ (~early /\ storing = "records" /\ records' # <<>>) =>
               records'[Len(records')].sequence <= currentSequence
         /\ storing # "records" => records' = records
<1>1. CASE storing = "records"
  <2>1. PICK n \in 0..Len(batch) : records' = records \o SubSeq(batch, 1, n)
    BY <1>1 DEF Kept
  <2>2. /\ records' \in Seq(Record) /\ Len(records') = Len(records) + n /\ Len(records) \in Nat
        /\ \A i \in 1..Len(records) : records'[i] = records[i]
        /\ ~early => /\ ChainOK(records', numbered, answer)
                     /\ records' # <<>> => records'[Len(records')].sequence <= currentSequence
    BY <1>1, <2>1, PrefixStored
  <2>3. DOMAIN records = 1..Len(records) /\ DOMAIN records' = 1..Len(records')
    BY <2>2 DEF AuditTypeOK
  <2>4. \A i \in DOMAIN records : i \in DOMAIN records' /\ records'[i] = records[i]
    BY <2>2, <2>3
  <2>5. blocks' = blocks
    BY <1>1 DEF Kept
  <2> QED BY <1>1, <2>2, <2>4, <2>5 DEF AuditTypeOK
<1>2. CASE storing # "records"
  <2>1. records' = records
    BY <1>2 DEF Kept, AuditTypeOK
  <2>2. blocks' = blocks \/ (batch # <<>> /\ blocks' = Append(blocks, Block))
    BY <1>2 DEF Kept, AuditTypeOK, BatchInv
  <2>3. /\ blocks' \in Seq([number : Nat, first : Nat, last : Nat])
        /\ \A k \in DOMAIN blocks : k \in DOMAIN blocks' /\ blocks'[k] = blocks[k]
    BY <2>2, BlockFits DEF AuditTypeOK
  <2> QED BY <1>2, <2>1, <2>3 DEF AuditTypeOK, TieInv
<1> QED BY <1>1, <1>2

\* The events of the batch are events.
LEMMA BatchEvents ==
  ASSUME AuditTypeOK
  PROVE  \A i \in DOMAIN batch : batch[i].event \in Event /\ batch[i].sequence \in Nat
<1>1. batch \in Seq(Record) /\ DOMAIN batch = 1..Len(batch)
  BY DEF AuditTypeOK
<1>2. \A i \in DOMAIN batch : batch[i] \in Record
  BY <1>1
<1> QED BY <1>2 DEF Record

-----------------------------------------------------------------------------
\* An append takes the next number, or is rejected before it has one.
LEMMA AppendEventKeeps ==
  ASSUME AuditInv, NEW e \in Event, AppendEvent(e) PROVE AuditInv'
<1> USE DEF AuditInv
<1>1. /\ answer[e] = "unasked" /\ UNCHANGED <<records, blocks, boot, mishaps>>
      /\ waiting \in Seq(Event)
  BY DEF AppendEvent, AuditTypeOK
<1>2. ASSUME NEW to \in {"refused", "pending"}, answer' = [answer EXCEPT ![e] = to]
      PROVE  /\ answer' \in [Event -> Answers] /\ answer'[e] = to
             /\ \A x \in Event \ {e} : answer'[x] = answer[x]
             /\ \A r, n, h : Follows(r, n, h, numbered, answer) => Follows(r, n, h, numbered, answer')
             /\ \A rs : ChainOK(rs, numbered, answer) => ChainOK(rs, numbered, answer')
             /\ \A x \in Event : answer[x] = "pending" => answer'[x] = "pending"
             /\ StoredInv'
  <2>1. /\ answer' \in [Event -> Answers] /\ answer'[e] = to
        /\ \A x \in Event \ {e} : answer'[x] = answer[x]
    BY <1>2 DEF AuditTypeOK, Answers
  <2>2. \A x \in Event : answer[x] = "rejected" => answer'[x] = "rejected"
    BY <1>1, <2>1
  <2>3. numbered \subseteq numbered
    OBVIOUS
  <2>4. StoredInv'
    BY <1>1, <1>2, <2>1 DEF StoredInv
  <2> QED BY <1>1, <2>1, <2>2, <2>3, <2>4, FollowsMore
<1>3. CASE Len(waiting) >= MaxQueueSize
  <2>1. /\ answer' = [answer EXCEPT ![e] = "refused"]
        /\ UNCHANGED <<waiting, batch, storing, currentSequence, lastHash, currentBlockNumber,
                       numbered, early>>
    BY <1>3 DEF AppendEvent, counters
  <2>2. AuditTypeOK'
    BY <1>1, <1>2, <2>1 DEF AuditTypeOK
  <2>3. \A i \in DOMAIN waiting : waiting[i] \in Event
    BY <1>1
  <2>4. \A i \in DOMAIN batch : batch[i].event \in Event
    BY BatchEvents
  <2>5. PendingInv'
    BY <1>2, <2>1, <2>3, <2>4 DEF PendingInv
  <2>6. BatchInv'
    BY <1>1, <2>1 DEF BatchInv
  <2>7. TieInv'
    BY <1>1, <1>2, <2>1 DEF TieInv, NextFollows
  <2> QED BY <1>2, <2>1, <2>2, <2>5, <2>6, <2>7
<1>4. CASE Len(waiting) < MaxQueueSize
  <2> DEFINE q == Append(waiting, e)
  <2>1. /\ answer' = [answer EXCEPT ![e] = "pending"]
        /\ IF isFlushing
           THEN /\ waiting' = q
                /\ UNCHANGED <<batch, storing, currentSequence, lastHash, currentBlockNumber,
                               numbered, early>>
           ELSE Flush(q)
    <3>1. ~(Len(waiting) >= MaxQueueSize)
      BY <1>1, <1>4, AuditAssumption
    <3> QED BY <3>1 DEF AppendEvent, counters
  <2>2. /\ Len(waiting) \in Nat /\ DOMAIN waiting = 1..Len(waiting)
        /\ \A i \in DOMAIN waiting : waiting[i] \in Event
        /\ q \in Seq(Event) /\ DOMAIN q = 1..Len(waiting) + 1 /\ q[Len(waiting) + 1] = e
        /\ \A i \in 1..Len(waiting) : q[i] = waiting[i]
    BY <1>1
  <2>3. \A i \in DOMAIN waiting : waiting[i] # e
    BY <1>1 DEF PendingInv
  <2>4. \A i \in DOMAIN batch : batch[i].event # e /\ batch[i].event \in Event
    BY <1>1, BatchEvents DEF PendingInv
  <2> HIDE DEF q
  <2>5. \A i \in DOMAIN q : answer'[q[i]] = "pending"
    <3> TAKE i \in DOMAIN q
    <3>1. CASE i \in 1..Len(waiting)
      BY <1>2, <2>1, <2>2, <3>1 DEF PendingInv
    <3>2. CASE i \notin 1..Len(waiting)
      <4>1. i = Len(waiting) + 1
        BY <2>2, <3>2
      <4> QED BY <1>2, <2>1, <2>2, <4>1
    <3> QED BY <3>1, <3>2
  <2>6. \A i, j \in DOMAIN q : i # j => q[i] # q[j]
    <3>1. \A i \in DOMAIN q : i \in 1..Len(waiting) \/ i = Len(waiting) + 1
      BY <2>2
    <3>2. \A i, j \in 1..Len(waiting) : i # j => q[i] # q[j]
      BY <2>2 DEF PendingInv
    <3>3. \A i \in 1..Len(waiting) : q[i] # e
      BY <2>2, <2>3
    <3> QED BY <2>2, <3>1, <3>2, <3>3
  <2>7. CASE isFlushing
    <3>1. /\ waiting' = q
          /\ UNCHANGED <<batch, storing, currentSequence, lastHash, currentBlockNumber,
                         numbered, early>>
      BY <2>1, <2>7
    <3>2. AuditTypeOK'
      BY <1>1, <1>2, <2>1, <2>2, <3>1 DEF AuditTypeOK
    <3>3. PendingInv'
      <4>1. \A i \in DOMAIN batch : answer'[batch[i].event] = "pending"
        BY <1>2, <2>1, <2>4 DEF PendingInv
      <4>2. \A i \in DOMAIN q, j \in DOMAIN batch : q[i] # batch[j].event
        <5> TAKE i \in DOMAIN q, j \in DOMAIN batch
        <5>1. CASE i \in 1..Len(waiting)
          BY <2>2, <5>1 DEF PendingInv
        <5>2. CASE i \notin 1..Len(waiting)
          <6>1. i = Len(waiting) + 1
            BY <2>2, <5>2
          <6> QED BY <2>2, <2>4, <6>1
        <5> QED BY <5>1, <5>2
      <4> QED BY <2>5, <2>6, <3>1, <4>1, <4>2 DEF PendingInv
    <3>4. BatchInv'
      BY <1>1, <3>1 DEF BatchInv
    <3>5. TieInv'
      BY <1>1, <1>2, <2>1, <3>1 DEF TieInv, NextFollows
    <3> QED BY <1>2, <2>1, <3>2, <3>3, <3>4, <3>5
  <2>8. CASE ~isFlushing
    <3>1. Flush(q)
      BY <2>1, <2>8
    <3>2. batch = <<>> /\ storing = "nothing"
      BY <2>8 DEF isFlushing, BatchInv
    <3>3. ~early => /\ ChainOK(records, numbered, answer)
                    /\ (boot # "cold" /\ records # <<>>) =>
                          Follows(records[Len(records)], currentSequence + 1, lastHash, numbered,
                                  answer)
      BY <3>2 DEF TieInv, NextFollows
    <3>4. ~early => /\ ChainOK(records', numbered, answer')
                    /\ (boot # "cold" /\ records' # <<>>) =>
                          Follows(records'[Len(records')], currentSequence + 1, lastHash, numbered,
                                  answer')
      BY <1>1, <1>2, <2>1, <3>3
    <3>5. boot' = boot /\ records' \in Seq(Record) /\ answer' \in [Event -> Answers]
      BY <1>1, <1>2, <2>1 DEF AuditTypeOK
    <3>6. /\ PendingInv' /\ BatchInv' /\ TieInv'
          /\ waiting' \in Seq(Event) /\ batch' \in Seq(Record)
          /\ storing' \in {"nothing", "records", "block"}
          /\ currentSequence' \in Nat /\ currentBlockNumber' \in Nat
          /\ lastHash' \in Seq(Nat \X Event)
          /\ numbered' \in SUBSET (Nat \X Event) /\ early' \in BOOLEAN
      BY <2>2, <2>5, <2>6, <3>1, <3>4, <3>5, FlushKeeps
    <3>7. AuditTypeOK'
      BY <1>1, <3>5, <3>6 DEF AuditTypeOK
    <3> QED BY <1>2, <2>1, <3>6, <3>7
  <2> QED BY <2>7, <2>8
<1>5. Len(waiting) >= MaxQueueSize \/ Len(waiting) < MaxQueueSize
  BY <1>1, AuditAssumption
<1> QED BY <1>3, <1>4, <1>5

\* The records of the batch are in storage, their block is not yet.
LEMMA RecordsStoredKeeps == ASSUME AuditInv, RecordsStored PROVE AuditInv'
<1> USE DEF AuditInv
<1> DEFINE m == Len(records)
           n == Len(batch)
<1>1. /\ storing = "records" /\ records' = records \o batch /\ storing' = "block"
      /\ UNCHANGED <<waiting, batch, currentSequence, lastHash, currentBlockNumber, blocks, boot,
                     answer, numbered, early, mishaps>>
  BY DEF RecordsStored, counters
<1>2. batch \in Seq(Record) /\ n \in Nat \ {0} /\ batch # <<>> /\ DOMAIN batch = 1..n
      /\ records \in Seq(Record) /\ DOMAIN records = 1..m
  BY <1>1 DEF AuditTypeOK, BatchInv
<1>3. n \in 0..n /\ SubSeq(batch, 1, n) = batch
  BY <1>2, SubSeqFull
<1>4. /\ records' \in Seq(Record) /\ Len(records') = m + n /\ m \in Nat
      /\ \A i \in 1..m : records'[i] = records[i]
      /\ \A i \in 1..n : records'[m + i] = batch[i]
      /\ ~early => ChainOK(records', numbered, answer)
  BY <1>1, <1>3, PrefixStored
<1> HIDE DEF m, n
<1>5. DOMAIN records' = 1..m + n
  BY <1>4
<1>6. AuditTypeOK'
  BY <1>1, <1>4 DEF AuditTypeOK
<1>7. PendingInv'
  BY <1>1 DEF PendingInv
<1>8. BatchInv'
  <2>1. /\ n <= m + n /\ (m + n) - n = m
    BY <1>2, <1>4
  <2> QED BY <1>1, <1>2, <1>4, <2>1 DEF BatchInv, n
<1>9. TieInv'
  <2> SUFFICES ASSUME ~early
               PROVE  /\ ChainOK(records', numbered, answer) /\ boot = "ready"
                      /\ currentSequence = batch[n].sequence /\ lastHash = HashOf(batch[n])
                      /\ Follows(records'[m + n], currentSequence + 1, lastHash, numbered, answer)
    BY <1>1, <1>2, <1>4 DEF TieInv, NextFollows, n
  <2>1. /\ boot = "ready" /\ currentSequence = batch[n].sequence /\ lastHash = HashOf(batch[n])
    BY <1>2 DEF TieInv, n
  <2>2. n \in 1..n /\ records'[m + n] = batch[n]
    BY <1>2, <1>4
  <2>3. currentSequence \in Nat
    BY DEF AuditTypeOK
  <2> QED BY <1>4, <2>1, <2>2, <2>3 DEF Follows
<1>10. StoredInv'
  <2>2. DOMAIN records = 1..m /\ DOMAIN records' = 1..m + n /\ n \in Nat /\ m \in Nat
    BY <1>2, <1>4, <1>5
  <2>1. \A i \in DOMAIN records : i \in DOMAIN records' /\ records'[i] = records[i]
    <3> TAKE i \in DOMAIN records
    <3>1. i \in 1..m /\ i \in 1..m + n
      BY <2>2
    <3> QED BY <1>4, <2>2, <3>1
  <2>3. UNCHANGED <<blocks, answer>> /\ StoredInv
    BY <1>1
  <2>4. ASSUME NEW e \in Event, answer[e] = "resolved"
        PROVE  \E i \in DOMAIN records', k \in DOMAIN blocks :
                  records'[i].event = e /\ records'[i].sequence \in blocks[k].first..blocks[k].last
    BY <2>1, <2>3, <2>4, StoredStays
  <2> QED BY <2>3, <2>4 DEF StoredInv
<1> QED BY <1>6, <1>7, <1>8, <1>9, <1>10

\* The events of the batch are answered, and nobody else.
LEMMA EndsMeans ==
  ASSUME AuditInv, NEW how \in {"resolved", "rejected"},
         answer' = [e \in Event |-> IF e \in Events(batch) THEN how ELSE answer[e]]
  PROVE  /\ answer' \in [Event -> Answers]
         /\ \A i \in DOMAIN batch : batch[i].event \in Event /\ answer'[batch[i].event] = how
         /\ \A e \in Event : answer[e] = "rejected" => answer'[e] = "rejected"
         /\ \A e \in Event : answer'[e] = "resolved" =>
               answer[e] = "resolved" \/ (how = "resolved" /\ e \in Events(batch))
         /\ \A i \in DOMAIN waiting : answer'[waiting[i]] = "pending"
         /\ \A r, n, h : Follows(r, n, h, numbered, answer) => Follows(r, n, h, numbered, answer')
         /\ \A rs : ChainOK(rs, numbered, answer) => ChainOK(rs, numbered, answer')
<1> USE DEF AuditInv
<1>1. answer' \in [Event -> Answers]
  BY DEF AuditTypeOK, Answers
<1>2. \A i \in DOMAIN batch : batch[i].event \in Event /\ batch[i].event \in Events(batch)
  BY BatchEvents DEF Events
<1>3. \A e \in Events(batch) : answer[e] = "pending"
  BY DEF PendingInv, Events
<1>4. \A i \in DOMAIN waiting : waiting[i] \in Event /\ waiting[i] \notin Events(batch)
  <2>1. \A i \in DOMAIN waiting : waiting[i] \in Event
    BY DEF AuditTypeOK
  <2> QED BY <2>1 DEF PendingInv, Events
<1>5. \A e \in Event : answer[e] = "rejected" => answer'[e] = "rejected"
  BY <1>3
<1>6. /\ \A r, n, h : Follows(r, n, h, numbered, answer) => Follows(r, n, h, numbered, answer')
      /\ \A rs : ChainOK(rs, numbered, answer) => ChainOK(rs, numbered, answer')
  <2>1. numbered \subseteq numbered
    OBVIOUS
  <2> QED BY <1>5, <2>1, FollowsMore
<1>7. \A i \in DOMAIN waiting : answer'[waiting[i]] = "pending"
  BY <1>4 DEF PendingInv
<1> QED BY <1>1, <1>2, <1>5, <1>6, <1>7

\* A storage that answered that it has the block: the batch is resolved, and is
\* found in storage and in its block.
LEMMA BlockStoredKeeps == ASSUME AuditInv, BlockStored PROVE AuditInv'
<1> USE DEF AuditInv
<1>1. /\ storing = "block" /\ blocks' = Append(blocks, Block)
      /\ answer' = [e \in Event |-> IF e \in Events(batch) THEN "resolved" ELSE answer[e]]
      /\ Flush(waiting)
      /\ UNCHANGED <<records, boot, mishaps>>
  BY DEF BlockStored, FlushEnds
<1>2. batch # <<>>
  BY <1>1 DEF BatchInv
<1>3. /\ answer' \in [Event -> Answers]
      /\ \A e \in Event : answer'[e] = "resolved" =>
            answer[e] = "resolved" \/ e \in Events(batch)
      /\ \A i \in DOMAIN waiting : answer'[waiting[i]] = "pending"
      /\ \A r, n, h : Follows(r, n, h, numbered, answer) => Follows(r, n, h, numbered, answer')
      /\ \A rs : ChainOK(rs, numbered, answer) => ChainOK(rs, numbered, answer')
  BY <1>1, EndsMeans
<1>4. /\ Append(blocks, Block) \in Seq([number : Nat, first : Nat, last : Nat])
      /\ Append(blocks, Block)[Len(blocks) + 1] = Block
      /\ \A k \in DOMAIN blocks :
            k \in DOMAIN Append(blocks, Block) /\ Append(blocks, Block)[k] = blocks[k]
      /\ Len(blocks) + 1 \in DOMAIN Append(blocks, Block)
  BY <1>2, BlockFits
<1>5. /\ waiting \in Seq(Event) /\ records' \in Seq(Record) /\ boot' = boot
      /\ \A i, j \in DOMAIN waiting : i # j => waiting[i] # waiting[j]
  BY <1>1 DEF AuditTypeOK, PendingInv
<1>6. ~early => /\ ChainOK(records', numbered, answer')
                /\ (boot # "cold" /\ records' # <<>>) =>
                      Follows(records'[Len(records')], currentSequence + 1, lastHash, numbered,
                              answer')
  BY <1>1, <1>3 DEF TieInv, NextFollows
<1>7. /\ PendingInv' /\ BatchInv' /\ TieInv'
      /\ waiting' \in Seq(Event) /\ batch' \in Seq(Record)
      /\ storing' \in {"nothing", "records", "block"}
      /\ currentSequence' \in Nat /\ currentBlockNumber' \in Nat
      /\ lastHash' \in Seq(Nat \X Event)
      /\ numbered' \in SUBSET (Nat \X Event) /\ early' \in BOOLEAN
  BY <1>1, <1>3, <1>5, <1>6, FlushKeeps
<1>8. AuditTypeOK'
  BY <1>1, <1>3, <1>4, <1>5, <1>7 DEF AuditTypeOK
<1>9. ASSUME NEW e \in Event, answer'[e] = "resolved"
      PROVE  \E i \in DOMAIN records', k \in DOMAIN blocks' :
                 /\ records'[i].event = e
                 /\ records'[i].sequence \in blocks'[k].first..blocks'[k].last
  <2>1. CASE answer[e] = "resolved"
    <3>1. \A i \in DOMAIN records : i \in DOMAIN records' /\ records'[i] = records[i]
      BY <1>1
    <3>2. \A k \in DOMAIN blocks : k \in DOMAIN blocks' /\ blocks'[k] = blocks[k]
      BY <1>1, <1>4
    <3> QED BY <2>1, <3>1, <3>2, StoredStays
  <2>2. CASE e \in Events(batch)
    <3>1. PICK i \in DOMAIN batch : batch[i].event = e
      BY <2>2 DEF Events
    <3> DEFINE j == Len(records) - Len(batch) + i
    <3>2. /\ Len(batch) <= Len(records) /\ records[j] = batch[i]
          /\ Consecutive(batch)
      BY <1>1 DEF BatchInv
    <3>3. /\ Len(records) \in Nat /\ Len(batch) \in Nat \ {0} /\ i \in 1..Len(batch)
          /\ DOMAIN records = 1..Len(records)
      BY <1>2 DEF AuditTypeOK
    <3>4. j \in DOMAIN records
      BY <3>2, <3>3
    <3>5. /\ 1 \in DOMAIN batch /\ Len(batch) \in DOMAIN batch /\ Len(batch) \in 1..Len(batch)
          /\ DOMAIN batch = 1..Len(batch)
      BY <3>3 DEF AuditTypeOK
    <3>6. /\ batch[1].sequence \in Nat
          /\ batch[i].sequence = batch[1].sequence + i - 1
          /\ batch[Len(batch)].sequence = batch[1].sequence + Len(batch) - 1
      BY <3>2, <3>3, <3>5, BatchEvents DEF Consecutive
    <3>7. batch[i].sequence \in batch[1].sequence..batch[Len(batch)].sequence
      BY <3>3, <3>6
    <3>8. /\ Len(blocks) + 1 \in DOMAIN blocks'
          /\ blocks'[Len(blocks) + 1].first = batch[1].sequence
          /\ blocks'[Len(blocks) + 1].last = batch[Len(batch)].sequence
      BY <1>1, <1>4 DEF Block
    <3> HIDE DEF j
    <3>9. records'[j].event = e /\ records'[j].sequence = batch[i].sequence
      BY <1>1, <3>1, <3>2
    <3>10. j \in DOMAIN records'
      BY <1>1, <3>4
    <3> QED BY <3>7, <3>8, <3>9, <3>10
  <2> QED BY <1>3, <1>9, <2>1, <2>2
<1>10. StoredInv'
  BY <1>9 DEF StoredInv
<1> QED BY <1>7, <1>8, <1>10

\* A storage that failed: the batch is rejected, and the number the next record
\* follows is excused.
LEMMA StorageFailsKeeps == ASSUME AuditInv, StorageFails PROVE AuditInv'
<1> USE DEF AuditInv
<1>1. /\ batch # <<>> /\ mishaps < MaxStorageFaults /\ mishaps' = mishaps + 1 /\ Kept
      /\ answer' = [e \in Event |-> IF e \in Events(batch) THEN "rejected" ELSE answer[e]]
      /\ Flush(waiting)
      /\ boot' = boot
  BY DEF StorageFails, FlushEnds, isFlushing, Mishap
<1>2. /\ answer' \in [Event -> Answers]
      /\ \A i \in DOMAIN batch : batch[i].event \in Event /\ answer'[batch[i].event] = "rejected"
      /\ \A e \in Event : answer'[e] = "resolved" => answer[e] = "resolved"
      /\ \A i \in DOMAIN waiting : answer'[waiting[i]] = "pending"
      /\ \A r, n, h : Follows(r, n, h, numbered, answer) => Follows(r, n, h, numbered, answer')
      /\ \A rs : ChainOK(rs, numbered, answer) => ChainOK(rs, numbered, answer')
  BY <1>1, EndsMeans
<1>3. /\ records' \in Seq(Record)
      /\ blocks' \in Seq([number : Nat, first : Nat, last : Nat])
      /\ \A i \in DOMAIN records : i \in DOMAIN records' /\ records'[i] = records[i]
      /\ \A k \in DOMAIN blocks : k \in DOMAIN blocks' /\ blocks'[k] = blocks[k]
      /\ ~early => ChainOK(records', numbered, answer)
      /\ (~early /\ storing = "records" /\ records' # <<>>) =>
            records'[Len(records')].sequence <= currentSequence
      /\ storing # "records" => records' = records
  BY <1>1, KeptMeans
<1>4. ASSUME ~early, boot # "cold", records' # <<>>
      PROVE  Follows(records'[Len(records')], currentSequence + 1, lastHash, numbered, answer')
  <2>1. CASE storing = "records"
    <3>1. /\ Len(batch) \in DOMAIN batch /\ batch[Len(batch)].sequence = currentSequence
      BY <1>1, <1>4 DEF TieInv, AuditTypeOK
    <3>2. /\ batch[Len(batch)].event \in Event
          /\ <<batch[Len(batch)].sequence, batch[Len(batch)].event>> \in numbered
          /\ answer'[batch[Len(batch)].event] = "rejected"
      BY <1>2, <3>1 DEF BatchInv
    <3>3. Excused(currentSequence, numbered, answer')
      BY <3>1, <3>2 DEF Excused
    <3>4. records'[Len(records')] \in Record /\ currentSequence \in Nat
      BY <1>3, <1>4 DEF AuditTypeOK
    <3>5. records'[Len(records')].sequence \in Nat
      BY <3>4 DEF Record
    <3>6. /\ records'[Len(records')].sequence < currentSequence + 1
          /\ (currentSequence + 1) - 1 = currentSequence
      BY <1>3, <1>4, <2>1, <3>4, <3>5
    <3> QED BY <3>3, <3>6 DEF Follows
  <2>2. CASE storing # "records"
    <3>1. records' = records
      BY <1>3, <2>2
    <3>2. Follows(records[Len(records)], currentSequence + 1, lastHash, numbered, answer)
      BY <1>4, <2>2, <3>1 DEF TieInv, NextFollows
    <3> QED BY <1>2, <3>1, <3>2
  <2> QED BY <2>1, <2>2
<1>5. /\ waiting \in Seq(Event)
      /\ \A i, j \in DOMAIN waiting : i # j => waiting[i] # waiting[j]
  BY DEF AuditTypeOK, PendingInv
<1>6. ~early => /\ ChainOK(records', numbered, answer')
                /\ (boot # "cold" /\ records' # <<>>) =>
                      Follows(records'[Len(records')], currentSequence + 1, lastHash, numbered,
                              answer')
  BY <1>2, <1>3, <1>4
<1>7. /\ PendingInv' /\ BatchInv' /\ TieInv'
      /\ waiting' \in Seq(Event) /\ batch' \in Seq(Record)
      /\ storing' \in {"nothing", "records", "block"}
      /\ currentSequence' \in Nat /\ currentBlockNumber' \in Nat
      /\ lastHash' \in Seq(Nat \X Event)
      /\ numbered' \in SUBSET (Nat \X Event) /\ early' \in BOOLEAN
  BY <1>1, <1>2, <1>3, <1>5, <1>6, FlushKeeps
<1>8. AuditTypeOK'
  <2>1. mishaps' \in 0..MaxStorageFaults
    BY <1>1, AuditAssumption DEF AuditTypeOK
  <2> QED BY <1>1, <1>2, <1>3, <1>7, <2>1 DEF AuditTypeOK
<1>9. ASSUME NEW e \in Event, answer'[e] = "resolved"
      PROVE  \E i \in DOMAIN records', k \in DOMAIN blocks' :
                 /\ records'[i].event = e
                 /\ records'[i].sequence \in blocks'[k].first..blocks'[k].last
  <2>1. answer[e] = "resolved"
    BY <1>2, <1>3, <1>9
  <2> QED BY <1>2, <1>3, <2>1, StoredStays, SMTT(90)
<1>10. StoredInv'
  BY <1>9 DEF StoredInv
<1> QED BY <1>7, <1>8, <1>10

\* The process is gone with everything that waited; storage stays.
LEMMA RestartAuditKeeps == ASSUME AuditInv, RestartAudit PROVE AuditInv'
<1> USE DEF AuditInv
<1>1. /\ mishaps < MaxStorageFaults /\ mishaps' = mishaps + 1 /\ Kept
      /\ waiting' = <<>> /\ batch' = <<>> /\ storing' = "nothing"
      /\ currentSequence' = 0 /\ lastHash' = <<>> /\ currentBlockNumber' = 0
      /\ boot' = "cold"
      /\ answer' = [e \in Event |-> IF answer[e] = "pending" THEN "lost" ELSE answer[e]]
      /\ UNCHANGED <<numbered, early>>
  BY DEF RestartAudit, Mishap, GenesisHash
<1>2. /\ records' \in Seq(Record)
      /\ blocks' \in Seq([number : Nat, first : Nat, last : Nat])
      /\ \A i \in DOMAIN records : i \in DOMAIN records' /\ records'[i] = records[i]
      /\ \A k \in DOMAIN blocks : k \in DOMAIN blocks' /\ blocks'[k] = blocks[k]
      /\ ~early => ChainOK(records', numbered, answer)
  BY <1>1, KeptMeans
<1>3. /\ answer' \in [Event -> Answers]
      /\ \A e \in Event : answer'[e] = "resolved" => answer[e] = "resolved"
      /\ \A e \in Event : answer[e] = "rejected" => answer'[e] = "rejected"
  BY <1>1 DEF AuditTypeOK, Answers
<1>4. numbered \subseteq numbered' /\ numbered' \in SUBSET (Nat \X Event)
  BY <1>1 DEF AuditTypeOK
<1>5. ~early' => ChainOK(records', numbered', answer')
  BY <1>1, <1>2, <1>3, <1>4, FollowsMore
<1>6. AuditTypeOK'
  <2>1. mishaps' \in 0..MaxStorageFaults
    BY <1>1, AuditAssumption DEF AuditTypeOK
  <2>2. <<>> \in Seq(Event) /\ <<>> \in Seq(Record) /\ <<>> \in Seq(Nat \X Event)
    OBVIOUS
  <2> QED BY <1>1, <1>2, <1>3, <1>4, <2>1, <2>2 DEF AuditTypeOK
<1>7. PendingInv' /\ BatchInv'
  BY <1>1 DEF PendingInv, BatchInv, Consecutive
<1>8. TieInv'
  BY <1>1, <1>5 DEF TieInv, NextFollows
<1>9. ASSUME NEW e \in Event, answer'[e] = "resolved"
      PROVE  \E i \in DOMAIN records', k \in DOMAIN blocks' :
                 /\ records'[i].event = e
                 /\ records'[i].sequence \in blocks'[k].first..blocks'[k].last
  <2>1. answer[e] = "resolved"
    BY <1>3, <1>9
  <2>2. /\ \A i \in DOMAIN records : i \in DOMAIN records' /\ records'[i] = records[i]
        /\ \A k \in DOMAIN blocks : k \in DOMAIN blocks' /\ blocks'[k] = blocks[k]
    BY <1>2
  <2> QED BY <2>1, <2>2, StoredStays
<1>10. StoredInv'
  BY <1>9 DEF StoredInv
<1> QED BY <1>6, <1>7, <1>8, <1>10

\* The counters are read from the last record: whatever is numbered next may
\* follow it.
LEMMA InitializeRecordKeeps == ASSUME AuditInv, InitializeRecord PROVE AuditInv'
<1> USE DEF AuditInv
<1>1. /\ boot = "cold" /\ boot' = "record"
      /\ UNCHANGED <<waiting, batch, storing, currentBlockNumber, records, blocks, answer,
                     numbered, early, mishaps>>
  BY DEF InitializeRecord
<1>2. CASE records # <<>>
  <2> DEFINE r == records[Len(records)]
  <2>1. currentSequence' = r.sequence /\ lastHash' = HashOf(r)
    BY <1>2 DEF InitializeRecord
  <2>2. r \in Record
    BY <1>2 DEF AuditTypeOK
  <2> HIDE DEF r
  <2>3. r.sequence \in Nat /\ HashOf(r) \in Seq(Nat \X Event)
    BY <2>2, HashIsSequence DEF Record
  <2>4. Follows(r, currentSequence' + 1, lastHash', numbered, answer)
    BY <2>1, <2>3 DEF Follows
  <2>5. AuditTypeOK'
    BY <1>1, <2>1, <2>3 DEF AuditTypeOK
  <2>6. TieInv'
    BY <1>1, <2>4 DEF TieInv, NextFollows, BatchInv, r
  <2> QED BY <1>1, <2>5, <2>6 DEF PendingInv, BatchInv, StoredInv
<1>3. CASE records = <<>>
  <2>1. UNCHANGED <<currentSequence, lastHash>>
    BY <1>3 DEF InitializeRecord
  <2>2. AuditTypeOK'
    BY <1>1, <2>1 DEF AuditTypeOK
  <2>3. TieInv'
    BY <1>1, <1>3, <2>1 DEF TieInv, NextFollows, BatchInv
  <2> QED BY <1>1, <2>2, <2>3 DEF PendingInv, BatchInv, StoredInv
<1> QED BY <1>2, <1>3

\* The second half of initialize reads the last block.
LEMMA InitializeBlockKeeps == ASSUME AuditInv, InitializeBlock PROVE AuditInv'
<1> USE DEF AuditInv
<1>1. /\ boot = "record" /\ boot' = "ready"
      /\ currentBlockNumber' = IF blocks # <<>> THEN blocks[Len(blocks)].number
                                                ELSE currentBlockNumber
      /\ UNCHANGED <<waiting, batch, storing, currentSequence, lastHash, records, blocks,
                     answer, numbered, early, mishaps>>
  BY DEF InitializeBlock
<1>2. currentBlockNumber' \in Nat
  <2>1. blocks # <<>> => blocks[Len(blocks)] \in [number : Nat, first : Nat, last : Nat]
    <3>1. blocks \in Seq([number : Nat, first : Nat, last : Nat])
      BY DEF AuditTypeOK
    <3>2. ASSUME NEW S, NEW t \in Seq(S), t # <<>> PROVE t[Len(t)] \in S
      BY <3>2
    <3> QED BY <3>1, <3>2
  <2>2. blocks # <<>> => blocks[Len(blocks)].number \in Nat
    BY <2>1
  <2> QED BY <1>1, <2>2 DEF AuditTypeOK
<1>3. AuditTypeOK'
  BY <1>1, <1>2 DEF AuditTypeOK
<1>4. TieInv'
  BY <1>1 DEF TieInv, NextFollows
<1> QED BY <1>1, <1>3, <1>4 DEF PendingInv, BatchInv, StoredInv

LEMMA AuditInitHolds == AuditInit => AuditInv
<1> SUFFICES ASSUME AuditInit PROVE AuditInv
  OBVIOUS
<1>1. AuditTypeOK
  <2>1. /\ <<>> \in Seq(Event) /\ <<>> \in Seq(Record) /\ <<>> \in Seq(Nat \X Event)
        /\ <<>> \in Seq([number : Nat, first : Nat, last : Nat])
    OBVIOUS
  <2>2. 0 \in 0..MaxStorageFaults
    BY AuditAssumption
  <2> QED BY <2>1, <2>2 DEF AuditInit, AuditTypeOK, GenesisHash, Answers
<1>2. PendingInv /\ BatchInv /\ StoredInv
  BY DEF AuditInit, PendingInv, BatchInv, Consecutive, StoredInv
<1>3. TieInv
  BY DEF AuditInit, TieInv, NextFollows, ChainOK
<1> QED BY <1>1, <1>2, <1>3 DEF AuditInv

LEMMA AuditNextKeeps == AuditInv /\ [AuditNext]_auditVars => AuditInv'
<1> SUFFICES ASSUME AuditInv, [AuditNext]_auditVars PROVE AuditInv'
  OBVIOUS
<1>1. ASSUME NEW e \in Event, AppendEvent(e) PROVE AuditInv'
  BY <1>1, AppendEventKeeps
<1>2. CASE RecordsStored
  BY <1>2, RecordsStoredKeeps
<1>3. CASE BlockStored
  BY <1>3, BlockStoredKeeps
<1>4. CASE StorageFails
  BY <1>4, StorageFailsKeeps
<1>5. CASE InitializeRecord
  BY <1>5, InitializeRecordKeeps
<1>6. CASE InitializeBlock
  BY <1>6, InitializeBlockKeeps
<1>7. CASE RestartAudit
  BY <1>7, RestartAuditKeeps
<1>8. CASE UNCHANGED auditVars
  <2>1. UNCHANGED <<waiting, batch, storing, currentSequence, lastHash, currentBlockNumber,
                    records, blocks, boot, answer, numbered, early, mishaps>>
    BY <1>8 DEF auditVars, counters
  <2> QED
    BY <2>1 DEF AuditInv, AuditTypeOK, PendingInv, BatchInv, TieInv, NextFollows, StoredInv
<1> QED
  BY <1>1, <1>2, <1>3, <1>4, <1>5, <1>6, <1>7, <1>8 DEF AuditNext, AuditStep

\* What has been said of the audit writer holds in every state.
THEOREM AuditInvariant == AuditSpec => []AuditInv
  BY AuditInitHolds, AuditNextKeeps, PTL DEF AuditSpec

\* The audit writer's state, and what it stores, keep their types.
THEOREM AuditTypeCorrect == AuditSpec => []AuditTypeOK
<1>1. AuditInv => AuditTypeOK
  BY DEF AuditInv
<1> QED BY <1>1, AuditInvariant, PTL

\* The stored chain is broken only behind a number of a rejected append, no
\* number is stored twice, and what was resolved is in storage and in a block,
\* provided nothing is flushed before initialize is over.
THEOREM ChainAlwaysExplained == AuditSpec => []ChainExplained
<1>1. AuditInv => ChainExplained
  <2> SUFFICES ASSUME AuditInv, ~early PROVE ChainExplained
    BY DEF ChainExplained
  <2>1. ASSUME NEW i \in 2..Len(records)
        PROVE  /\ records[i - 1].sequence < records[i].sequence
               /\ i \in Broken => \E e \in Event :
                     <<records[i].sequence - 1, e>> \in numbered /\ answer[e] = "rejected"
    <3>1. Len(records) \in Nat
      BY DEF AuditInv, AuditTypeOK
    <3>2. i - 1 \in 1..Len(records) - 1 /\ (i - 1) + 1 = i
      BY <3>1
    <3>3. Follows(records[i - 1], records[i].sequence, records[i].prevHash, numbered, answer)
      BY <3>2 DEF AuditInv, TieInv, ChainOK
    <3> QED BY <3>3 DEF Follows, Excused, Broken
  <2>2. \A i \in Broken : i \in 2..Len(records)
    BY DEF Broken
  <2>3. \A e \in Event : answer[e] = "resolved" =>
            \E i \in DOMAIN records, k \in DOMAIN blocks :
                /\ records[i].event = e
                /\ records[i].sequence \in blocks[k].first..blocks[k].last
    BY DEF AuditInv, StoredInv
  <2> QED BY <2>1, <2>2, <2>3 DEF ChainExplained
<1> QED BY <1>1, AuditInvariant, PTL

-----------------------------------------------------------------------------
(***************************************************************************)
(* The agent registry.                                                     *)
(***************************************************************************)

Statuses == {"HEALTHY", "DEGRADED", "UNHEALTHY", "OFFLINE", "DRAINING"}
Trackers == [status : Statuses, fresh : BOOLEAN, active : Nat, total : Nat, failed : Nat,
             streak : Nat, latency : Nat, samples : Nat]
Entries == [what : {"start", "fail", "done", "drain"}, seconds : Nat]

RegistryTypes ==
    /\ plan \in Plans
    /\ catalog \in [AgentId -> Registration \cup {NoAgent}]
    /\ order \in Seq(AgentId)
    /\ tenantIndex \in [Tenants -> SUBSET AgentId]
    /\ tracker \in [AgentId -> Trackers] /\ log \in [AgentId -> Seq(Entries)]
    /\ moved \subseteq AgentId

\* The map of the registry has every registered id at one place.
OrderInv ==
    /\ \A i \in DOMAIN order : order[i] \in Registered
    /\ \A i, j \in DOMAIN order : order[i] = order[j] => i = j
    /\ \A a \in Registered : \E i \in DOMAIN order : order[i] = a

\* An id that no update has taken elsewhere is listed where it belongs, and
\* nowhere when it is not registered.
IndexInv ==
    \A a \in AgentId \ moved, t \in Tenants :
        a \in tenantIndex[t] <=> (a \in Registered /\ catalog[a].ownership.tenant = t)

\* What the records from the k-th on say, and what they all say.
Marked(l, k, S) == {i \in k..Len(l) : l[i].what \in S}
Closings == {"fail", "done"}
ActiveSince(l, k) == Cardinality(Marked(l, k, {"start"})) - Cardinality(Marked(l, k, Closings))
LastFailures(l) == {i \in Marked(l, 1, {"fail"}) : \A j \in Marked(l, 1, {"done"}) : j < i}
Spent(l) == UNION {{i} \X (1..l[i].seconds) : i \in Marked(l, 1, {"done"})}

\* The tracker h counts what the records l say.
Tracks(h, l) ==
    /\ h.status = "DRAINING" <=> Marked(l, 1, {"drain"}) # {}
    /\ h.total = Cardinality(Marked(l, 1, Closings))
    /\ h.failed = Cardinality(Marked(l, 1, {"fail"}))
    /\ h.samples = Cardinality(Marked(l, 1, {"done"}))
    /\ h.streak = Cardinality(LastFailures(l))
    /\ IsFiniteSet(Spent(l)) /\ h.latency = Cardinality(Spent(l))
    /\ \A k \in 1..Len(l) + 1 : ActiveSince(l, k) <= h.active
    /\ \E k \in 1..Len(l) + 1 : ActiveSince(l, k) = h.active

TrackerInv == \A a \in AgentId : Tracks(tracker[a], log[a])

RegistryInv == RegistryTypes /\ OrderInv /\ IndexInv /\ TrackerInv

-----------------------------------------------------------------------------
\* One record more.
LEMMA MarkedMore ==
  ASSUME NEW l \in Seq(Entries), NEW e \in Entries, NEW k \in 1..Len(l) + 1, NEW S
  PROVE  /\ IsFiniteSet(Marked(l, k, S)) /\ Cardinality(Marked(l, k, S)) \in Nat
         /\ Len(l) + 1 \notin Marked(l, k, S)
         /\ e.what \in S => /\ Marked(Append(l, e), k, S) = Marked(l, k, S) \cup {Len(l) + 1}
                            /\ Cardinality(Marked(Append(l, e), k, S))
                                  = Cardinality(Marked(l, k, S)) + 1
         /\ e.what \notin S => Marked(Append(l, e), k, S) = Marked(l, k, S)
         /\ Marked(Append(l, e), Len(l) + 2, S) = {}
<1>1. /\ Len(l) \in Nat /\ Len(Append(l, e)) = Len(l) + 1 /\ k \in Nat \ {0}
      /\ \A i \in 1..Len(l) : Append(l, e)[i] = l[i]
      /\ Append(l, e)[Len(l) + 1] = e
  OBVIOUS
<1>2. IsFiniteSet(k..Len(l)) /\ Marked(l, k, S) \subseteq k..Len(l)
  BY <1>1, FS_Interval DEF Marked
<1>3. IsFiniteSet(Marked(l, k, S)) /\ Cardinality(Marked(l, k, S)) \in Nat
  BY <1>2, FS_Subset, FS_CardinalityType
<1>4. Len(l) + 1 \notin Marked(l, k, S)
  BY <1>1, <1>2
<1>5. \A i : i \in k..Len(l) + 1 <=> (i \in k..Len(l) \/ i = Len(l) + 1)
  BY <1>1
<1>6. ASSUME e.what \in S
      PROVE  Marked(Append(l, e), k, S) = Marked(l, k, S) \cup {Len(l) + 1}
  <2>1. \A i \in k..Len(l) : Append(l, e)[i] = l[i]
    BY <1>1
  <2> QED BY <1>1, <1>5, <1>6, <2>1 DEF Marked
<1>7. ASSUME e.what \notin S
      PROVE  Marked(Append(l, e), k, S) = Marked(l, k, S)
  <2>1. \A i \in k..Len(l) : Append(l, e)[i] = l[i]
    BY <1>1
  <2> QED BY <1>1, <1>5, <1>7, <2>1 DEF Marked
<1>8. Marked(Append(l, e), Len(l) + 2, S) = {}
  BY <1>1 DEF Marked
<1>9. e.what \in S => Cardinality(Marked(Append(l, e), k, S)) = Cardinality(Marked(l, k, S)) + 1
  BY <1>3, <1>4, <1>6, FS_AddElement
<1> QED BY <1>3, <1>4, <1>6, <1>7, <1>8, <1>9

\* Of no records.
LEMMA NothingTracked == Tracks(NewTracker, <<>>) /\ NewTracker \in Trackers
<1>1. \A S : \A k \in 1..1 : Marked(<<>>, k, S) = {}
  BY DEF Marked
<1>2. Marked(<<>>, 1, Closings) = {} /\ \A S : Marked(<<>>, 1, S) = {}
  BY <1>1
<1>3. Spent(<<>>) = {} /\ LastFailures(<<>>) = {}
  BY <1>2 DEF Spent, LastFailures
<1>4. ActiveSince(<<>>, 1) = 0
  <2>1. /\ Cardinality(Marked(<<>>, 1, {"start"})) = 0
        /\ Cardinality(Marked(<<>>, 1, Closings)) = 0
    BY <1>2, FS_EmptySet, Zenon
  <2> QED BY <2>1 DEF ActiveSince
<1>5. Len(<<>>) + 1 = 1
  OBVIOUS
<1>6. /\ NewTracker.status = "HEALTHY" /\ NewTracker.active = 0 /\ NewTracker.total = 0
      /\ NewTracker.failed = 0 /\ NewTracker.streak = 0 /\ NewTracker.latency = 0
      /\ NewTracker.samples = 0
  BY DEF NewTracker
<1>7. Tracks(NewTracker, <<>>)
  <2>1. \A k \in 1..Len(<<>>) + 1 : k = 1
    BY <1>5
  <2>2. /\ Marked(<<>>, 1, {"drain"}) = {} /\ Marked(<<>>, 1, {"fail"}) = {}
        /\ Marked(<<>>, 1, {"done"}) = {}
    BY <1>2
  <2>3. IsFiniteSet({}) /\ Cardinality({}) = 0
    BY FS_EmptySet
  <2>4. /\ \A k \in 1..Len(<<>>) + 1 : ActiveSince(<<>>, k) <= NewTracker.active
        /\ \E k \in 1..Len(<<>>) + 1 : ActiveSince(<<>>, k) = NewTracker.active
    BY <1>4, <1>5, <1>6, <2>1
  <2> QED BY <1>2, <1>3, <1>6, <2>2, <2>3, <2>4 DEF Tracks
<1>8. NewTracker \in Trackers
  BY DEF NewTracker, Trackers, Statuses
<1> QED BY <1>7, <1>8

\* The sessions active: never below zero, one more or one less.
LEMMA ActiveMore ==
  ASSUME NEW l \in Seq(Entries), NEW e \in Entries, NEW n \in Nat, NEW m,
         m = IF e.what = "start" THEN n + 1 ELSE IF e.what \in Closings THEN Less(n) ELSE n,
         \A k \in 1..Len(l) + 1 : ActiveSince(l, k) <= n,
         \E k \in 1..Len(l) + 1 : ActiveSince(l, k) = n
  PROVE  /\ \A k \in 1..Len(Append(l, e)) + 1 : ActiveSince(Append(l, e), k) <= m
         /\ \E k \in 1..Len(Append(l, e)) + 1 : ActiveSince(Append(l, e), k) = m
<1> DEFINE d == IF e.what = "start" THEN 1 ELSE IF e.what \in Closings THEN 0 - 1 ELSE 0
<1>1. Len(l) \in Nat /\ Len(Append(l, e)) = Len(l) + 1
  OBVIOUS
<1>2. \A k \in 1..Len(l) + 1 : /\ ActiveSince(l, k) \in Int
                               /\ ActiveSince(Append(l, e), k) = ActiveSince(l, k) + d
  <2> TAKE k \in 1..Len(l) + 1
  <2> DEFINE up == Cardinality(Marked(l, k, {"start"}))
             down == Cardinality(Marked(l, k, Closings))
             up2 == Cardinality(Marked(Append(l, e), k, {"start"}))
             down2 == Cardinality(Marked(Append(l, e), k, Closings))
  <2>4. /\ up \in Nat /\ (e.what \in {"start"} => up2 = up + 1)
        /\ (e.what \notin {"start"} => up2 = up)
    BY MarkedMore
  <2>5. /\ down \in Nat /\ (e.what \in Closings => down2 = down + 1)
        /\ (e.what \notin Closings => down2 = down)
    BY MarkedMore
  <2>6. ActiveSince(l, k) = up - down /\ ActiveSince(Append(l, e), k) = up2 - down2
    BY DEF ActiveSince
  <2> HIDE DEF up, down, up2, down2
  <2>1. CASE e.what = "start"
    <3>1. e.what \in {"start"} /\ e.what \notin Closings
      BY <2>1 DEF Closings
    <3> QED BY <2>1, <2>4, <2>5, <2>6, <3>1
  <2>2. CASE e.what \in Closings
    <3>1. e.what \notin {"start"} /\ e.what # "start"
      BY <2>2 DEF Closings
    <3> QED BY <2>2, <2>4, <2>5, <2>6, <3>1
  <2>3. CASE e.what # "start" /\ e.what \notin Closings
    BY <2>3, <2>4, <2>5, <2>6
  <2> QED BY <2>1, <2>2, <2>3
<1>3. ActiveSince(Append(l, e), Len(l) + 2) = 0
  <2>1. 1 \in 1..Len(l) + 1
    BY <1>1
  <2>2. /\ Marked(Append(l, e), Len(l) + 2, {"start"}) = {}
        /\ Marked(Append(l, e), Len(l) + 2, Closings) = {}
    BY <2>1, MarkedMore
  <2>3. /\ Cardinality(Marked(Append(l, e), Len(l) + 2, {"start"})) = 0
        /\ Cardinality(Marked(Append(l, e), Len(l) + 2, Closings)) = 0
    BY <2>2, FS_EmptySet, Zenon
  <2> QED BY <2>3 DEF ActiveSince
<1>4. m \in Nat /\ d \in Int /\ (m = n + d \/ (m = 0 /\ n = 0 /\ d = 0 - 1))
  BY DEF Less, Closings
<1> HIDE DEF d
<1>5. ASSUME NEW k \in 1..Len(l) + 2 PROVE ActiveSince(Append(l, e), k) <= m
  <2>1. CASE k = Len(l) + 2
    BY <1>3, <1>4, <2>1
  <2>2. CASE k # Len(l) + 2
    <3>1. k \in 1..Len(l) + 1
      BY <1>1, <2>2
    <3>2. ActiveSince(l, k) <= n
      BY <3>1
    <3> QED BY <1>2, <1>4, <3>1, <3>2
  <2> QED BY <2>1, <2>2
<1>6. \E k \in 1..Len(l) + 2 : ActiveSince(Append(l, e), k) = m
  <2>1. CASE m = n + d
    <3>1. PICK k \in 1..Len(l) + 1 : ActiveSince(l, k) = n
      OBVIOUS
    <3>2. k \in 1..Len(l) + 2
      BY <1>1
    <3> QED BY <1>2, <2>1, <3>1, <3>2
  <2>2. CASE m = 0
    <3>1. Len(l) + 2 \in 1..Len(l) + 2
      BY <1>1
    <3> QED BY <1>3, <2>2, <3>1
  <2> QED BY <1>4, <2>1, <2>2
<1>7. Len(Append(l, e)) + 1 = Len(l) + 2
  BY <1>1
<1> QED BY <1>5, <1>6, <1>7

\* The failures that came last: none once a session has completed.
LEMMA FailuresMore ==
  ASSUME NEW l \in Seq(Entries), NEW e \in Entries
  PROVE  /\ IsFiniteSet(LastFailures(l)) /\ Cardinality(LastFailures(l)) \in Nat
         /\ Cardinality(LastFailures(Append(l, e))) =
               IF e.what = "fail" THEN Cardinality(LastFailures(l)) + 1
               ELSE IF e.what = "done" THEN 0 ELSE Cardinality(LastFailures(l))
<1> DEFINE n == Len(l) + 1
           F == Marked(l, 1, {"fail"})
           D == Marked(l, 1, {"done"})
           F2 == Marked(Append(l, e), 1, {"fail"})
           D2 == Marked(Append(l, e), 1, {"done"})
<1>1. 1 \in 1..Len(l) + 1 /\ Len(l) \in Nat
  OBVIOUS
<1>2. /\ IsFiniteSet(F) /\ n \notin F
      /\ (e.what \in {"fail"} => F2 = F \cup {n}) /\ (e.what \notin {"fail"} => F2 = F)
  BY <1>1, MarkedMore
<1>3. /\ n \notin D
      /\ (e.what \in {"done"} => D2 = D \cup {n}) /\ (e.what \notin {"done"} => D2 = D)
  BY <1>1, MarkedMore
<1>4. F \subseteq 1..Len(l) /\ D \subseteq 1..Len(l)
  BY DEF Marked
<1>5. /\ LastFailures(l) = {i \in F : \A j \in D : j < i}
      /\ LastFailures(Append(l, e)) = {i \in F2 : \A j \in D2 : j < i}
  BY DEF LastFailures
<1>6. IsFiniteSet(LastFailures(l)) /\ Cardinality(LastFailures(l)) \in Nat
  <2>1. LastFailures(l) \in SUBSET F
    BY <1>5
  <2> QED BY <1>2, <2>1, FS_Subset, FS_CardinalityType
<1>10. \A i \in F \cup D : i < n /\ ~(n < i)
  BY <1>1, <1>4
<1> HIDE DEF F, D, F2, D2, n
<1>7. CASE e.what = "fail"
  <2>1. LastFailures(Append(l, e)) = LastFailures(l) \cup {n}
    BY <1>2, <1>3, <1>5, <1>7, <1>10
  <2>2. n \notin LastFailures(l)
    BY <1>2, <1>5
  <2> QED BY <1>6, <1>7, <2>1, <2>2, FS_AddElement
<1>8. CASE e.what = "done"
  <2>1. LastFailures(Append(l, e)) = {}
    BY <1>2, <1>3, <1>5, <1>8, <1>10
  <2>2. Cardinality(LastFailures(Append(l, e))) = 0
    BY <2>1, FS_EmptySet, Zenon
  <2> QED BY <1>6, <1>8, <2>2
<1>9. CASE e.what \notin {"fail", "done"}
  <2>1. LastFailures(Append(l, e)) = LastFailures(l)
    BY <1>2, <1>3, <1>5, <1>9
  <2> QED BY <1>6, <1>9, <2>1
<1> QED BY <1>7, <1>8, <1>9

\* The seconds spent.
LEMMA SpentMore ==
  ASSUME NEW l \in Seq(Entries), NEW e \in Entries, IsFiniteSet(Spent(l))
  PROVE  /\ IsFiniteSet(Spent(Append(l, e))) /\ Cardinality(Spent(l)) \in Nat
         /\ Cardinality(Spent(Append(l, e))) =
               Cardinality(Spent(l)) + (IF e.what = "done" THEN e.seconds ELSE 0)
<1> DEFINE n == Len(l) + 1
           D == Marked(l, 1, {"done"})
           D2 == Marked(Append(l, e), 1, {"done"})
           l2 == Append(l, e)
           more == {n} \X (1..e.seconds)
<1>1. /\ 1 \in 1..Len(l) + 1 /\ Len(l) \in Nat /\ e.seconds \in Nat
      /\ l2[n] = e /\ \A i \in 1..Len(l) : l2[i] = l[i]
  BY DEF Entries
<1>2. D \subseteq 1..Len(l) /\ n \notin 1..Len(l)
  BY <1>1 DEF Marked
<1>3. /\ (e.what \in {"done"} => D2 = D \cup {n}) /\ (e.what \notin {"done"} => D2 = D)
  BY <1>1, MarkedMore
<1>4. /\ Spent(l) = UNION {{i} \X (1..l[i].seconds) : i \in D}
      /\ Spent(l2) = UNION {{i} \X (1..l2[i].seconds) : i \in D2}
  BY DEF Spent
<1>5. Cardinality(Spent(l)) \in Nat
  BY FS_CardinalityType
<1> HIDE DEF D, D2, l2, n
<1>6. \A i \in D : l2[i] = l[i]
  BY <1>1, <1>2
<1>7. CASE e.what = "done"
  <2>1. Spent(l2) = Spent(l) \cup more
    <3>1. D2 = D \cup {n} /\ l2[n].seconds = e.seconds
      BY <1>1, <1>3, <1>7
    <3>2. \A x : x \in Spent(l2) <=> \E i \in D \cup {n} : x \in {i} \X (1..l2[i].seconds)
      BY <1>4, <3>1, Zenon
    <3>3. \A x : x \in Spent(l) <=> \E i \in D : x \in {i} \X (1..l[i].seconds)
      BY <1>4, Zenon
    <3>4. \A x : x \in Spent(l2) <=> x \in Spent(l) \cup more
      BY <1>6, <3>1, <3>2, <3>3, Zenon
    <3> QED BY <3>4, Zenon
  <2>2. IsFiniteSet(1..e.seconds) /\ Cardinality(1..e.seconds) = e.seconds
    <3>1. 1 \in Int /\ e.seconds \in Int /\ (1 > e.seconds => e.seconds = 0)
          /\ e.seconds - 1 + 1 = e.seconds
      BY <1>1
    <3> QED BY <3>1, FS_Interval
  <2>3. IsFiniteSet({n}) /\ Cardinality({n}) = 1
    BY FS_Singleton
  <2>4. IsFiniteSet(more) /\ Cardinality(more) = 1 * e.seconds
    BY <2>2, <2>3, FS_Product, ZenonT(60)
  <2>5. Spent(l) \cap more = {}
    BY <1>2, <1>4
  <2>6. Cardinality(Spent(l) \cap more) = 0
    BY <2>5, FS_EmptySet, Zenon
  <2> HIDE DEF more
  <2>7. /\ IsFiniteSet(Spent(l) \cup more)
        /\ Cardinality(Spent(l) \cup more)
              = Cardinality(Spent(l)) + Cardinality(more) - Cardinality(Spent(l) \cap more)
    BY <2>4, FS_Union
  <2> QED BY <1>1, <1>5, <1>7, <2>1, <2>4, <2>6, <2>7 DEF l2
<1>8. CASE e.what # "done"
  <2>1. Spent(l2) = Spent(l)
    BY <1>3, <1>4, <1>6, <1>8
  <2> QED BY <1>5, <1>8, <2>1 DEF l2
<1> QED BY <1>7, <1>8

\* A tracker that counts one record more tracks the records with it.
LEMMA RecordTracks ==
  ASSUME NEW l \in Seq(Entries), NEW e \in Entries, NEW h \in Trackers, NEW h2 \in Trackers,
         Tracks(h, l),
         h2.status = "DRAINING" <=> (h.status = "DRAINING" \/ e.what = "drain"),
         h2.active = IF e.what = "start" THEN h.active + 1
                     ELSE IF e.what \in Closings THEN Less(h.active) ELSE h.active,
         h2.total = h.total + (IF e.what \in Closings THEN 1 ELSE 0),
         h2.failed = h.failed + (IF e.what = "fail" THEN 1 ELSE 0),
         h2.samples = h.samples + (IF e.what = "done" THEN 1 ELSE 0),
         h2.latency = h.latency + (IF e.what = "done" THEN e.seconds ELSE 0),
         h2.streak = IF e.what = "fail" THEN h.streak + 1
                     ELSE IF e.what = "done" THEN 0 ELSE h.streak
  PROVE  Tracks(h2, Append(l, e))
<1> DEFINE l2 == Append(l, e)
<1>1. 1 \in 1..Len(l) + 1
  OBVIOUS
<1>2. h.active \in Nat /\ h.total \in Nat /\ h.failed \in Nat /\ h.samples \in Nat
  BY DEF Trackers
<1>3. h2.status = "DRAINING" <=> Marked(l2, 1, {"drain"}) # {}
  <2>1. /\ e.what \in {"drain"} => Marked(l2, 1, {"drain"}) = Marked(l, 1, {"drain"}) \cup {Len(l) + 1}
        /\ e.what \notin {"drain"} => Marked(l2, 1, {"drain"}) = Marked(l, 1, {"drain"})
    BY <1>1, MarkedMore
  <2>2. h.status = "DRAINING" <=> Marked(l, 1, {"drain"}) # {}
    BY DEF Tracks
  <2> HIDE DEF l2
  <2> QED BY <2>1, <2>2
<1>4. h2.total = Cardinality(Marked(l2, 1, Closings))
  <2>1. /\ e.what \in Closings => Cardinality(Marked(l2, 1, Closings)) = Cardinality(Marked(l, 1, Closings)) + 1
        /\ e.what \notin Closings => Marked(l2, 1, Closings) = Marked(l, 1, Closings)
    BY <1>1, MarkedMore
  <2>2. h.total = Cardinality(Marked(l, 1, Closings))
    BY DEF Tracks
  <2> HIDE DEF l2
  <2>3. CASE e.what \in Closings
    BY <2>1, <2>2, <2>3
  <2>4. CASE e.what \notin Closings
    <3>1. Cardinality(Marked(l2, 1, Closings)) = Cardinality(Marked(l, 1, Closings))
      BY <2>1, <2>4, Zenon
    <3> QED BY <1>2, <2>2, <2>4, <3>1
  <2> QED BY <2>3, <2>4
<1>5. h2.failed = Cardinality(Marked(l2, 1, {"fail"}))
  <2>1. /\ e.what \in {"fail"} =>
             Cardinality(Marked(l2, 1, {"fail"})) = Cardinality(Marked(l, 1, {"fail"})) + 1
        /\ e.what \notin {"fail"} => Marked(l2, 1, {"fail"}) = Marked(l, 1, {"fail"})
    BY <1>1, MarkedMore
  <2>2. h.failed = Cardinality(Marked(l, 1, {"fail"}))
    BY DEF Tracks
  <2> HIDE DEF l2
  <2>3. CASE e.what = "fail"
    BY <2>1, <2>2, <2>3
  <2>4. CASE e.what # "fail"
    <3>1. Cardinality(Marked(l2, 1, {"fail"})) = Cardinality(Marked(l, 1, {"fail"}))
      BY <2>1, <2>4, Zenon
    <3> QED BY <1>2, <2>2, <2>4, <3>1
  <2> QED BY <2>3, <2>4
<1>6. h2.samples = Cardinality(Marked(l2, 1, {"done"}))
  <2>1. /\ e.what \in {"done"} =>
             Cardinality(Marked(l2, 1, {"done"})) = Cardinality(Marked(l, 1, {"done"})) + 1
        /\ e.what \notin {"done"} => Marked(l2, 1, {"done"}) = Marked(l, 1, {"done"})
    BY <1>1, MarkedMore
  <2>2. h.samples = Cardinality(Marked(l, 1, {"done"}))
    BY DEF Tracks
  <2> HIDE DEF l2
  <2>3. CASE e.what = "done"
    BY <2>1, <2>2, <2>3
  <2>4. CASE e.what # "done"
    <3>1. Cardinality(Marked(l2, 1, {"done"})) = Cardinality(Marked(l, 1, {"done"}))
      BY <2>1, <2>4, Zenon
    <3> QED BY <1>2, <2>2, <2>4, <3>1
  <2> QED BY <2>3, <2>4
<1>7. h2.streak = Cardinality(LastFailures(l2))
  BY FailuresMore DEF Tracks
<1>8. IsFiniteSet(Spent(l2)) /\ h2.latency = Cardinality(Spent(l2))
  BY SpentMore DEF Tracks
<1>9. /\ \A k \in 1..Len(l2) + 1 : ActiveSince(l2, k) <= h2.active
      /\ \E k \in 1..Len(l2) + 1 : ActiveSince(l2, k) = h2.active
  <2>1. /\ \A k \in 1..Len(l) + 1 : ActiveSince(l, k) <= h.active
        /\ \E k \in 1..Len(l) + 1 : ActiveSince(l, k) = h.active
    BY DEF Tracks
  <2> QED BY <1>2, <2>1, ActiveMore, SMTT(90)
<1> QED BY <1>3, <1>4, <1>5, <1>6, <1>7, <1>8, <1>9 DEF Tracks

\* evaluateHealth sets the status, and DRAINING neither on nor off.
LEMMA EvaluatedSame ==
  ASSUME NEW h \in Trackers
  PROVE  /\ Evaluated(h) \in Trackers /\ Evaluated(h).fresh = h.fresh
         /\ Evaluated(h).status = "DRAINING" <=> h.status = "DRAINING"
         /\ Evaluated(h).active = h.active /\ Evaluated(h).total = h.total
         /\ Evaluated(h).failed = h.failed /\ Evaluated(h).samples = h.samples
         /\ Evaluated(h).latency = h.latency /\ Evaluated(h).streak = h.streak
<1>1. Health(h) \in Statuses /\ (Health(h) = "DRAINING" <=> h.status = "DRAINING")
  BY DEF Health, Statuses
<1> QED BY <1>1 DEF Evaluated, Trackers

\* What a tracker tracks does not depend on its other fields.
LEMMA SameTracks ==
  ASSUME NEW l, NEW h, NEW h2, Tracks(h, l),
         h2.status = "DRAINING" <=> h.status = "DRAINING",
         h2.active = h.active, h2.total = h.total, h2.failed = h.failed,
         h2.samples = h.samples, h2.latency = h.latency, h2.streak = h.streak
  PROVE  Tracks(h2, l)
BY Zenon DEF Tracks

-----------------------------------------------------------------------------
\* A record more in the log of an agent, with the tracker moved by it.
LEMMA RecordedKeeps ==
  ASSUME RegistryInv, NEW a \in AgentId, NEW e \in Entries, NEW h \in Trackers,
         Recorded(a, e.what, e.seconds, h), Tracks(h, Append(log[a], e))
  PROVE  RegistryInv'
<1> USE DEF RegistryInv
<1>1. /\ tracker' = [tracker EXCEPT ![a] = h] /\ log' = [log EXCEPT ![a] = Append(@, e)]
      /\ UNCHANGED <<catalog, order, tenantIndex, moved, plan>>
  <2>1. e = [what |-> e.what, seconds |-> e.seconds]
    BY DEF Entries
  <2> QED BY <2>1 DEF Recorded
<1>2. Append(log[a], e) \in Seq(Entries)
  BY DEF RegistryTypes
<1>3. RegistryTypes'
  BY <1>1, <1>2 DEF RegistryTypes
<1>4. TrackerInv'
  <2> SUFFICES ASSUME NEW x \in AgentId PROVE Tracks(tracker'[x], log'[x])
    BY DEF TrackerInv
  <2>1. CASE x = a
    <3>1. tracker'[x] = h /\ log'[x] = Append(log[a], e)
      BY <1>1, <2>1 DEF RegistryTypes
    <3> QED BY <3>1, Zenon
  <2>2. CASE x # a
    <3>1. tracker'[x] = tracker[x] /\ log'[x] = log[x]
      BY <1>1, <2>2 DEF RegistryTypes
    <3> QED BY <3>1, Zenon DEF TrackerInv
  <2> QED BY <2>1, <2>2
<1> QED BY <1>1, <1>3, <1>4 DEF OrderInv, IndexInv, Registered

\* What leaves trackers and logs alone keeps them in step.
LEMMA WatchedKeeps ==
  ASSUME RegistryInv, NEW h \in [AgentId -> Trackers],
         \A x \in AgentId : Tracks(h[x], log[x]), tracker' = h,
         UNCHANGED <<catalog, order, tenantIndex, log, moved, plan>>
  PROVE  RegistryInv'
<1> USE DEF RegistryInv
<1>1. RegistryTypes'
  BY DEF RegistryTypes
<1>2. TrackerInv'
  BY DEF TrackerInv
<1> QED BY <1>1, <1>2 DEF OrderInv, IndexInv, Registered

LEMMA HealthStepsKeep ==
  ASSUME RegistryInv, NEW a \in AgentId, HealthSteps(a) PROVE RegistryInv'
<1> DEFINE h == tracker[a]
           l == log[a]
<1>1. h \in Trackers /\ l \in Seq(Entries)
  BY DEF RegistryInv, RegistryTypes
<1>2. Tracks(h, l)
  BY Zenon DEF RegistryInv, TrackerInv
<1>3. /\ h.active \in Nat /\ h.total \in Nat /\ h.failed \in Nat /\ h.streak \in Nat
      /\ h.samples \in Nat /\ h.latency \in Nat /\ h.status \in Statuses /\ h.fresh \in BOOLEAN
      /\ Less(h.active) \in Nat
  BY <1>1 DEF Trackers, Less
<1>4. CASE SessionStarted(a)
  <2> DEFINE e == [what |-> "start", seconds |-> 0]
             h1 == [h EXCEPT !.active = @ + 1]
  <2>1. e \in Entries /\ e.what = "start" /\ e.seconds = 0 /\ e.what \notin Closings
    BY DEF Entries, Closings
  <2>2. /\ h1 \in Trackers /\ h1.active = h.active + 1
        /\ h1.status = h.status /\ h1.total = h.total /\ h1.failed = h.failed
        /\ h1.streak = h.streak /\ h1.samples = h.samples /\ h1.latency = h.latency
    BY <1>1, <1>3 DEF Trackers
  <2>3. Recorded(a, e.what, e.seconds, Evaluated(h1))
    BY <1>4 DEF SessionStarted
  <2> HIDE DEF e, h1, h, l
  <2>4. Evaluated(h1) \in Trackers /\ Tracks(Evaluated(h1), Append(l, e))
    BY <1>1, <1>2, <1>3, <2>1, <2>2, EvaluatedSame, RecordTracks
  <2> QED BY <2>1, <2>3, <2>4, RecordedKeeps DEF l
<1>5. CASE SessionFailed(a)
  <2> DEFINE e == [what |-> "fail", seconds |-> 0]
             h1 == Failed(h)
  <2>1. e \in Entries /\ e.what = "fail" /\ e.seconds = 0 /\ e.what \in Closings
    BY DEF Entries, Closings
  <2>2. /\ h1 \in Trackers /\ h1.active = Less(h.active)
        /\ h1.status = h.status /\ h1.total = h.total + 1 /\ h1.failed = h.failed + 1
        /\ h1.streak = h.streak + 1 /\ h1.samples = h.samples /\ h1.latency = h.latency
    <3> HIDE DEF h, l
    <3>1. h1 = [h EXCEPT !.total = h.total + 1, !.failed = h.failed + 1,
                         !.streak = h.streak + 1, !.active = Less(h.active)]
      BY DEF Failed
    <3>2. h.total + 1 \in Nat /\ h.failed + 1 \in Nat /\ h.streak + 1 \in Nat
      BY <1>3
    <3>3. h1.active = Less(h.active) /\ h1.status = h.status /\ h1.total = h.total + 1
      BY <1>1, <3>1 DEF Trackers
    <3>4. h1.failed = h.failed + 1 /\ h1.streak = h.streak + 1
      BY <1>1, <3>1 DEF Trackers
    <3>5. h1.samples = h.samples /\ h1.latency = h.latency
      BY <1>1, <3>1 DEF Trackers
    <3>6. h1 \in Trackers
      BY <1>1, <1>3, <3>1, <3>2 DEF Trackers
    <3> QED BY <3>3, <3>4, <3>5, <3>6
  <2>3. Recorded(a, e.what, e.seconds, Evaluated(h1))
    BY <1>5 DEF SessionFailed
  <2> HIDE DEF e, h1, h, l
  <2>4. Evaluated(h1) \in Trackers /\ Tracks(Evaluated(h1), Append(l, e))
    BY <1>1, <1>2, <1>3, <2>1, <2>2, EvaluatedSame, RecordTracks
  <2> QED BY <2>1, <2>3, <2>4, RecordedKeeps DEF l
<1>6. ASSUME NEW s \in Seconds, SessionCompleted(a, s) PROVE RegistryInv'
  <2> DEFINE e == [what |-> "done", seconds |-> s]
             h1 == Completed(h, s)
  <2>1. s \in Nat
    BY RegistryAssumption
  <2>2. e \in Entries /\ e.what = "done" /\ e.seconds = s /\ e.what \in Closings
    BY <2>1 DEF Entries, Closings
  <2>3. /\ h1 \in Trackers /\ h1.active = Less(h.active)
        /\ h1.status = h.status /\ h1.total = h.total + 1 /\ h1.failed = h.failed
        /\ h1.streak = 0 /\ h1.samples = h.samples + 1 /\ h1.latency = h.latency + s
    <3> HIDE DEF h, l
    <3>1. h1 = [h EXCEPT !.total = h.total + 1, !.streak = 0, !.active = Less(h.active),
                         !.latency = h.latency + s, !.samples = h.samples + 1]
      BY DEF Completed
    <3>2. h.total + 1 \in Nat /\ h.latency + s \in Nat /\ h.samples + 1 \in Nat
      BY <1>3, <2>1
    <3>3. h1.active = Less(h.active) /\ h1.status = h.status /\ h1.total = h.total + 1
      BY <1>1, <3>1 DEF Trackers
    <3>4. h1.failed = h.failed /\ h1.streak = 0
      BY <1>1, <3>1 DEF Trackers
    <3>5. h1.samples = h.samples + 1 /\ h1.latency = h.latency + s
      BY <1>1, <3>1 DEF Trackers
    <3>6. h1 \in Trackers
      <4> DEFINE hc == [h EXCEPT !.total = h.total + 1, !.streak = 0, !.active = Less(h.active)]
      <4>1. hc \in Trackers
        BY <1>1, <1>3, <3>2 DEF Trackers
      <4>2. h1 = [hc EXCEPT !.latency = h.latency + s, !.samples = h.samples + 1]
        BY <1>1, <3>1 DEF Trackers
      <4> HIDE DEF hc, h1
      <4> QED BY <3>2, <4>1, <4>2 DEF Trackers
    <3> QED BY <3>3, <3>4, <3>5, <3>6
  <2>4. Recorded(a, e.what, e.seconds, Evaluated(h1))
    BY <1>6 DEF SessionCompleted
  <2> HIDE DEF e, h1, h, l
  <2>5. Evaluated(h1) \in Trackers /\ Tracks(Evaluated(h1), Append(l, e))
    BY <1>1, <1>2, <1>3, <2>1, <2>2, <2>3, EvaluatedSame, RecordTracks, SMTT(30)
  <2> QED BY <2>2, <2>4, <2>5, RecordedKeeps DEF l
<1>7. CASE StartDraining(a)
  <2> DEFINE e == [what |-> "drain", seconds |-> 0]
             h1 == [h EXCEPT !.status = "DRAINING"]
  <2>1. e \in Entries /\ e.what = "drain" /\ e.seconds = 0 /\ e.what \notin Closings
    BY DEF Entries, Closings
  <2>2. /\ h1 \in Trackers /\ h1.active = h.active
        /\ h1.status = "DRAINING" /\ h1.total = h.total /\ h1.failed = h.failed
        /\ h1.streak = h.streak /\ h1.samples = h.samples /\ h1.latency = h.latency
    BY <1>1, <1>3 DEF Trackers, Statuses
  <2>3. Recorded(a, e.what, e.seconds, h1)
    BY <1>7 DEF StartDraining
  <2> HIDE DEF e, h1, h, l
  <2>4. Tracks(h1, Append(l, e))
    BY <1>1, <1>2, <1>3, <2>1, <2>2, RecordTracks
  <2> QED BY <2>1, <2>2, <2>3, <2>4, RecordedKeeps DEF l
<1>8. ASSUME NEW h2 \in Trackers, Watched(a, h2), Tracks(h2, l) PROVE RegistryInv'
  <2> DEFINE f == [tracker EXCEPT ![a] = h2]
  <2>1. f \in [AgentId -> Trackers]
    BY DEF RegistryInv, RegistryTypes
  <2>2. \A x \in AgentId : f[x] = IF x = a THEN h2 ELSE tracker[x]
    BY DEF RegistryInv, RegistryTypes
  <2>3. tracker' = f /\ UNCHANGED <<catalog, order, tenantIndex, log, moved, plan>>
    BY <1>8 DEF Watched
  <2> HIDE DEF f
  <2>4. \A x \in AgentId : Tracks(tracker[x], log[x])
    BY Zenon DEF RegistryInv, TrackerInv
  <2>5. \A x \in AgentId : Tracks(f[x], log[x])
    BY <1>8, <2>2, <2>4, Zenon
  <2> QED BY <2>1, <2>3, <2>5, WatchedKeeps
<1>9. CASE StopDraining(a)
  <2>1. Evaluated(h) \in Trackers /\ Tracks(Evaluated(h), l)
    <3> HIDE DEF h, l
    <3> QED BY <1>1, <1>2, EvaluatedSame, SameTracks
  <2> QED BY <1>8, <1>9, <2>1 DEF StopDraining
<1>10. CASE Beat(a)
  <2> DEFINE h1 == [h EXCEPT !.fresh = TRUE, !.status = IF @ = "OFFLINE" THEN "HEALTHY" ELSE @]
  <2>1. /\ h1 \in Trackers /\ h1.active = h.active
        /\ (h1.status = "DRAINING" <=> h.status = "DRAINING")
        /\ h1.total = h.total /\ h1.failed = h.failed
        /\ h1.streak = h.streak /\ h1.samples = h.samples /\ h1.latency = h.latency
    BY <1>1, <1>3 DEF Trackers, Statuses
  <2>2. Tracks(h1, l)
    <3> HIDE DEF h1, h, l
    <3> QED BY <1>2, <2>1, SameTracks
  <2>3. Watched(a, h1)
    BY <1>10 DEF Beat
  <2> QED BY <1>8, <2>1, <2>2, <2>3
<1>11. CASE BeatTimesOut(a)
  <2> DEFINE h1 == [h EXCEPT !.fresh = FALSE]
  <2>1. /\ h1 \in Trackers /\ h1.active = h.active
        /\ (h1.status = "DRAINING" <=> h.status = "DRAINING")
        /\ h1.total = h.total /\ h1.failed = h.failed
        /\ h1.streak = h.streak /\ h1.samples = h.samples /\ h1.latency = h.latency
    BY <1>1, <1>3 DEF Trackers, Statuses
  <2>2. Tracks(h1, l)
    <3> HIDE DEF h1, h, l
    <3> QED BY <1>2, <2>1, SameTracks
  <2>3. Watched(a, h1)
    BY <1>11 DEF BeatTimesOut
  <2> QED BY <1>8, <2>1, <2>2, <2>3
<1> QED
  BY <1>4, <1>5, <1>6, <1>7, <1>9, <1>10, <1>11 DEF HealthSteps

LEMMA LookUpKeeps == ASSUME RegistryInv, LookUp PROVE RegistryInv'
<1> DEFINE f == [a \in AgentId |-> IF a \in Registered /\ ~catalog[a].deprecated
                                  THEN Evaluated(tracker[a]) ELSE tracker[a]]
<1>1. tracker' = f /\ UNCHANGED <<catalog, order, tenantIndex, log, moved, plan>>
  BY DEF LookUp
<1>2. \A a \in AgentId : tracker[a] \in Trackers /\ Tracks(tracker[a], log[a])
  BY DEF RegistryInv, RegistryTypes, TrackerInv
<1>3. ASSUME NEW a \in AgentId
      PROVE  /\ Evaluated(tracker[a]) \in Trackers
             /\ Tracks(Evaluated(tracker[a]), log[a])
  BY <1>2, EvaluatedSame, SameTracks
<1>4. \A a \in AgentId : f[a] \in Trackers /\ Tracks(f[a], log[a])
  BY <1>2, <1>3
<1>5. f \in [AgentId -> Trackers]
  BY <1>4
<1> HIDE DEF f
<1> QED BY <1>1, <1>4, <1>5, WatchedKeeps

-----------------------------------------------------------------------------
\* What somebody has owned is a registration.
LEMMA OwnedKnown ==
  ASSUME RegistryTypes
  PROVE  /\ plan.owned \subseteq Ownership /\ plan.offers \subseteq Offers
         /\ Registered \subseteq AgentId
         /\ \A a \in Registered : catalog[a] \in Registration
         /\ \A r \in Registration : r # NoAgent /\ r.ownership.tenant \in Tenants
<1>1. plan.owned \subseteq OwnedEver /\ plan.offers \subseteq Offers
  BY DEF RegistryTypes, OwnedEver, Offers
<1>2. \A a \in Registered : catalog[a] \in Registration
  BY DEF RegistryTypes, Registered
<1>3. \A r \in Registration : r # NoAgent
  BY RegistryAssumption
<1>4. \A r \in Registration : r.ownership.tenant \in Tenants
  <2>1. \A r \in Registration : r.ownership \in Ownership
    BY DEF Registration
  <2>2. \A o \in Ownership : o.tenant \in Tenants
    BY DEF Ownership
  <2> QED BY <2>1, <2>2
<1> QED BY <1>1, <1>2, <1>3, <1>4, RegistryAssumption DEF Registered

\* A registration that is new, replaced or taken away starts without records.
LEMMA FreshTracker ==
  ASSUME RegistryInv, NEW a \in AgentId,
         tracker' = [tracker EXCEPT ![a] = NewTracker], log' = [log EXCEPT ![a] = <<>>]
  PROVE  /\ tracker' \in [AgentId -> Trackers] /\ log' \in [AgentId -> Seq(Entries)]
         /\ TrackerInv'
<1>1. tracker \in [AgentId -> Trackers] /\ log \in [AgentId -> Seq(Entries)]
  BY DEF RegistryInv, RegistryTypes
<1>2. NewTracker \in Trackers /\ <<>> \in Seq(Entries) /\ Tracks(NewTracker, <<>>)
  BY NothingTracked
<1>3. \A x \in AgentId : Tracks(tracker[x], log[x])
  BY Zenon DEF RegistryInv, TrackerInv
<1>4. \A x \in AgentId : /\ tracker'[x] = IF x = a THEN NewTracker ELSE tracker[x]
                         /\ log'[x] = IF x = a THEN <<>> ELSE log[x]
  BY <1>1
<1>5. \A x \in AgentId : Tracks(tracker'[x], log'[x])
  BY <1>2, <1>3, <1>4, Zenon
<1>6. tracker' \in [AgentId -> Trackers] /\ log' \in [AgentId -> Seq(Entries)]
  BY <1>1, <1>2
<1> QED BY <1>5, <1>6 DEF TrackerInv

\* A new id goes to the end of the map and into the listing of its tenant.
LEMMA RegisterAgentKeeps ==
  ASSUME RegistryInv, NEW a \in AgentId, NEW o \in plan.owned, NEW f \in plan.offers,
         RegisterAgent(a, o, f)
  PROVE  RegistryInv'
<1> USE DEF RegistryInv
<1> DEFINE r == [ownership |-> o, offer |-> f, deprecated |-> FALSE]
<1>1. /\ catalog[a] = NoAgent /\ catalog' = [catalog EXCEPT ![a] = r]
      /\ order' = Append(order, a)
      /\ tenantIndex' = [tenantIndex EXCEPT ![o.tenant] = @ \cup {a}]
      /\ tracker' = [tracker EXCEPT ![a] = NewTracker] /\ log' = [log EXCEPT ![a] = <<>>]
      /\ moved' = moved /\ plan' = plan
  BY DEF RegisterAgent, Changes
<1>2. r \in Registration /\ r # NoAgent /\ o.tenant \in Tenants /\ r.ownership = o
  <2>1. o \in Ownership /\ f \in Offers
    BY OwnedKnown
  <2>2. r \in Registration
    BY <2>1 DEF Registration
  <2> QED BY <2>2, OwnedKnown
<1> HIDE DEF r
<1>3. /\ \A x \in AgentId : catalog'[x] = IF x = a THEN r ELSE catalog[x]
      /\ catalog' \in [AgentId -> Registration \cup {NoAgent}]
  BY <1>1, <1>2 DEF RegistryTypes
<1>4. a \notin Registered /\ Registered' = Registered \cup {a}
  BY <1>1, <1>2, <1>3 DEF Registered
<1>5. /\ \A t \in Tenants : tenantIndex'[t] = IF t = o.tenant THEN tenantIndex[t] \cup {a}
                                                             ELSE tenantIndex[t]
      /\ tenantIndex' \in [Tenants -> SUBSET AgentId]
  BY <1>1, <1>2 DEF RegistryTypes
<1>6. RegistryTypes' /\ TrackerInv'
  <2>1. order' \in Seq(AgentId)
    BY <1>1 DEF RegistryTypes
  <2> QED BY <1>1, <1>3, <1>5, <2>1, FreshTracker DEF RegistryTypes
<1>7. OrderInv'
  <2> DEFINE n == Len(order) + 1
  <2>1. /\ Len(order) \in Nat /\ DOMAIN order = 1..Len(order) /\ DOMAIN order' = 1..n
        /\ order'[n] = a /\ \A i \in DOMAIN order : order'[i] = order[i]
    BY <1>1 DEF RegistryTypes
  <2>2. \A i \in DOMAIN order' : i \in DOMAIN order \/ i = n
    BY <2>1
  <2>3. n \in DOMAIN order' /\ n \notin DOMAIN order /\ DOMAIN order \subseteq DOMAIN order'
    BY <2>1
  <2> HIDE DEF n
  <2>4. \A i \in DOMAIN order : order[i] \in Registered /\ order[i] # a
    BY <1>4 DEF OrderInv
  <2>5. \A i \in DOMAIN order' : order'[i] \in Registered'
    BY <1>4, <2>1, <2>2, <2>4
  <2>6. \A i, j \in DOMAIN order' : order'[i] = order'[j] => i = j
    BY <2>1, <2>2, <2>4 DEF OrderInv
  <2>7. \A x \in Registered' : \E i \in DOMAIN order' : order'[i] = x
    BY <1>4, <2>1, <2>3 DEF OrderInv
  <2> QED BY <2>5, <2>6, <2>7 DEF OrderInv
<1>8. IndexInv'
  <2> SUFFICES ASSUME NEW x \in AgentId \ moved, NEW t \in Tenants
               PROVE  x \in tenantIndex'[t] <=>
                          (x \in Registered' /\ catalog'[x].ownership.tenant = t)
    BY <1>1 DEF IndexInv
  <2>1. x \in tenantIndex[t] <=> (x \in Registered /\ catalog[x].ownership.tenant = t)
    BY DEF IndexInv
  <2>2. CASE x = a
    BY <1>2, <1>3, <1>4, <1>5, <2>1, <2>2
  <2>3. CASE x # a
    BY <1>3, <1>4, <1>5, <2>1, <2>3
  <2> QED BY <2>2, <2>3
<1> QED BY <1>6, <1>7, <1>8

\* What an update makes of a registration is a registration.
LEMMA OverriddenFits ==
  ASSUME RegistryTypes, NEW q \in Registration, NEW r \in Overridden(q)
  PROVE  r \in Registration
<1>1. q.ownership \in Ownership /\ plan.owned \subseteq Ownership /\ plan.offers \subseteq Offers
  BY OwnedKnown DEF Registration
<1>2. \A e \in AclEntry : /\ Granted(q.ownership, e) \in Ownership
                          /\ Revoked(q.ownership, e) \in Ownership
  <2> TAKE e \in AclEntry
  <2> DEFINE o == q.ownership
             kept == {g \in o.acl : ~SamePrincipal(e, g)}
  <2>1. o \in Ownership /\ kept \cup {e} \in SUBSET AclEntry /\ kept \in SUBSET AclEntry
    BY <1>1 DEF Ownership
  <2>2. Granted(o, e) = [o EXCEPT !.acl = kept \cup {e}] /\ Revoked(o, e) = [o EXCEPT !.acl = kept]
    <3>1. Granted(o, e) = [o EXCEPT !.acl = kept \cup {e}]
      BY Zenon DEF Granted
    <3>2. Revoked(o, e) = [o EXCEPT !.acl = kept]
      BY Zenon DEF Revoked
    <3> QED BY <3>1, <3>2
  <2> HIDE DEF o, kept
  <2>3. Granted(o, e) \in Ownership
    BY <2>1, <2>2 DEF Ownership
  <2>4. Revoked(o, e) \in Ownership
    BY <2>1, <2>2 DEF Ownership
  <2> QED BY <2>3, <2>4 DEF o
<1>3. /\ \A d \in BOOLEAN : [q EXCEPT !.deprecated = d] \in Registration
      /\ \A o \in Ownership : [q EXCEPT !.ownership = o] \in Registration
      /\ \A f \in Offers : [q EXCEPT !.offer = f] \in Registration
  BY DEF Registration
<1>4. \/ \E d \in BOOLEAN : r = [q EXCEPT !.deprecated = d]
      \/ \E o \in plan.owned : r = [q EXCEPT !.ownership = o]
      \/ \E e \in AclEntry : r = [q EXCEPT !.ownership = Granted(q.ownership, e)]
      \/ \E e \in AclEntry : r = [q EXCEPT !.ownership = Revoked(q.ownership, e)]
      \/ \E f \in plan.offers : r = [q EXCEPT !.offer = f]
  BY DEF Overridden
<1> QED BY <1>1, <1>2, <1>3, <1>4

\* An update changes the registration and leaves the index as it is.
LEMMA UpdateAgentKeeps ==
  ASSUME RegistryInv, NEW a \in AgentId, NEW c \in Contexts, UpdateAgent(a, c)
  PROVE  RegistryInv'
<1> USE DEF RegistryInv
<1>1. /\ a \in Registered
      /\ tracker' = [tracker EXCEPT ![a] = NewTracker] /\ log' = [log EXCEPT ![a] = <<>>]
      /\ UNCHANGED <<order, tenantIndex, plan>>
  BY DEF UpdateAgent, Changes
<1>2. PICK r \in Overridden(catalog[a]) :
          /\ catalog' = [catalog EXCEPT ![a] = r]
          /\ moved' = IF r.ownership.tenant = catalog[a].ownership.tenant THEN moved
                      ELSE moved \cup {a}
  BY DEF UpdateAgent
<1>3. r \in Registration /\ r # NoAgent
  BY <1>1, OwnedKnown, OverriddenFits
<1>4. /\ \A x \in AgentId : catalog'[x] = IF x = a THEN r ELSE catalog[x]
      /\ catalog' \in [AgentId -> Registration \cup {NoAgent}]
  BY <1>2, <1>3 DEF RegistryTypes
<1>5. Registered' = Registered
  BY <1>1, <1>3, <1>4 DEF Registered
<1>6. RegistryTypes' /\ TrackerInv'
  BY <1>1, <1>2, <1>4, FreshTracker DEF RegistryTypes
<1>7. OrderInv'
  BY <1>1, <1>5 DEF OrderInv
<1>8. IndexInv'
  <2> SUFFICES ASSUME NEW x \in AgentId \ moved', NEW t \in Tenants
               PROVE  x \in tenantIndex[t] <=>
                          (x \in Registered /\ catalog'[x].ownership.tenant = t)
    BY <1>1, <1>5 DEF IndexInv
  <2>1. x \in AgentId \ moved
    BY <1>2
  <2>2. x \in tenantIndex[t] <=> (x \in Registered /\ catalog[x].ownership.tenant = t)
    BY <2>1 DEF IndexInv
  <2>3. x = a => r.ownership.tenant = catalog[a].ownership.tenant
    BY <1>2
  <2> QED BY <1>4, <2>2, <2>3
<1> QED BY <1>6, <1>7, <1>8

\* A sequence without its i-th element.
LEMMA RemoveAtMeans ==
  ASSUME NEW S, NEW s \in Seq(S), NEW i \in 1..Len(s)
  PROVE  /\ RemoveAt(s, i) \in Seq(S) /\ Len(RemoveAt(s, i)) = Len(s) - 1
         /\ \A j \in 1..Len(s) - 1 : RemoveAt(s, i)[j] = IF j < i THEN s[j] ELSE s[j + 1]
<1> DEFINE front == SubSeq(s, 1, i - 1)
           back == SubSeq(s, i + 1, Len(s))
<1>1. Len(s) \in Nat /\ i \in Nat /\ 1 <= i /\ i <= Len(s) /\ \A j \in 1..Len(s) : s[j] \in S
  OBVIOUS
<1>2. front \in Seq(S) /\ Len(front) = i - 1 /\ \A j \in 1..i - 1 : front[j] = s[j]
  <2>1. \A j \in 1..i - 1 : s[j] \in S
    BY <1>1
  <2>2. /\ front \in Seq(S) /\ Len(front) = IF 1 <= i - 1 THEN (i - 1) - 1 + 1 ELSE 0
        /\ \A j \in 1..(i - 1) - 1 + 1 : front[j] = s[1 + j - 1]
    BY <1>1, <2>1, SubSeqProperties
  <2> HIDE DEF front
  <2> QED BY <1>1, <2>2
<1>3. back \in Seq(S) /\ Len(back) = Len(s) - i /\ \A j \in 1..Len(s) - i : back[j] = s[i + j]
  <2>1. \A j \in i + 1..Len(s) : s[j] \in S
    BY <1>1
  <2>2. /\ back \in Seq(S) /\ Len(back) = IF i + 1 <= Len(s) THEN Len(s) - (i + 1) + 1 ELSE 0
        /\ \A j \in 1..Len(s) - (i + 1) + 1 : back[j] = s[(i + 1) + j - 1]
    BY <1>1, <2>1, SubSeqProperties
  <2> HIDE DEF back
  <2> QED BY <1>1, <2>2
<1>4. RemoveAt(s, i) = front \o back
  BY DEF RemoveAt
<1> HIDE DEF front, back
<1>5. /\ front \o back \in Seq(S) /\ Len(front \o back) = Len(s) - 1
      /\ \A j \in 1..Len(s) - 1 : (front \o back)[j] = IF j <= i - 1 THEN front[j] ELSE back[j - (i - 1)]
  <2>1. front \o back \in Seq(S) /\ Len(front \o back) = Len(s) - 1
    <3>1. front \o back \in Seq(S) /\ Len(front \o back) = Len(front) + Len(back)
      BY <1>2, <1>3, ConcatProperties
    <3> QED BY <1>1, <1>2, <1>3, <3>1
  <2>2. \A j \in 1..Len(front) + Len(back) :
            (front \o back)[j] = IF j <= Len(front) THEN front[j] ELSE back[j - Len(front)]
    BY <1>2, <1>3, ConcatProperties
  <2>3. Len(front) + Len(back) = Len(s) - 1
    BY <1>1, <1>2, <1>3
  <2> QED BY <1>2, <2>1, <2>2, <2>3
<1>6. ASSUME NEW j \in 1..Len(s) - 1
      PROVE  (front \o back)[j] = IF j < i THEN s[j] ELSE s[j + 1]
  <2>1. CASE j < i
    BY <1>1, <1>2, <1>5, <2>1
  <2>2. CASE ~(j < i)
    <3>1. j - (i - 1) \in 1..Len(s) - i /\ i + (j - (i - 1)) = j + 1 /\ ~(j <= i - 1)
      BY <1>1, <2>2
    <3> QED BY <1>3, <1>5, <2>2, <3>1
  <2> QED BY <2>1, <2>2
<1> QED BY <1>4, <1>5, <1>6

\* An id deleted leaves the map and the listing of its present tenant.
LEMMA DeleteAgentKeeps ==
  ASSUME RegistryInv, NEW a \in AgentId, NEW c \in Contexts, DeleteAgent(a, c)
  PROVE  RegistryInv'
<1> USE DEF RegistryInv
<1> DEFINE p == CHOOSE i \in DOMAIN order : order[i] = a
           home == catalog[a].ownership.tenant
<1>1. /\ a \in Registered /\ catalog' = [catalog EXCEPT ![a] = NoAgent]
      /\ order' = RemoveAt(order, p)
      /\ tenantIndex' = [tenantIndex EXCEPT ![home] = @ \ {a}]
      /\ tracker' = [tracker EXCEPT ![a] = NewTracker] /\ log' = [log EXCEPT ![a] = <<>>]
      /\ UNCHANGED <<moved, plan>>
  BY DEF DeleteAgent, Changes, Unlisted
<1>2. p \in DOMAIN order /\ order[p] = a
  BY <1>1 DEF OrderInv
<1>3. home \in Tenants
  BY <1>1, OwnedKnown
<1> HIDE DEF p, home
<1>4. /\ \A x \in AgentId : catalog'[x] = IF x = a THEN NoAgent ELSE catalog[x]
      /\ catalog' \in [AgentId -> Registration \cup {NoAgent}]
  BY <1>1 DEF RegistryTypes
<1>5. Registered' = Registered \ {a}
  BY <1>1, <1>4 DEF Registered
<1>6. /\ \A t \in Tenants : tenantIndex'[t] = IF t = home THEN tenantIndex[t] \ {a}
                                                          ELSE tenantIndex[t]
      /\ tenantIndex' \in [Tenants -> SUBSET AgentId]
  BY <1>1, <1>3 DEF RegistryTypes
<1>7. /\ order \in Seq(AgentId) /\ Len(order) \in Nat /\ p \in 1..Len(order)
      /\ DOMAIN order = 1..Len(order)
  BY <1>2 DEF RegistryTypes
<1>8. /\ order' \in Seq(AgentId) /\ Len(order') = Len(order) - 1
      /\ \A j \in 1..Len(order) - 1 : order'[j] = IF j < p THEN order[j] ELSE order[j + 1]
  BY <1>1, <1>7, RemoveAtMeans
<1>9. DOMAIN order' = 1..Len(order) - 1
  BY <1>8
<1>10. RegistryTypes' /\ TrackerInv'
  BY <1>1, <1>4, <1>6, <1>8, FreshTracker DEF RegistryTypes
<1>11. OrderInv'
  <2> DEFINE From(j) == IF j < p THEN j ELSE j + 1
  <2>1. \A j \in DOMAIN order' : /\ From(j) \in DOMAIN order /\ From(j) # p
                                /\ order'[j] = order[From(j)]
    BY <1>7, <1>8, <1>9
  <2>2. \A i, j \in DOMAIN order' : From(i) = From(j) => i = j
    BY <1>7, <1>9
  <2>3. \A i \in DOMAIN order : i # p => \E j \in DOMAIN order' : From(j) = i
    <3> SUFFICES ASSUME NEW i \in DOMAIN order, i # p
                 PROVE  \E j \in DOMAIN order' : From(j) = i
      OBVIOUS
    <3>1. CASE i < p
      BY <1>7, <1>9, <3>1
    <3>2. CASE p < i
      <4>1. i - 1 \in DOMAIN order' /\ From(i - 1) = i
        BY <1>7, <1>9, <3>2
      <4> QED BY <4>1
    <3> QED BY <1>7, <3>1, <3>2
  <2> HIDE DEF From
  <2>4. \A j \in DOMAIN order' : order'[j] \in Registered'
    BY <1>2, <1>5, <2>1 DEF OrderInv
  <2>5. \A i, j \in DOMAIN order' : order'[i] = order'[j] => i = j
    BY <2>1, <2>2 DEF OrderInv
  <2>6. ASSUME NEW x \in Registered' PROVE \E j \in DOMAIN order' : order'[j] = x
    <3>1. PICK i \in DOMAIN order : order[i] = x
      BY <1>5, <2>6 DEF OrderInv
    <3>2. i # p
      BY <1>2, <1>5, <2>6, <3>1
    <3>3. PICK j \in DOMAIN order' : From(j) = i
      BY <2>3, <3>2
    <3> QED BY <2>1, <3>1, <3>3
  <2> QED BY <2>4, <2>5, <2>6 DEF OrderInv
<1>12. IndexInv'
  <2> SUFFICES ASSUME NEW x \in AgentId \ moved, NEW t \in Tenants
               PROVE  x \in tenantIndex'[t] <=>
                          (x \in Registered' /\ catalog'[x].ownership.tenant = t)
    BY <1>1 DEF IndexInv
  <2>1. x \in tenantIndex[t] <=> (x \in Registered /\ catalog[x].ownership.tenant = t)
    BY DEF IndexInv
  <2>2. CASE x = a
    BY <1>5, <1>6, <2>1, <2>2 DEF home
  <2>3. CASE x # a
    BY <1>4, <1>5, <1>6, <2>1, <2>3
  <2> QED BY <2>2, <2>3
<1> QED BY <1>10, <1>11, <1>12

LEMMA ClearAgentsKeeps == ASSUME RegistryInv, ClearAgents PROVE RegistryInv'
<1>1. /\ catalog' = [a \in AgentId |-> NoAgent] /\ order' = <<>>
      /\ tenantIndex' = [t \in Tenants |-> {}]
      /\ tracker' = [a \in AgentId |-> NewTracker] /\ log' = [a \in AgentId |-> <<>>]
      /\ moved' = {} /\ plan' = plan
  BY DEF ClearAgents, Changes
<1>2. Registered' = {}
  BY <1>1 DEF Registered
<1>3. \A a \in AgentId : tracker'[a] = NewTracker /\ log'[a] = <<>>
  BY <1>1
<1>4. RegistryTypes'
  <2>1. <<>> \in Seq(Entries) /\ <<>> \in Seq(AgentId)
    OBVIOUS
  <2>2. tracker' \in [AgentId -> Trackers] /\ log' \in [AgentId -> Seq(Entries)]
    BY <1>1, <2>1, NothingTracked
  <2> QED BY <1>1, <2>1, <2>2 DEF RegistryInv, RegistryTypes
<1>5. TrackerInv'
  BY <1>3, NothingTracked, Zenon DEF TrackerInv
<1>6. OrderInv' /\ IndexInv'
  BY <1>1, <1>2 DEF OrderInv, IndexInv
<1> QED BY <1>4, <1>5, <1>6 DEF RegistryInv

LEMMA RegistryInitHolds == RegistryInit => RegistryInv
<1> SUFFICES ASSUME RegistryInit PROVE RegistryInv
  OBVIOUS
<1>1. /\ plan \in Plans /\ catalog = [a \in AgentId |-> NoAgent] /\ order = <<>>
      /\ tenantIndex = [t \in Tenants |-> {}]
      /\ tracker = [a \in AgentId |-> NewTracker] /\ log = [a \in AgentId |-> <<>>]
      /\ moved = {}
  BY DEF RegistryInit
<1>2. Registered = {}
  BY <1>1 DEF Registered
<1>3. \A a \in AgentId : tracker[a] = NewTracker /\ log[a] = <<>>
  BY <1>1
<1>4. RegistryTypes
  <2>1. <<>> \in Seq(Entries) /\ <<>> \in Seq(AgentId)
    OBVIOUS
  <2>2. tracker \in [AgentId -> Trackers] /\ log \in [AgentId -> Seq(Entries)]
    BY <1>1, <2>1, NothingTracked
  <2> QED BY <1>1, <2>1, <2>2 DEF RegistryTypes
<1>5. TrackerInv
  BY <1>3, NothingTracked, Zenon DEF TrackerInv
<1>6. OrderInv /\ IndexInv
  BY <1>1, <1>2 DEF OrderInv, IndexInv
<1> QED BY <1>4, <1>5, <1>6 DEF RegistryInv

LEMMA RegistryNextKeeps == RegistryInv /\ [RegistryNext]_registryVars => RegistryInv'
<1> SUFFICES ASSUME RegistryInv, [RegistryNext]_registryVars PROVE RegistryInv'
  OBVIOUS
<1>1. ASSUME NEW a \in AgentId, NEW o \in plan.owned, NEW f \in plan.offers,
             RegisterAgent(a, o, f)
      PROVE  RegistryInv'
  BY <1>1, RegisterAgentKeeps
<1>2. ASSUME NEW a \in AgentId, NEW c \in Contexts, UpdateAgent(a, c) PROVE RegistryInv'
  BY <1>2, UpdateAgentKeeps
<1>3. ASSUME NEW a \in AgentId, NEW c \in Contexts, DeleteAgent(a, c) PROVE RegistryInv'
  BY <1>3, DeleteAgentKeeps
<1>4. CASE ClearAgents
  BY <1>4, ClearAgentsKeeps
<1>5. ASSUME NEW a \in AgentId, HealthSteps(a) PROVE RegistryInv'
  BY <1>5, HealthStepsKeep
<1>6. CASE LookUp
  BY <1>6, LookUpKeeps
<1>7. CASE UNCHANGED registryVars
  <2>1. UNCHANGED <<catalog, order, tenantIndex, tracker, log, moved, plan>>
    BY <1>7 DEF registryVars
  <2> QED
    BY <2>1 DEF RegistryInv, RegistryTypes, OrderInv, IndexInv, TrackerInv, Registered
<1> QED
  BY <1>1, <1>2, <1>3, <1>4, <1>5, <1>6, <1>7 DEF RegistryNext, CatalogSteps

\* What has been said of the registry holds in every state.
THEOREM RegistryInvariant == RegistrySpec => []RegistryInv
  BY RegistryInitHolds, RegistryNextKeeps, PTL DEF RegistrySpec

-----------------------------------------------------------------------------
\* The map is as long as there are agents registered.
LEMMA OrderCounts == ASSUME RegistryInv PROVE Len(order) = Cardinality(Registered)
<1>1. order \in Seq(AgentId) /\ DOMAIN order = 1..Len(order) /\ Len(order) \in Nat
  BY DEF RegistryInv, RegistryTypes
<1>2. order \in [1..Len(order) -> Registered]
  BY <1>1 DEF RegistryInv, OrderInv
<1>3. \A i, j \in 1..Len(order) : order[i] = order[j] => i = j
  BY <1>1 DEF RegistryInv, OrderInv
<1>4. \A a \in Registered : \E i \in 1..Len(order) : order[i] = a
  BY <1>1 DEF RegistryInv, OrderInv
<1>5. ExistsBijection(1..Len(order), Registered)
  <2>1. order \in Injection(1..Len(order), Registered)
    BY <1>1, <1>2, <1>3 DEF Injection, IsInjective
  <2>2. order \in Surjection(1..Len(order), Registered)
    BY <1>2, <1>4 DEF Surjection
  <2> QED BY <2>1, <2>2 DEF ExistsBijection, Bijection
<1> QED BY <1>1, <1>5, FS_CountingElements

\* The catalog, its index and the trackers keep their types, and the map has
\* every registration once.
THEOREM RegistryTypeCorrect == RegistrySpec => []RegistryTypeOK
<1>1. RegistryInv => RegistryTypeOK
  <2> SUFFICES ASSUME RegistryInv PROVE RegistryTypeOK
    OBVIOUS
  <2>1. \A a \in Registered : /\ catalog[a].deprecated \in BOOLEAN
                             /\ catalog[a].ownership.tenant \in Tenants
                             /\ catalog[a].ownership.acl \subseteq AclEntry
    <3>1. \A a \in Registered : catalog[a] \in Registration
      BY OwnedKnown DEF RegistryInv
    <3>2. \A a \in Registered : catalog[a].deprecated \in BOOLEAN /\ catalog[a].ownership \in Ownership
      BY <3>1 DEF Registration
    <3> QED BY <3>2 DEF Ownership
  <2>2. \A a \in AgentId :
           /\ tracker[a].status \in {"HEALTHY", "DEGRADED", "UNHEALTHY", "OFFLINE", "DRAINING"}
           /\ {tracker[a].active, tracker[a].total, tracker[a].streak} \subseteq Nat
    <3>1. \A a \in AgentId : tracker[a] \in Trackers
      BY DEF RegistryInv, RegistryTypes
    <3> QED BY <3>1 DEF Trackers, Statuses
  <2>3. tenantIndex \in [Tenants -> SUBSET AgentId] /\ moved \subseteq AgentId
    BY DEF RegistryInv, RegistryTypes
  <2> QED BY <2>1, <2>2, <2>3, OrderCounts DEF RegistryTypeOK
<1> QED BY <1>1, RegistryInvariant, PTL

\* What the records amount to is what the tracker counts.
LEMMA CountersMean ==
  ASSUME RegistryInv, NEW a \in AgentId
  PROVE  /\ FailuresInARow(a) = tracker[a].streak
         /\ SessionsActive(a) = tracker[a].active
         /\ ErrorProne(a) <=> (tracker[a].total >= MinSample
                                 /\ 4 * tracker[a].failed > tracker[a].total)
         /\ SecondsSpent(a) = tracker[a].latency
         /\ Cardinality(Completions(a)) = tracker[a].samples
         /\ (\A i \in DOMAIN log[a] : log[a][i].what # "drain") <=> tracker[a].status # "DRAINING"
<1> DEFINE l == log[a]
           h == tracker[a]
<1>1. l \in Seq(Entries) /\ DOMAIN l = 1..Len(l) /\ Len(l) \in Nat /\ h \in Trackers
  BY DEF RegistryInv, RegistryTypes
<1>2. Tracks(h, l)
  BY Zenon DEF RegistryInv, TrackerInv
<1>3. /\ Failures(a) = Marked(l, 1, {"fail"}) /\ Completions(a) = Marked(l, 1, {"done"})
  BY <1>1 DEF Failures, Completions, Marked
<1>4. FailuresInARow(a) = h.streak
  <2>1. {i \in Failures(a) : \A j \in Completions(a) : j < i} = LastFailures(l)
    BY <1>3 DEF LastFailures
  <2> QED BY <1>2, <2>1, Zenon DEF Tracks, FailuresInARow
<1>5. SessionsActive(a) = h.active
  <2> DEFINE S == {ActiveSince(l, k) : k \in 1..(Len(l) + 1)}
  <2>1. ASSUME NEW k \in 1..(Len(l) + 1)
        PROVE  Cardinality({i \in k..Len(log[a]) : log[a][i].what = "start"})
                 - Cardinality({i \in k..Len(log[a]) : log[a][i].what \in {"fail", "done"}})
                   = ActiveSince(l, k)
    <3>1. {i \in k..Len(log[a]) : log[a][i].what = "start"} = Marked(l, k, {"start"})
      BY DEF Marked
    <3>2. {i \in k..Len(log[a]) : log[a][i].what \in {"fail", "done"}} = Marked(l, k, Closings)
      BY DEF Marked, Closings
    <3> QED BY <3>1, <3>2, Zenon DEF ActiveSince
  <2>2. {Cardinality({i \in k..Len(log[a]) : log[a][i].what = "start"})
             - Cardinality({i \in k..Len(log[a]) : log[a][i].what \in {"fail", "done"}}) :
         k \in 1..(Len(log[a]) + 1)} = S
    BY <2>1, Zenon
  <2>3. SessionsActive(a) = Max(S)
    BY <2>2, Zenon DEF SessionsActive
  <2>4. h.active \in S /\ \A x \in S : h.active >= x
    <3>1. \A k \in 1..Len(l) + 1 : ActiveSince(l, k) <= h.active
      BY <1>2 DEF Tracks
    <3>2. \E k \in 1..Len(l) + 1 : ActiveSince(l, k) = h.active
      BY <1>2 DEF Tracks
    <3> HIDE DEF l, h
    <3> QED BY <3>1, <3>2
  <2>5. h.active \in Nat /\ \A x \in S : x \in Int
    <3>1. \A k \in 1..(Len(l) + 1) : ActiveSince(l, k) \in Int
      <4> TAKE k \in 1..(Len(l) + 1)
      <4>1. [what |-> "drain", seconds |-> 0] \in Entries
        BY DEF Entries
      <4>2. /\ Cardinality(Marked(l, k, {"start"})) \in Nat
            /\ Cardinality(Marked(l, k, Closings)) \in Nat
        BY <1>1, <4>1, MarkedMore
      <4> QED BY <4>2 DEF ActiveSince
    <3> QED BY <1>1, <3>1 DEF Trackers
  <2> HIDE DEF S, l, h
  <2>6. Max(S) = h.active
    <3>1. Max(S) \in S /\ \A x \in S : Max(S) >= x
      BY <2>4 DEF Max
    <3> QED BY <2>4, <2>5, <3>1
  <2> QED BY <2>3, <2>6 DEF h
<1>6. ErrorProne(a) <=> (h.total >= MinSample /\ 4 * h.failed > h.total)
  <2>1. Failures(a) \cup Completions(a) = Marked(l, 1, Closings)
    BY <1>3 DEF Marked, Closings
  <2>2. Cardinality(Failures(a) \cup Completions(a)) = h.total
    BY <1>2, <2>1, Zenon DEF Tracks
  <2>3. Cardinality(Failures(a)) = h.failed
    BY <1>2, <1>3, Zenon DEF Tracks
  <2> HIDE DEF l, h
  <2> QED BY <2>2, <2>3 DEF ErrorProne
<1>7. SecondsSpent(a) = h.latency /\ Cardinality(Completions(a)) = h.samples
  <2>1. SecondsSpent(a) = Cardinality(Spent(l))
    BY <1>3, Zenon DEF SecondsSpent, Spent
  <2> QED BY <1>2, <1>3, <2>1, Zenon DEF Tracks
<1>8. (\A i \in DOMAIN l : l[i].what # "drain") <=> h.status # "DRAINING"
  <2>1. h.status = "DRAINING" <=> Marked(l, 1, {"drain"}) # {}
    BY <1>2 DEF Tracks
  <2> HIDE DEF h, l
  <2> QED BY <1>1, <2>1 DEF Marked
<1> QED BY <1>4, <1>5, <1>6, <1>7, <1>8

\* The ranking takes the agents that suit an errand, and their scores are in
\* the order of their worth.
LEMMA RankingMeans ==
  ASSUME RegistryInv, NEW a \in Registered, NEW t \in Errands
  PROVE  /\ Eligible(a, t) <=> a \in Suited(t)
         /\ Score(a, t) \in Int /\ Score(a, t) <= 180
         /\ a \in Suited(t) => Score(a, t) = Worth(a, t) + 110
<1> DEFINE h == tracker[a]
<1>1. a \in AgentId /\ h \in Trackers
  BY OwnedKnown DEF RegistryInv, RegistryTypes
<1>2. /\ h.active \in Nat /\ h.total \in Nat /\ h.failed \in Nat /\ h.streak \in Nat
      /\ h.samples \in Nat /\ h.latency \in Nat /\ h.status \in Statuses /\ h.fresh \in BOOLEAN
      /\ {MaxStreak, MaxActive, MinSample} \subseteq Nat \ {0}
  BY <1>1, RegistryAssumption DEF Trackers
<1>3. /\ FailuresInARow(a) = h.streak /\ SessionsActive(a) = h.active
      /\ ErrorProne(a) <=> (h.total >= MinSample /\ 4 * h.failed > h.total)
      /\ SecondsSpent(a) = h.latency /\ Cardinality(Completions(a)) = h.samples
      /\ (\A i \in DOMAIN log[a] : log[a][i].what # "drain") <=> h.status # "DRAINING"
  BY <1>1, CountersMean
<1> HIDE DEF h
<1>4. Health(h) \notin {"OFFLINE", "UNHEALTHY", "DRAINING"} <=>
          (h.status # "DRAINING" /\ h.fresh /\ h.streak < MaxStreak)
  BY <1>2 DEF Health
<1>5. Eligible(a, t) <=> a \in Suited(t)
  BY <1>3, <1>4 DEF Eligible, Suited, h
<1>6. Slowness(h.latency, h.samples) \in 0..20
  <2>1. h.samples # 0 => h.latency \div h.samples \in Nat
    BY <1>2
  <2> QED BY <2>1 DEF Slowness
<1> DEFINE slow == Slowness(h.latency, h.samples)
           fits == IF catalog[a].offer.provider = t.provider THEN 30 ELSE 0
<1>7. Score(a, t) = 100 + (IF Health(h) = "HEALTHY" THEN 50 ELSE 10) + fits - 10 * h.active - slow
  BY DEF Score, h
<1>8. Worth(a, t) = (IF h.active >= MaxActive \/ ErrorProne(a) THEN 0 ELSE 40)
                       + fits - 10 * h.active - slow
  BY <1>3 DEF Worth
<1>9. fits \in {0, 30}
  OBVIOUS
<1> HIDE DEF slow, fits
<1>10. Score(a, t) \in Int /\ Score(a, t) <= 180
  BY <1>2, <1>6, <1>7, <1>9 DEF slow
<1>11. ASSUME a \in Suited(t) PROVE Score(a, t) = Worth(a, t) + 110
  <2>1. h.status # "DRAINING" /\ h.fresh /\ h.streak < MaxStreak
    BY <1>3, <1>11 DEF Suited, h
  <2>2. h.failed * 100 > 25 * h.total <=> 4 * h.failed > h.total
    BY <1>2
  <2>3. Health(h) = "HEALTHY" <=> ~(h.active >= MaxActive \/ ErrorProne(a))
    BY <1>2, <1>3, <2>1, <2>2 DEF Health
  <2> QED BY <1>2, <1>6, <1>7, <1>8, <1>9, <2>3 DEF slow
<1> QED BY <1>5, <1>10, <1>11

\* FindBest by places and the best by score are one agent.
LEMMA BestIsFound == ASSUME RegistryInv PROVE BestServes
<1> SUFFICES ASSUME NEW t \in Errands
             PROVE  IF Suited(t) = {} THEN FindBest(t) = NoAgent
                    ELSE /\ FindBest(t) \in Suited(t)
                         /\ \A a \in Suited(t) : Worth(a, t) <= Worth(FindBest(t), t)
  BY DEF BestServes
<1> DEFINE ranked == {i \in DOMAIN order : Eligible(order[i], t)}
           best == {i \in ranked : \A j \in ranked : Score(order[j], t) <= Score(order[i], t)}
<1>1. FindBest(t) = IF ranked = {} THEN NoAgent ELSE order[Min(best)]
  BY DEF FindBest
<1>2. Suited(t) \subseteq Registered
  BY DEF Suited
<1>3. /\ \A i \in ranked : order[i] \in Suited(t)
      /\ \A a \in Suited(t) : \E i \in ranked : order[i] = a
      /\ ranked \subseteq Nat
  <2>1. \A i \in DOMAIN order : order[i] \in Registered
    BY DEF RegistryInv, OrderInv
  <2>2. \A a \in Registered : \E i \in DOMAIN order : order[i] = a
    BY DEF RegistryInv, OrderInv
  <2>3. \A a \in Registered : Eligible(a, t) <=> a \in Suited(t)
    BY RankingMeans
  <2>4. DOMAIN order \subseteq Nat
    BY DEF RegistryInv, RegistryTypes
  <2> QED BY <1>2, <2>1, <2>2, <2>3, <2>4
<1>4. \A a \in Suited(t) : /\ Score(a, t) \in Int /\ Score(a, t) <= 180
                           /\ Score(a, t) = Worth(a, t) + 110
  BY <1>2, RankingMeans
<1>5. \A a \in Suited(t) : Worth(a, t) \in Int
  <2> TAKE a \in Suited(t)
  <2>1. a \in Registered /\ tracker[a].active \in Nat /\ SessionsActive(a) = tracker[a].active
        /\ SecondsSpent(a) = tracker[a].latency /\ tracker[a].latency \in Nat
        /\ Cardinality(Completions(a)) = tracker[a].samples /\ tracker[a].samples \in Nat
    <3>1. a \in AgentId /\ tracker[a] \in Trackers
      BY <1>2, OwnedKnown DEF RegistryInv, RegistryTypes
    <3> QED BY <1>2, <3>1, CountersMean DEF Trackers
  <2>2. Slowness(tracker[a].latency, tracker[a].samples) \in 0..20
    <3>1. tracker[a].samples # 0 => tracker[a].latency \div tracker[a].samples \in Nat
      BY <2>1
    <3> QED BY <3>1 DEF Slowness
  <2> QED BY <2>1, <2>2 DEF Worth
<1> HIDE DEF ranked
<1>6. CASE ranked = {}
  BY <1>1, <1>3, <1>6
<1>7. CASE ranked # {}
  <2> DEFINE short == {180 - Score(order[i], t) : i \in ranked}
  <2>1. short \in SUBSET Nat /\ short # {}
    <3>1. \A i \in ranked : 180 - Score(order[i], t) \in Nat
      <4> TAKE i \in ranked
      <4>1. Score(order[i], t) \in Int /\ Score(order[i], t) <= 180
        BY <1>3, <1>4
      <4> QED BY <4>1
    <3> QED BY <1>7, <3>1
  <2>2. PICK n \in short : \A m \in short : n <= m
    <3> HIDE DEF short
    <3> QED BY <2>1, LeastExists
  <2>3. PICK i \in ranked : n = 180 - Score(order[i], t)
    OBVIOUS
  <2>4. i \in best
    <3> SUFFICES ASSUME NEW j \in ranked PROVE Score(order[j], t) <= Score(order[i], t)
      OBVIOUS
    <3>1. 180 - Score(order[i], t) <= 180 - Score(order[j], t)
      BY <2>2, <2>3
    <3> QED BY <1>3, <1>4, <3>1
  <2>5. best \in SUBSET Nat /\ best # {}
    BY <1>3, <2>4
  <2>6. Min(best) \in best
    <3> HIDE DEF best
    <3>1. PICK x \in best : \A y \in best : x <= y
      BY <2>5, LeastExists
    <3> QED BY <3>1 DEF Min
  <2> DEFINE b == Min(best)
  <2>7. b \in ranked /\ \A j \in ranked : Score(order[j], t) <= Score(order[b], t)
    BY <2>6
  <2>8. FindBest(t) = order[b]
    BY <1>1, <1>7
  <2> HIDE DEF b, best, short
  <2>9. order[b] \in Suited(t)
    BY <1>3, <2>7
  <2>10. ASSUME NEW a \in Suited(t) PROVE Worth(a, t) <= Worth(order[b], t)
    <3>1. PICK j \in ranked : order[j] = a
      BY <1>3
    <3>2. Score(a, t) <= Score(order[b], t)
      BY <2>7, <3>1
    <3> QED BY <1>4, <1>5, <2>9, <3>2
  <2> QED BY <2>8, <2>9, <2>10
<1> QED BY <1>6, <1>7

\* The best agent is found whatever was recorded before, the two listings of a
\* tenant agree but for agents moved to another tenant, and nobody may do to an
\* agent what they may not find.
THEOREM RegistryAlwaysServes == RegistrySpec => []RegistryServes
<1>1. ASSUME RegistryInv PROVE IndexAgrees
  <2> SUFFICES ASSUME NEW t \in Tenants, NEW a \in Registered \ moved
               PROVE  a \in ListByTenant(t)
                        <=> (a \in DiscoverTenant(t) /\ catalog[a].ownership.tenant = t)
    BY DEF IndexAgrees
  <2>1. a \in AgentId \ moved
    BY DEF Registered
  <2>2. a \in tenantIndex[t] <=> (a \in Registered /\ catalog[a].ownership.tenant = t)
    BY <1>1, <2>1 DEF RegistryInv, IndexInv
  <2> QED BY <2>2 DEF ListByTenant, DiscoverTenant
<1>2. RightsNested
  <2> SUFFICES ASSUME NEW a \in Registered, NEW c \in Contexts
               PROVE  /\ CanExecute(catalog[a].ownership, c) => a \in DiscoverFor(c)
                      /\ MayDelete(a, c) => MayUpdate(a, c)
                      /\ (a \in DiscoverFor(c) /\ catalog[a].ownership.visibility # "PUBLIC_SYSTEM")
                            => c.tenant = catalog[a].ownership.tenant
    BY DEF RightsNested
  <2>1. CanDelete(catalog[a].ownership, c) => CanModify(catalog[a].ownership, c)
    BY DEF CanDelete, CanModify
  <2> QED BY <2>1 DEF CanExecute, DiscoverFor, CanRead, MayDelete, MayUpdate
<1>3. RegistryInv => RegistryServes
  BY <1>1, <1>2, BestIsFound DEF RegistryServes
<1> QED BY <1>3, RegistryInvariant, PTL

-----------------------------------------------------------------------------
(***************************************************************************)
(* The simulation engine.                                                  *)
(***************************************************************************)

\* The places of the mutations and events that have run.
Ran == {p \in DOMAIN Items(scenario) : \A i \in DOMAIN tasks : tasks[i].place # p}

Sets(x, p, k) == Items(x)[p].results # <<>> /\ k \in DOMAIN Written(x, p)

\* The queue is in the order of time, and tasks of the scenario at one time are
\* in that of the scenario.
InOrder(t, u) ==
    \/ t.time < u.time
    \/ t.time = u.time /\ (t.place = 0 \/ u.place = 0 \/ t.place < u.place)
QueueOf(x, queue) ==
    /\ queue \in Seq([time : Nat, place : 0..Len(Items(x))])
    /\ \A i, j \in DOMAIN queue : i < j => InOrder(queue[i], queue[j])
    /\ \A i \in DOMAIN queue : queue[i].place # 0 => queue[i].time = Items(x)[queue[i].place].time

\* Between what has run and what is queued lies the time of the clock.
ClockInv ==
    /\ settled \in Int /\ virtualTime \in Nat /\ currentTime \in 0..virtualTime
    /\ \A i \in DOMAIN tasks : tasks[i].time >= currentTime /\ tasks[i].time > settled
    /\ \A p \in Ran :
           /\ Items(scenario)[p].time <= currentTime
           /\ \A i \in DOMAIN tasks : tasks[i].place # 0 => Before(p, tasks[i].place)

\* A property no rule writes is what the last task that wrote it has made it.
LastOf(p, k) ==
    p \in Ran /\ Sets(scenario, p, k)
      /\ \A q \in Ran : Sets(scenario, q, k) => q = p \/ Before(q, p)
ModelInv ==
    /\ model \in [Key -> Nat]
    /\ \A k \in Key \ OfRules :
           /\ (\A p \in Ran : ~Sets(scenario, p, k)) => model[k] = 0
           /\ \A p \in Ran : LastOf(p, k) => model[k] = Written(scenario, p)[k]

SimulationInv ==
    /\ scenario \in Scenarios
    /\ QueueOf(scenario, tasks)
    /\ ClockInv
    /\ ModelInv


LEMMA SplitIndex ==
  ASSUME NEW a \in Nat, NEW b \in Nat, NEW i \in 1..a + b
  PROVE  (i <= a => i \in 1..a) /\ (~(i <= a) => i - a \in 1..b)
OBVIOUS

-----------------------------------------------------------------------------
\* What a scenario lists.
LEMMA ItemsTyped ==
  ASSUME NEW x \in Scenarios
  PROVE  /\ Len(Items(x)) \in Nat /\ DOMAIN Items(x) = 1..Len(Items(x))
         /\ \A i \in 1..Len(Items(x)) :
                /\ Items(x)[i].time \in Nat
                /\ Items(x)[i].children \in Nat
                /\ IsSequence(Items(x)[i].results)
                /\ \A j \in DOMAIN Items(x)[i].results : IsUpdate(Items(x)[i].results[j])
<1> DEFINE first == [i \in DOMAIN x.mutations |-> Mutation(x.mutations[i])]
           M == {x.mutations[i] : i \in DOMAIN x.mutations}
           E == {x.events[i] : i \in DOMAIN x.events}
           F == {Mutation(m) : m \in M}
<1>1. x.mutations \in Seq(M) /\ x.events \in Seq(E)
  BY SimulationAssumption DEF IsSequence
<1> HIDE DEF M, E, F
<1>2. /\ Len(x.mutations) \in Nat /\ DOMAIN x.mutations = 1..Len(x.mutations)
      /\ Len(x.events) \in Nat /\ DOMAIN x.events = 1..Len(x.events)
      /\ \A i \in 1..Len(x.mutations) : x.mutations[i] \in M
  BY <1>1, ElementOfSeq
<1>3. first \in Seq(F) /\ Len(first) = Len(x.mutations) /\ DOMAIN first = 1..Len(x.mutations)
  <2>1. first = [i \in 1..Len(x.mutations) |-> Mutation(x.mutations[i])]
    BY <1>2
  <2>2. \A i \in 1..Len(x.mutations) : Mutation(x.mutations[i]) \in F
    BY <1>2 DEF F
  <2> QED BY <2>1, <2>2, <1>2, IsASeq
<1>4. \A i \in 1..Len(x.mutations) : first[i] = Mutation(x.mutations[i])
  BY <1>2
<1> HIDE DEF first
<1> DEFINE S == F \cup E
<1>5. first \in Seq(S) /\ x.events \in Seq(S)
  <2>1. F \subseteq S /\ E \subseteq S
    OBVIOUS
  <2> HIDE DEF S
  <2> QED BY <2>1, <1>1, <1>3, SeqMonotonic
<1> HIDE DEF S
<1>6. Items(x) = first \o x.events
  BY DEF Items, first
<1>7. /\ Items(x) \in Seq(S) /\ Len(Items(x)) = Len(x.mutations) + Len(x.events)
      /\ \A i \in 1..Len(x.mutations) + Len(x.events) :
             Items(x)[i] = IF i <= Len(x.mutations) THEN first[i] ELSE x.events[i - Len(x.mutations)]
  <2>1. /\ first \o x.events \in Seq(S)
        /\ Len(first \o x.events) = Len(first) + Len(x.events)
        /\ \A i \in 1..Len(first) + Len(x.events) :
               (first \o x.events)[i] = IF i <= Len(first) THEN first[i]
                                        ELSE x.events[i - Len(first)]
    BY <1>5, ConcatProperties
  <2> QED BY <2>1, <1>3, <1>6
<1>8. Len(Items(x)) \in Nat /\ DOMAIN Items(x) = 1..Len(Items(x))
  BY <1>7, LenProperties
<1>10. /\ Len(x.mutations) \in Nat /\ Len(x.events) \in Nat
       /\ 1..Len(Items(x)) = 1..Len(x.mutations) + Len(x.events)
  BY <1>2, <1>7
<1>9. ASSUME NEW i \in 1..Len(x.mutations) + Len(x.events)
      PROVE  /\ Items(x)[i].time \in Nat
             /\ Items(x)[i].children \in Nat
             /\ IsSequence(Items(x)[i].results)
             /\ \A j \in DOMAIN Items(x)[i].results : IsUpdate(Items(x)[i].results[j])
  <2>1. CASE i <= Len(x.mutations)
    <3>1. i \in 1..Len(x.mutations) + Len(x.events) /\ i \in 1..Len(x.mutations)
      BY <2>1, <1>10, SplitIndex, Zenon
    <3>2. i \in DOMAIN x.mutations /\ Items(x)[i] = Mutation(x.mutations[i])
      BY <2>1, <3>1, <1>2, <1>4, <1>7, Zenon
    <3>3. x.mutations[i].time \in Nat /\ IsUpdate(x.mutations[i].updates)
      BY <3>2, SimulationAssumption
    <3>4. /\ Items(x)[i].time = x.mutations[i].time /\ Items(x)[i].children = 0
          /\ Items(x)[i].results = <<x.mutations[i].updates>>
      BY <3>2 DEF Mutation
    <3>5. /\ <<x.mutations[i].updates>> \in Seq({x.mutations[i].updates})
          /\ DOMAIN <<x.mutations[i].updates>> = {1}
          /\ <<x.mutations[i].updates>>[1] = x.mutations[i].updates
      OBVIOUS
    <3>6. IsSequence(<<x.mutations[i].updates>>)
      BY <3>5 DEF IsSequence
    <3> QED BY <3>3, <3>4, <3>5, <3>6
  <2>2. CASE ~(i <= Len(x.mutations))
    <3>1. i \in 1..Len(x.mutations) + Len(x.events) /\ i - Len(x.mutations) \in 1..Len(x.events)
      BY <2>2, <1>10, SplitIndex, Zenon
    <3>2. i - Len(x.mutations) \in DOMAIN x.events /\ Items(x)[i] = x.events[i - Len(x.mutations)]
      BY <2>2, <3>1, <1>2, <1>7, Zenon
    <3> QED BY <3>2, SimulationAssumption
  <2> QED BY <2>1, <2>2
<1> QED BY <1>8, <1>9, <1>10, Zenon


-----------------------------------------------------------------------------
\* Insertion into the queue.

\* What a queue holds after an insertion, and where.
Slot(x) == [time : Nat, place : 0..Len(Items(x))]

LEMMA QueueTyped ==
  ASSUME NEW x \in Scenarios, NEW queue, QueueOf(x, queue)
  PROVE  /\ queue \in Seq(Slot(x)) /\ Len(queue) \in Nat /\ DOMAIN queue = 1..Len(queue)
         /\ \A i \in 1..Len(queue) :
                queue[i] \in Slot(x) /\ queue[i].time \in Nat /\ queue[i].place \in Nat
<1>1. queue \in Seq(Slot(x))
  BY DEF QueueOf, Slot
<1>2. \A t \in Slot(x) : t.time \in Nat /\ t.place \in Nat
  BY ItemsTyped DEF Slot
<1>3. \A i \in 1..Len(queue) : queue[i] \in Slot(x)
  BY <1>1, ElementOfSeq
<1>4. Len(queue) \in Nat /\ DOMAIN queue = 1..Len(queue)
  BY <1>1, LenProperties
<1> QED BY <1>1, <1>2, <1>3, <1>4

LEMMA IndexMeans ==
  ASSUME NEW x \in Scenarios, NEW queue, QueueOf(x, queue), NEW time \in Nat
  PROVE  LET at == InsertIndex(queue, time)
         IN  /\ at \in 1..Len(queue) + 1
             /\ \A i \in DOMAIN queue : i < at => queue[i].time <= time
             /\ \A i \in DOMAIN queue : i >= at => queue[i].time > time
<1> DEFINE behind == {i \in DOMAIN queue : queue[i].time > time}
           at == InsertIndex(queue, time)
<1>1. Len(queue) \in Nat /\ DOMAIN queue = 1..Len(queue)
  BY QueueTyped
<1>2. \A i \in DOMAIN queue : queue[i].time \in Nat
  BY <1>1, QueueTyped
<1>3. \A i, j \in DOMAIN queue : i < j => queue[i].time <= queue[j].time
  BY <1>2 DEF QueueOf, InOrder
<1>4. CASE behind = {}
  <2>1. at = Len(queue) + 1
    BY <1>4 DEF InsertIndex
  <2> QED BY <2>1, <1>1, <1>2, <1>4
<1>5. CASE behind # {}
  <2>1. at = Min(behind)
    BY <1>5 DEF InsertIndex
  <2>2. behind \in SUBSET Nat
    BY <1>1
  <2>3. \E m \in behind : \A y \in behind : m <= y
    BY <1>5, <2>2, LeastExists
  <2>4. at \in behind /\ \A y \in behind : at <= y
    BY <2>1, <2>3 DEF Min
  <2> HIDE DEF at
  <2>5. at \in DOMAIN queue /\ queue[at].time > time
    BY <2>4
  <2>6. ASSUME NEW i \in DOMAIN queue, i < at PROVE queue[i].time <= time
    <3>1. i \notin behind
      BY <2>4, <2>5, <2>6, <1>1
    <3> QED BY <3>1, <1>2
  <2>7. ASSUME NEW i \in DOMAIN queue, i >= at PROVE queue[i].time > time
    BY <2>5, <2>7, <1>1, <1>2, <1>3
  <2>8. at \in 1..Len(queue) + 1
    BY <2>5, <1>1
  <2> QED BY <2>6, <2>7, <2>8 DEF at
<1> QED BY <1>4, <1>5

LEMMA InsertMeans ==
  ASSUME NEW x \in Scenarios, NEW queue, QueueOf(x, queue), NEW time \in Nat,
         NEW new \in Seq(Slot(x))
  PROVE  /\ Insert(queue, time, new) \in Seq(Slot(x))
         /\ Len(Insert(queue, time, new)) = Len(queue) + Len(new)
         /\ \A i \in 1..Len(queue) + Len(new) :
                Insert(queue, time, new)[i] =
                    IF i < InsertIndex(queue, time) THEN queue[i]
                    ELSE IF i < InsertIndex(queue, time) + Len(new)
                    THEN new[i - InsertIndex(queue, time) + 1]
                    ELSE queue[i - Len(new)]
<1> DEFINE at == InsertIndex(queue, time)
           n == Len(queue)
           m == Len(new)
           front == SubSeq(queue, 1, at - 1)
           rest == SubSeq(queue, at, n)
           joined == front \o new
<1>1. at \in 1..n + 1
  BY IndexMeans
<1>2. n \in Nat /\ m \in Nat /\ \A i \in 1..n : queue[i] \in Slot(x)
  BY QueueTyped, LenProperties
<1> HIDE DEF at, n, m
<1>3. /\ front \in Seq(Slot(x)) /\ Len(front) = at - 1
      /\ \A i \in 1..at - 1 : front[i] = queue[i]
  <2>1. /\ 1 \in Int /\ at - 1 \in Int /\ \A i \in 1..at - 1 : queue[i] \in Slot(x)
        /\ (IF 1 <= at - 1 THEN at - 1 - 1 + 1 ELSE 0) = at - 1
        /\ at - 1 - 1 + 1 = at - 1 /\ \A i \in 1..at - 1 : 1 + i - 1 = i
    BY <1>1, <1>2
  <2>2. /\ front \in Seq(Slot(x)) /\ Len(front) = IF 1 <= at - 1 THEN at - 1 - 1 + 1 ELSE 0
        /\ \A i \in 1..at - 1 - 1 + 1 : front[i] = queue[1 + i - 1]
    BY <2>1, SubSeqProperties
  <2> HIDE DEF front
  <2> QED BY <2>1, <2>2
<1>4. /\ rest \in Seq(Slot(x)) /\ Len(rest) = n - at + 1
      /\ \A i \in 1..n - at + 1 : rest[i] = queue[at + i - 1]
  <2>1. /\ at \in Int /\ n \in Int /\ \A i \in at..n : queue[i] \in Slot(x)
        /\ (IF at <= n THEN n - at + 1 ELSE 0) = n - at + 1
    BY <1>1, <1>2
  <2>2. /\ rest \in Seq(Slot(x)) /\ Len(rest) = IF at <= n THEN n - at + 1 ELSE 0
        /\ \A i \in 1..n - at + 1 : rest[i] = queue[at + i - 1]
    BY <2>1, SubSeqProperties
  <2> HIDE DEF rest
  <2> QED BY <2>1, <2>2
<1>5. Insert(queue, time, new) = joined \o rest
  BY DEF Insert, at, n
<1> HIDE DEF front, rest
<1>6. /\ joined \in Seq(Slot(x)) /\ Len(joined) = at - 1 + m
      /\ \A i \in 1..at - 1 + m : joined[i] = IF i <= at - 1 THEN front[i] ELSE new[i - (at - 1)]
  <2>1. /\ joined \in Seq(Slot(x)) /\ Len(joined) = Len(front) + Len(new)
        /\ \A i \in 1..Len(front) + Len(new) :
               joined[i] = IF i <= Len(front) THEN front[i] ELSE new[i - Len(front)]
    BY <1>3, ConcatProperties
  <2> QED BY <2>1, <1>3 DEF m
<1> HIDE DEF joined
<1>7. /\ joined \o rest \in Seq(Slot(x)) /\ Len(joined \o rest) = n + m
      /\ \A i \in 1..n + m : (joined \o rest)[i] = IF i <= at - 1 + m THEN joined[i]
                                                   ELSE rest[i - (at - 1 + m)]
  <2>1. /\ joined \o rest \in Seq(Slot(x)) /\ Len(joined \o rest) = Len(joined) + Len(rest)
        /\ \A i \in 1..Len(joined) + Len(rest) :
               (joined \o rest)[i] = IF i <= Len(joined) THEN joined[i] ELSE rest[i - Len(joined)]
    BY <1>4, <1>6, ConcatProperties
  <2>2. Len(joined) + Len(rest) = n + m
    BY <1>1, <1>2, <1>4, <1>6
  <2> QED BY <2>1, <2>2, <1>6
<1> DEFINE after == joined \o rest
<1> HIDE DEF after
<1>8. ASSUME NEW i \in 1..n + m
      PROVE  after[i] = IF i < at THEN queue[i]
                        ELSE IF i < at + m THEN new[i - at + 1] ELSE queue[i - m]
  <2>1. i \in Int /\ at \in Int /\ n \in Int /\ m \in Int /\ 1 <= i /\ i <= n + m
    BY <1>1, <1>2
  <2>2. CASE i < at
    <3>1. i <= at - 1 + m /\ i <= at - 1 /\ i \in 1..at - 1 + m /\ i \in 1..at - 1
      BY <2>1, <2>2, <1>2
    <3> QED BY <2>2, <3>1, <1>3, <1>6, <1>7, Zenon DEF after
  <2>3. CASE ~(i < at) /\ i < at + m
    <3>1. /\ i <= at - 1 + m /\ ~(i <= at - 1) /\ i \in 1..at - 1 + m
          /\ i - (at - 1) = i - at + 1
      BY <2>1, <2>3, <1>2
    <3> QED BY <2>3, <3>1, <1>6, <1>7, Zenon DEF after
  <2>4. CASE ~(i < at) /\ ~(i < at + m)
    <3>1. /\ ~(i <= at - 1 + m) /\ i - (at - 1 + m) \in 1..n - at + 1
          /\ at + (i - (at - 1 + m)) - 1 = i - m
      BY <2>1, <2>4, <1>2
    <3> QED BY <2>4, <3>1, <1>4, <1>7, Zenon DEF after
  <2> QED BY <2>1, <2>2, <2>3, <2>4
<1> QED BY <1>5, <1>7, <1>8 DEF after, at, n, m

\* A queue stays in order when tasks are inserted whose places are 0, or when one
\* is whose place is behind all others'.
LEMMA InsertKeepsOrder ==
  ASSUME NEW x \in Scenarios, NEW queue, QueueOf(x, queue), NEW time \in Nat, 
         NEW new \in Seq(Slot(x)), \A i \in DOMAIN new : new[i].time = time,
         \/ \A i \in DOMAIN new : new[i].place = 0
         \/ /\ Len(new) = 1 /\ new[1].place # 0
            /\ Items(x)[new[1].place].time = time
            /\ \A i \in DOMAIN queue : queue[i].place < new[1].place
  PROVE  /\ QueueOf(x, Insert(queue, time, new))
         /\ \A i \in DOMAIN Insert(queue, time, new) :
                \/ \E j \in DOMAIN queue : Insert(queue, time, new)[i] = queue[j]
                \/ \E j \in DOMAIN new : Insert(queue, time, new)[i] = new[j]
         /\ \A j \in DOMAIN queue : \E i \in DOMAIN Insert(queue, time, new) :
                Insert(queue, time, new)[i] = queue[j]
         /\ \A j \in DOMAIN new : \E i \in DOMAIN Insert(queue, time, new) :
                Insert(queue, time, new)[i] = new[j]
<1> DEFINE after == Insert(queue, time, new)
           at == InsertIndex(queue, time)
           n == Len(new)
<1>1. /\ after \in Seq(Slot(x))
      /\ Len(after) = Len(queue) + n
      /\ \A i \in 1..Len(queue) + n :
             after[i] = IF i < at THEN queue[i]
                        ELSE IF i < at + n THEN new[i - at + 1] ELSE queue[i - n]
  BY InsertMeans, ZenonT(60)
<1>2. /\ at \in 1..Len(queue) + 1
      /\ \A i \in DOMAIN queue : i < at => queue[i].time <= time
      /\ \A i \in DOMAIN queue : i >= at => queue[i].time > time
  BY IndexMeans
<1>3. Len(queue) \in Nat /\ DOMAIN queue = 1..Len(queue) /\ n \in Nat /\ DOMAIN new = 1..n
  BY QueueTyped, LenProperties
<1>4. DOMAIN after = 1..Len(queue) + n
  BY <1>1, LenProperties
<1> DEFINE l == Len(queue)
<1> HIDE DEF after, at, n, l
<1>13. \A i \in DOMAIN after :
           after[i] = IF i < at THEN queue[i]
                      ELSE IF i < at + n THEN new[i - at + 1] ELSE queue[i - n]
  BY <1>1, <1>4
<1>5. ASSUME NEW i \in DOMAIN after
      PROVE  \/ i < at /\ i \in DOMAIN queue /\ after[i] = queue[i]
             \/ i >= at /\ i < at + n /\ i - at + 1 \in DOMAIN new /\ after[i] = new[i - at + 1]
             \/ i >= at + n /\ i - n \in DOMAIN queue /\ i - n >= at /\ after[i] = queue[i - n]
  <2>1. i \in 1..l + n /\ l \in Nat /\ n \in Nat /\ at \in 1..l + 1
    BY <1>2, <1>3, <1>4 DEF l
  <2>2. DOMAIN queue = 1..l /\ DOMAIN new = 1..n
    BY <1>3 DEF l
  <2>3. after[i] = IF i < at THEN queue[i]
                   ELSE IF i < at + n THEN new[i - at + 1] ELSE queue[i - n]
    BY <1>1, <2>1 DEF l
  <2> QED BY <2>1, <2>2, <2>3
<1>6. \A j \in DOMAIN new : new[j].time = time /\ new[j].place \in Nat
  <2>1. \A t \in Slot(x) : t.place \in Nat
    BY ItemsTyped DEF Slot
  <2>2. \A j \in DOMAIN new : new[j] \in Slot(x)
    BY <1>3, ElementOfSeq DEF n
  <2> QED BY <2>1, <2>2
<1>7. ASSUME NEW i \in DOMAIN after, NEW j \in DOMAIN after, i < j
      PROVE  InOrder(after[i], after[j])
  <2>1. i \in Int /\ j \in Int
    BY <1>3, <1>4
  <2>2. \A a, b \in DOMAIN queue : a < b => InOrder(queue[a], queue[b])
    BY DEF QueueOf
  <2>3. \A a \in DOMAIN queue : queue[a].time \in Nat /\ queue[a].place \in Nat
    BY QueueTyped, <1>3
  <2>4. CASE i < at
    <3>1. i \in DOMAIN queue /\ after[i] = queue[i] /\ queue[i].time <= time
      BY <2>4, <1>5, <1>2, <1>3, <2>1
    <3>2. CASE j < at
      BY <3>1, <3>2, <1>7, <1>5, <2>2, <2>1, <1>2, <1>3
    <3>3. CASE j >= at /\ j < at + n
      <4>1. j - at + 1 \in DOMAIN new /\ after[j] = new[j - at + 1]
        BY <3>3, <1>5, <1>2, <1>3, <2>1
      <4>2. \/ new[j - at + 1].place = 0
            \/ queue[i].place < new[j - at + 1].place
        BY <4>1, <3>1, <1>3, <1>6 DEF n
      <4> QED BY <4>1, <4>2, <3>1, <1>6, <2>3 DEF InOrder
    <3>4. CASE j >= at + n
      <4>1. j - n \in DOMAIN queue /\ j - n >= at /\ after[j] = queue[j - n]
        BY <3>4, <1>5, <1>2, <1>3, <2>1
      <4> QED BY <4>1, <3>1, <2>4, <2>1, <2>2, <1>2, <1>3
    <3> QED BY <3>2, <3>3, <3>4, <2>1, <1>2, <1>3
  <2>5. CASE i >= at /\ i < at + n
    <3>1. i - at + 1 \in DOMAIN new /\ after[i] = new[i - at + 1]
      BY <2>5, <1>5, <1>2, <1>3, <2>1
    <3>2. CASE j < at + n
      <4>1. j - at + 1 \in DOMAIN new /\ after[j] = new[j - at + 1] /\ i - at + 1 # j - at + 1
        BY <3>2, <2>5, <1>7, <1>5, <1>2, <1>3, <2>1
      <4>2. new[i - at + 1].place = 0
        BY <4>1, <3>1, <1>3 DEF n
      <4> QED BY <4>1, <4>2, <3>1, <1>6 DEF InOrder
    <3>3. CASE j >= at + n
      <4>1. j - n \in DOMAIN queue /\ j - n >= at /\ after[j] = queue[j - n]
        BY <3>3, <1>5, <1>2, <1>3, <2>1
      <4>2. queue[j - n].time > time
        BY <4>1, <1>2
      <4> QED BY <4>1, <4>2, <3>1, <1>6, <2>3 DEF InOrder
    <3> QED BY <3>2, <3>3, <2>1, <1>2, <1>3
  <2>6. CASE i >= at + n
    <3>1. i - n \in DOMAIN queue /\ after[i] = queue[i - n]
      BY <2>6, <1>5, <1>2, <1>3, <2>1
    <3>2. j - n \in DOMAIN queue /\ after[j] = queue[j - n] /\ i - n < j - n
      BY <2>6, <1>7, <1>5, <1>2, <1>3, <2>1
    <3> QED BY <3>1, <3>2, <2>2
  <2> QED BY <2>4, <2>5, <2>6, <2>1, <1>2, <1>3
<1>8. ASSUME NEW i \in DOMAIN after
      PROVE  \/ \E j \in DOMAIN queue : after[i] = queue[j]
             \/ \E j \in DOMAIN new : after[i] = new[j]
  BY <1>5
<1>9. ASSUME NEW i \in DOMAIN after, after[i].place # 0
      PROVE  after[i].time = Items(x)[after[i].place].time
  <2>1. CASE \E j \in DOMAIN queue : after[i] = queue[j]
    BY <2>1, <1>9 DEF QueueOf
  <2>2. CASE \E j \in DOMAIN new : after[i] = new[j]
    <3>1. PICK j \in DOMAIN new : after[i] = new[j]
      BY <2>2
    <3>2. n = 1 /\ Items(x)[new[1].place].time = time
      BY <3>1, <1>9 DEF n
    <3>3. j = 1
      BY <3>1, <3>2, <1>3
    <3> QED BY <3>1, <3>2, <3>3, <1>6
  <2> QED BY <2>1, <2>2, <1>8
<1>10. ASSUME NEW j \in DOMAIN queue PROVE \E i \in DOMAIN after : after[i] = queue[j]
  <2>1. CASE j < at
    <3>1. j \in DOMAIN after /\ after[j] = queue[j]
      BY <2>1, <1>1, <1>3, <1>4
    <3> QED BY <3>1
  <2>2. CASE j >= at
    <3> DEFINE i == j + n
    <3>1. i \in DOMAIN after /\ ~(i < at) /\ ~(i < at + n) /\ i - n = j
      BY <2>2, <1>2, <1>3, <1>4
    <3> HIDE DEF i
    <3>2. after[i] = queue[j]
      BY <3>1, <1>13
    <3> QED BY <3>1, <3>2
  <2> QED BY <2>1, <2>2, <1>2, <1>3
<1>11. ASSUME NEW j \in DOMAIN new PROVE \E i \in DOMAIN after : after[i] = new[j]
  <2> DEFINE i == at + j - 1
  <2>3. j \in 1..n /\ n \in Nat /\ l \in Nat /\ at \in 1..l + 1 /\ DOMAIN after = 1..l + n
    BY <1>2, <1>3, <1>4 DEF l
  <2>1. i \in DOMAIN after /\ ~(i < at) /\ i < at + n /\ i - at + 1 = j
    <3>1. at \in Int /\ j \in Int /\ 1 <= at /\ at <= l + 1 /\ 1 <= j /\ j <= n
      BY <2>3
    <3>2. i \in 1..l + n /\ ~(i < at) /\ i < at + n /\ i - at + 1 = j
      BY <3>1, <2>3
    <3> QED BY <3>2, <2>3
  <2> HIDE DEF i
  <2>2. after[i] = new[j]
    BY <2>1, <1>13
  <2> QED BY <2>1, <2>2
<1>12. QueueOf(x, after)
  BY <1>1, <1>7, <1>9 DEF QueueOf, Slot
<1> QED BY <1>8, <1>10, <1>11, <1>12 DEF after


\* The tasks of the scenario are queued in order, each once.
LEMMA AllScheduled ==
  ASSUME NEW x \in Scenarios
  PROVE  /\ QueueOf(x, Scheduled(x))
         /\ \A p \in 1..Len(Items(x)) :
                \E i \in DOMAIN Scheduled(x) : Scheduled(x)[i].place = p
         /\ \A i \in DOMAIN Scheduled(x) : Scheduled(x)[i].place # 0
<1> DEFINE N == Len(Items(x))
           Grows(f, n) ==
               f = [m \in 0..n |-> IF m = 0 THEN <<>>
                                   ELSE Insert(f[m - 1], Items(x)[m].time, <<Task(x, m)>>)]
           Good(q, n) ==
               /\ QueueOf(x, q)
               /\ \A i \in DOMAIN q : q[i].place \in 1..n
               /\ \A p \in 1..n : \E i \in DOMAIN q : q[i].place = p
<1>1. N \in Nat
  BY ItemsTyped
<1> HIDE DEF N
<1>2. ASSUME NEW n \in 1..N, NEW q, Good(q, n - 1)
      PROVE  Good(Insert(q, Items(x)[n].time, <<Task(x, n)>>), n)
  <2> DEFINE new == <<Task(x, n)>>
             time == Items(x)[n].time
             r == Insert(q, time, new)
  <2>1. time \in Nat /\ Task(x, n) \in Slot(x) /\ Task(x, n).time = time /\ Task(x, n).place = n
    BY <1>1, ItemsTyped DEF Task, Slot, N
  <2>2. /\ new \in Seq(Slot(x)) /\ Len(new) = 1 /\ DOMAIN new = {1} /\ new[1] = Task(x, n)
    BY <2>1
  <2>3. n \in Nat /\ n # 0 /\ \A k \in 1..n - 1 : k < n
    BY <1>1
  <2>4. \A i \in DOMAIN q : q[i].place < n
    BY <1>2, <2>3
  <2> HIDE DEF new, time
  <2>5. /\ QueueOf(x, r)
        /\ \A i \in DOMAIN r : \/ \E j \in DOMAIN q : r[i] = q[j]
                               \/ \E j \in DOMAIN new : r[i] = new[j]
        /\ \A j \in DOMAIN q : \E i \in DOMAIN r : r[i] = q[j]
        /\ \A j \in DOMAIN new : \E i \in DOMAIN r : r[i] = new[j]
    <3>1. QueueOf(x, q) /\ \A i \in DOMAIN new : new[i].time = time
      BY <1>2, <2>1, <2>2
    <3>2. new[1].place # 0 /\ Items(x)[new[1].place].time = time
      BY <2>1, <2>2, <2>3 DEF time
    <3>3. \A i \in DOMAIN q : q[i].place < new[1].place
      BY <2>1, <2>2, <2>4
    <3> QED BY <2>1, <2>2, <3>1, <3>2, <3>3, InsertKeepsOrder
  <2> HIDE DEF r
  <2>6. ASSUME NEW i \in DOMAIN r PROVE r[i].place \in 1..n
    <3>1. CASE \E j \in DOMAIN q : r[i] = q[j]
      BY <3>1, <1>2, <2>3
    <3>2. CASE \E j \in DOMAIN new : r[i] = new[j]
      BY <3>2, <2>1, <2>2, <2>3
    <3> QED BY <3>1, <3>2, <2>5
  <2>7. ASSUME NEW p \in 1..n PROVE \E i \in DOMAIN r : r[i].place = p
    <3>1. CASE p = n
      BY <3>1, <2>1, <2>2, <2>5
    <3>2. CASE p # n
      <4>1. p \in 1..n - 1
        BY <3>2, <2>3
      <4>2. PICK j \in DOMAIN q : q[j].place = p
        BY <4>1, <1>2
      <4> QED BY <4>2, <2>5
    <3> QED BY <3>1, <3>2
  <2> QED BY <2>5, <2>6, <2>7 DEF r, time, new
<1>3. Good(<<>>, 0)
  BY DEF QueueOf
<1> DEFINE Bad == {n \in 0..N : ~\E f : Grows(f, n) /\ \A m \in 0..n : Good(f[m], m)}
<1>4. Bad = {}
  <2> SUFFICES ASSUME Bad # {} PROVE FALSE
    OBVIOUS
  <2>1. PICK n \in Bad : \A m \in Bad : n <= m
    <3>1. Bad \in SUBSET Nat
      BY <1>1
    <3> HIDE DEF Bad
    <3> QED BY <3>1, LeastExists
  <2> HIDE DEF Good
  <2>2. n \in 0..N /\ n \in Nat
    BY <1>1
  <2>3. CASE n = 0
    <3> DEFINE f == [m \in 0..0 |-> <<>>]
    <3>1. f[0] = <<>> /\ 0..0 = {0}
      OBVIOUS
    <3>2. f = [m \in 0..0 |-> IF m = 0 THEN <<>>
                              ELSE Insert(f[m - 1], Items(x)[m].time, <<Task(x, m)>>)]
      BY <3>1
    <3>3. \A m \in 0..0 : Good(f[m], m)
      BY <3>1, <1>3
    <3> HIDE DEF f
    <3> QED BY <2>1, <2>3, <3>2, <3>3
  <2>4. CASE n # 0
    <3>1. n - 1 \in 0..N /\ n - 1 \notin Bad /\ n \in 1..N /\ n - 1 \in 0..n - 1
      <4>1. n - 1 \in 0..N /\ ~(n <= n - 1) /\ n \in 1..N /\ n - 1 \in 0..n - 1
        BY <2>2, <2>4, <1>1
      <4> QED BY <4>1, <2>1
    <3>2. PICK f : Grows(f, n - 1) /\ \A m \in 0..n - 1 : Good(f[m], m)
      BY <3>1
    <3> DEFINE last == Insert(f[n - 1], Items(x)[n].time, <<Task(x, n)>>)
               g == [m \in 0..n |-> IF m = n THEN last ELSE f[m]]
    <3>3. Good(last, n)
      BY <3>1, <3>2, <1>2
    <3>4. \A m \in 0..n : m = n \/ m \in 0..n - 1
      BY <2>2
    <3>5. \A m \in 0..n : Good(g[m], m)
      BY <3>2, <3>3, <3>4
    <3>6. \A m \in 0..n : m # 0 => (m - 1 \in 0..n - 1 /\ m - 1 \in 0..n /\ m - 1 # n)
      BY <2>2
    <3>7. \A m \in 0..n : m # 0 => g[m - 1] = f[m - 1]
      BY <3>6
    <3>8. \A m \in 0..n - 1 : f[m] = IF m = 0 THEN <<>>
                                     ELSE Insert(f[m - 1], Items(x)[m].time, <<Task(x, m)>>)
      BY <3>2
    <3>9. \A m \in 0..n : g[m] = IF m = 0 THEN <<>>
                                 ELSE Insert(g[m - 1], Items(x)[m].time, <<Task(x, m)>>)
      <4> TAKE m \in 0..n
      <4>1. CASE m = n
        BY <4>1, <2>4, <3>7
      <4>2. CASE m # n
        BY <4>2, <3>4, <3>7, <3>8
      <4> QED BY <4>1, <4>2
    <3>10. Grows(g, n)
      <4>1. g = [m \in 0..n |-> g[m]]
        OBVIOUS
      <4> HIDE DEF g, last
      <4> QED BY <4>1, <3>9
    <3> HIDE DEF g, Grows
    <3> QED BY <2>1, <3>5, <3>10
  <2> QED BY <2>3, <2>4
<1>5. PICK f : Grows(f, N) /\ \A m \in 0..N : Good(f[m], m)
  <2>1. N \in 0..N
    BY <1>1
  <2> HIDE DEF Grows, Good
  <2> QED BY <1>4, <2>1
<1>6. Scheduled(x) = (CHOOSE h : Grows(h, N))[N]
  BY DEF Scheduled, N
<1>7. PICK h : Grows(h, N) /\ Scheduled(x) = h[N]
  BY <1>5, <1>6
<1>8. \A m \in 0..N : Good(h[m], m)
  <2> DEFINE Off == {m \in 0..N : ~Good(h[m], m)}
  <2> HIDE DEF Good
  <2> SUFFICES ASSUME Off # {} PROVE FALSE
    OBVIOUS
  <2>1. PICK n \in Off : \A m \in Off : n <= m
    <3>1. Off \in SUBSET Nat
      BY <1>1
    <3> HIDE DEF Off
    <3> QED BY <3>1, LeastExists
  <2>2. h[n] = IF n = 0 THEN <<>> ELSE Insert(h[n - 1], Items(x)[n].time, <<Task(x, n)>>)
    BY <1>7
  <2>3. n # 0
    BY <2>1, <2>2, <1>3
  <2>4. n \in 1..N /\ n - 1 \in 0..N /\ ~(n <= n - 1)
    BY <2>3, <1>1
  <2>5. Good(h[n - 1], n - 1)
    BY <2>1, <2>4
  <2>6. Good(h[n], n)
    BY <2>2, <2>3, <2>4, <2>5, <1>2
  <2> QED BY <2>6, <2>1
<1>9. Good(Scheduled(x), N)
  <2>1. N \in 0..N
    BY <1>1
  <2> HIDE DEF Good
  <2> QED BY <1>7, <1>8, <2>1
<1>10. \A k \in 1..N : k # 0
  BY <1>1
<1> QED BY <1>9, <1>10 DEF N


-----------------------------------------------------------------------------
\* A pass changes what its last result writes, and keeps the types.
LEMMA UpdateTyped ==
  ASSUME NEW properties \in [Key -> Nat], NEW updates, IsUpdate(updates)
  PROVE  /\ CloneWithState(properties, updates) \in [Key -> Nat]
         /\ \A k \in Key : CloneWithState(properties, updates)[k] =
                IF k \in DOMAIN updates THEN updates[k] ELSE properties[k]
BY DEF CloneWithState, IsUpdate

LEMMA ResultsTyped ==
  ASSUME NEW x \in Scenarios, NEW p \in 1..Len(Items(x)), Items(x)[p].results # <<>>
  PROVE  IsUpdate(Written(x, p))
<1> DEFINE r == Items(x)[p].results
<1>1. IsSequence(r) /\ \A j \in DOMAIN r : IsUpdate(r[j])
  BY ItemsTyped
<1>2. Len(r) \in DOMAIN r
  <2> DEFINE S == {r[i] : i \in DOMAIN r}
  <2>1. r \in Seq(S)
    BY <1>1 DEF IsSequence
  <2> HIDE DEF S, r
  <2>2. Len(r) \in Nat \ {0} /\ DOMAIN r = 1..Len(r)
    BY <2>1, EmptySeq, LenProperties DEF r
  <2> QED BY <2>2
<1> QED BY <1>1, <1>2 DEF Written

LEMMA PassMeans ==
  ASSUME NEW x \in Scenarios, NEW p \in 1..Len(Items(x)), NEW properties \in [Key -> Nat]
  PROVE  LET after == AfterPass(properties, Items(x)[p].results)
         IN  /\ after \in [Key -> Nat]
             /\ \A k \in Key :
                    after[k] = IF Sets(x, p, k) THEN Written(x, p)[k] ELSE properties[k]
<1>1. CASE Items(x)[p].results = <<>>
  BY <1>1 DEF AfterPass, Sets
<1>2. CASE Items(x)[p].results # <<>>
  <2>1. IsUpdate(Written(x, p))
    BY <1>2, ResultsTyped
  <2>2. AfterPass(properties, Items(x)[p].results) = CloneWithState(properties, Written(x, p))
    BY <1>2 DEF AfterPass, Written
  <2>3. \A k : Sets(x, p, k) <=> k \in DOMAIN Written(x, p)
    BY <1>2 DEF Sets
  <2> QED BY <2>1, <2>2, <2>3, UpdateTyped
<1> QED BY <1>1, <1>2

LEMMA RulesMeans ==
  ASSUME NEW properties \in [Key -> Nat]
  PROVE  /\ AfterRules(properties) \in [Key -> Nat]
         /\ \A k \in Key \ OfRules : AfterRules(properties)[k] = properties[k]
<1> DEFINE holding == {i \in DOMAIN Rules : properties[Rules[i].key] >= Rules[i].value}
           n == Len(Rules)
<1>1. n \in Nat /\ DOMAIN Rules = 1..n
  BY SimulationAssumption, LenProperties DEF IsSequence
<1>2. CASE holding = {}
  BY <1>2 DEF AfterRules
<1>3. CASE holding # {}
  <2> DEFINE last == Max(holding)
  <2>1. \E i \in holding : \A j \in holding : i >= j
    <3> DEFINE back == {n - i : i \in holding}
    <3> HIDE DEF n
    <3>1. \A i \in holding : i \in 1..n
      BY <1>1
    <3>2. back \in SUBSET Nat /\ back # {}
      BY <1>1, <1>3, <3>1
    <3> HIDE DEF back
    <3>3. PICK b \in back : \A c \in back : b <= c
      BY <3>2, LeastExists
    <3>4. PICK i \in holding : b = n - i
      BY <3>3 DEF back
    <3>5. ASSUME NEW j \in holding PROVE i >= j
      <4>1. b <= n - j
        BY <3>3 DEF back
      <4> HIDE DEF holding
      <4>2. i \in Nat /\ j \in Nat /\ n \in Nat /\ n - i <= n - j
        BY <4>1, <3>4, <3>1, <1>1
      <4> QED BY <4>2
    <3> QED BY <3>4, <3>5
  <2>2. last \in holding
    BY <2>1 DEF Max
  <2> HIDE DEF last
  <2>3. last \in DOMAIN Rules /\ IsUpdate(Rules[last].updates)
    BY <2>2, SimulationAssumption
  <2>4. AfterRules(properties) = CloneWithState(properties, Rules[last].updates)
    BY <1>3 DEF AfterRules, last
  <2>5. \A k \in Key \ OfRules : k \notin DOMAIN Rules[last].updates
    BY <2>3 DEF OfRules
  <2> QED BY <2>3, <2>4, <2>5, UpdateTyped
<1> QED BY <1>2, <1>3

-----------------------------------------------------------------------------
LEMMA ScenarioTyped ==
  ASSUME NEW x \in Scenarios
  PROVE  x.duration \in Nat /\ x.delta \in Nat \ {0}
BY SimulationAssumption

LEMMA SimulationInitHolds == ASSUME SimulationInit PROVE SimulationInv
<1>1. scenario \in Scenarios /\ tasks = Scheduled(scenario)
  BY DEF SimulationInit
<1>2. QueueOf(scenario, tasks)
  BY <1>1, AllScheduled
<1>3. Ran = {}
  BY <1>1, AllScheduled, ItemsTyped DEF Ran
<1>4. ClockInv
  <2>1. \A i \in DOMAIN tasks : tasks[i].time \in Nat
    BY <1>1, <1>2, QueueTyped
  <2>2. settled = -1 /\ virtualTime = 0 /\ currentTime = 0
    BY DEF SimulationInit
  <2> QED BY <1>3, <2>1, <2>2 DEF ClockInv
<1>5. ModelInv
  BY <1>3 DEF SimulationInit, ModelInv, Original
<1> QED BY <1>1, <1>2, <1>4, <1>5 DEF SimulationInv

\* What the end of a step leaves.
LEMMA EndStepKeeps == ASSUME SimulationInv, EndStep PROVE SimulationInv'
<1>1. /\ scenario' = scenario /\ tasks' = tasks /\ currentTime' = virtualTime
      /\ settled' = virtualTime /\ virtualTime' = virtualTime + scenario.delta
      /\ model' = AfterRules(model) /\ ~TaskIsDue
  BY DEF EndStep
<1>2. scenario \in Scenarios /\ QueueOf(scenario, tasks) /\ ClockInv /\ ModelInv
  BY DEF SimulationInv
<1>3. scenario' \in Scenarios /\ QueueOf(scenario, tasks)' /\ Ran' = Ran
  BY <1>1, <1>2 DEF Ran, QueueOf
<1>4. \A i \in DOMAIN tasks : tasks[i].time > virtualTime
  <2> TAKE i \in DOMAIN tasks
  <2>1. Len(tasks) \in Nat /\ DOMAIN tasks = 1..Len(tasks) /\ tasks \in Seq(Slot(scenario))
    BY <1>2, QueueTyped
  <2>2. 1 \in DOMAIN tasks /\ 1 <= i /\ i \in Nat /\ tasks # <<>> /\ Head(tasks) = tasks[1]
    BY <2>1
  <2>3. tasks[1].time \in Nat /\ tasks[i].time \in Nat /\ virtualTime \in Nat
    BY <2>1, <2>2, <1>2, QueueTyped DEF ClockInv
  <2>4. tasks[1].time > virtualTime
    BY <1>1, <2>2, <2>3 DEF TaskIsDue
  <2>5. 1 = i \/ InOrder(tasks[1], tasks[i])
    BY <1>2, <2>2 DEF QueueOf
  <2> QED BY <2>3, <2>4, <2>5 DEF InOrder
<1>5. ClockInv'
  <2>1. scenario.delta \in Nat \ {0}
    BY <1>2, ScenarioTyped
  <2>2. virtualTime \in Nat /\ currentTime \in 0..virtualTime
    BY <1>2 DEF ClockInv
  <2>3. \A i \in DOMAIN tasks : tasks[i].time \in Nat
    BY <1>2, QueueTyped
  <2>4. \A p \in Ran : Items(scenario)[p].time \in Nat
    BY <1>2, ItemsTyped DEF Ran
  <2>5. \A p \in Ran : /\ Items(scenario)[p].time <= currentTime
                       /\ \A i \in DOMAIN tasks : tasks[i].place # 0 => Before(p, tasks[i].place)
    BY <1>2 DEF ClockInv
  <2>6. \A p \in Ran : Items(scenario)[p].time <= virtualTime
    BY <2>2, <2>4, <2>5
  <2>7. \A p, q : Before(p, q)' <=> Before(p, q)
    BY <1>1 DEF Before
  <2>8. /\ virtualTime \in Int /\ virtualTime + scenario.delta \in Nat
        /\ virtualTime \in 0..virtualTime + scenario.delta
    BY <2>1, <2>2
  <2>9. \A i \in DOMAIN tasks : tasks[i].time >= virtualTime /\ tasks[i].time > virtualTime
    BY <1>4, <2>2, <2>3
  <2> QED BY <1>1, <1>3, <2>5, <2>6, <2>7, <2>8, <2>9 DEF ClockInv
<1>6. ModelInv'
  <2>1. model \in [Key -> Nat]
    BY <1>2 DEF ModelInv
  <2>2. model' \in [Key -> Nat] /\ \A k \in Key \ OfRules : model'[k] = model[k]
    BY <1>1, <2>1, RulesMeans
  <2>3. \A p, k : (LastOf(p, k)' <=> LastOf(p, k)) /\ (Sets(scenario, p, k)' <=> Sets(scenario, p, k))
                  /\ Written(scenario, p)' = Written(scenario, p)
    BY <1>1, <1>3 DEF LastOf, Before, Sets, Written
  <2> QED BY <1>2, <1>3, <2>2, <2>3 DEF ModelInv
<1> QED BY <1>3, <1>5, <1>6 DEF SimulationInv


\* The queue without its first task, and what has run with it.
LEMMA TailMeans ==
  ASSUME SimulationInv, tasks # <<>>
  PROVE  /\ QueueOf(scenario, Tail(tasks))
         /\ \A i \in DOMAIN Tail(tasks) :
                InOrder(Head(tasks), Tail(tasks)[i]) /\ \E j \in DOMAIN tasks : Tail(tasks)[i] = tasks[j]
         /\ \A j \in DOMAIN tasks : tasks[j] = Head(tasks) \/ \E i \in DOMAIN Tail(tasks) : Tail(tasks)[i] = tasks[j]
         /\ 1 \in DOMAIN tasks /\ Head(tasks) = tasks[1]
<1> DEFINE n == Len(tasks)
           r == Tail(tasks)
<1>1. scenario \in Scenarios /\ QueueOf(scenario, tasks)
  BY DEF SimulationInv
<1>2. tasks \in Seq(Slot(scenario)) /\ n \in Nat \ {0} /\ DOMAIN tasks = 1..n
  BY <1>1, QueueTyped, EmptySeq
<1>3. /\ r \in Seq(Slot(scenario)) /\ Len(r) = n - 1 /\ \A i \in 1..Len(r) : r[i] = tasks[i + 1]
  BY <1>2, HeadTailProperties
<1>4. DOMAIN r = 1..n - 1 /\ Head(tasks) = tasks[1]
  BY <1>2, <1>3, LenProperties
<1> HIDE DEF n, r
<1>5. \A i \in DOMAIN r : i + 1 \in DOMAIN tasks /\ r[i] = tasks[i + 1] /\ 1 < i + 1 /\ i \in Int
  BY <1>2, <1>3, <1>4
<1>6. \A i, j \in DOMAIN tasks : i < j => InOrder(tasks[i], tasks[j])
  BY <1>1 DEF QueueOf
<1>7. 1 \in DOMAIN tasks
  BY <1>2
<1>8. ASSUME NEW i \in DOMAIN r, NEW j \in DOMAIN r, i < j PROVE InOrder(r[i], r[j])
  <2>1. i + 1 < j + 1
    BY <1>5, <1>8
  <2> QED BY <2>1, <1>5, <1>6
<1>9. \A i \in DOMAIN r : r[i].place # 0 => r[i].time = Items(scenario)[r[i].place].time
  BY <1>1, <1>5 DEF QueueOf
<1>10. QueueOf(scenario, r)
  BY <1>3, <1>8, <1>9 DEF QueueOf, Slot
<1>11. ASSUME NEW j \in DOMAIN tasks, j # 1 PROVE \E i \in DOMAIN r : r[i] = tasks[j]
  <2> DEFINE i == j - 1
  <2>1. i \in DOMAIN r /\ i + 1 = j
    BY <1>2, <1>4, <1>11
  <2> HIDE DEF i
  <2> QED BY <2>1, <1>5
<1>12. \A i \in DOMAIN r : InOrder(tasks[1], r[i]) /\ \E j \in DOMAIN tasks : r[i] = tasks[j]
  BY <1>5, <1>6, <1>7
<1> QED BY <1>4, <1>7, <1>10, <1>11, <1>12 DEF r

\* The task of a child event runs.
LEMMA RunChildKeeps ==
  ASSUME SimulationInv, RunTask, Head(tasks).place = 0
  PROVE  SimulationInv'
<1> DEFINE task == Head(tasks)
<1>1. /\ scenario' = scenario /\ settled' = settled /\ virtualTime' = virtualTime
      /\ currentTime' = task.time /\ model' = model /\ tasks' = Tail(tasks)
      /\ tasks # <<>> /\ task.time <= virtualTime
  BY DEF RunTask, TaskIsDue
<1>2. scenario \in Scenarios /\ QueueOf(scenario, tasks) /\ ClockInv /\ ModelInv
  BY DEF SimulationInv
<1>3. /\ QueueOf(scenario, Tail(tasks))
      /\ \A i \in DOMAIN Tail(tasks) :
             InOrder(task, Tail(tasks)[i]) /\ \E j \in DOMAIN tasks : Tail(tasks)[i] = tasks[j]
      /\ \A j \in DOMAIN tasks : tasks[j] = task \/ \E i \in DOMAIN Tail(tasks) : Tail(tasks)[i] = tasks[j]
      /\ 1 \in DOMAIN tasks /\ task = tasks[1]
  BY <1>1, TailMeans
<1> HIDE DEF task
<1>4. \A i \in DOMAIN tasks : tasks[i].time \in Nat /\ tasks[i].place \in Nat
  BY <1>2, QueueTyped
<1>5. Ran' = Ran
  <2>1. \A p \in DOMAIN Items(scenario) : p # 0
    BY <1>2, ItemsTyped
  <2>2. ASSUME NEW p \in DOMAIN Items(scenario)
        PROVE  (\A i \in DOMAIN tasks : tasks[i].place # p)
                   <=> (\A i \in DOMAIN Tail(tasks) : Tail(tasks)[i].place # p)
    BY <2>1, <1>3 DEF task
  <2> QED BY <2>2, <1>1 DEF Ran
<1>6. QueueOf(scenario, tasks)'
  BY <1>1, <1>3 DEF QueueOf
<1>7. ClockInv'
  <2>1. /\ settled \in Int /\ virtualTime \in Nat /\ currentTime \in 0..virtualTime
        /\ \A i \in DOMAIN tasks : tasks[i].time >= currentTime /\ tasks[i].time > settled
        /\ \A p \in Ran :
               /\ Items(scenario)[p].time <= currentTime
               /\ \A i \in DOMAIN tasks : tasks[i].place # 0 => Before(p, tasks[i].place)
    BY <1>2 DEF ClockInv
  <2>2. task.time \in Nat /\ task.time >= currentTime /\ currentTime \in Nat
    BY <2>1, <1>3, <1>4
  <2>3. ASSUME NEW i \in DOMAIN Tail(tasks)
        PROVE  Tail(tasks)[i].time >= task.time /\ Tail(tasks)[i].time > settled
    <3>1. PICK j \in DOMAIN tasks : Tail(tasks)[i] = tasks[j]
      BY <1>3
    <3> QED BY <3>1, <1>3, <1>4, <2>1, <2>2, SMTT(30) DEF InOrder
  <2>4. ASSUME NEW p \in Ran
        PROVE  /\ Items(scenario)[p].time <= task.time
               /\ \A i \in DOMAIN Tail(tasks) :
                      Tail(tasks)[i].place # 0 => Before(p, Tail(tasks)[i].place)
    <3>1. Items(scenario)[p].time \in Nat
      BY <1>2, ItemsTyped DEF Ran
    <3>2. Items(scenario)[p].time <= task.time
      BY <3>1, <2>1, <2>2
    <3> QED BY <3>2, <2>1, <1>3
  <2>5. \A p, q : Before(p, q)' <=> Before(p, q)
    BY <1>1 DEF Before
  <2>6. task.time \in 0..virtualTime
    BY <2>1, <2>2, <1>1
  <2> QED BY <1>1, <1>5, <2>1, <2>3, <2>4, <2>5, <2>6 DEF ClockInv
<1>8. ModelInv'
  <2>1. \A p, k : (LastOf(p, k)' <=> LastOf(p, k)) /\ (Sets(scenario, p, k)' <=> Sets(scenario, p, k))
                  /\ Written(scenario, p)' = Written(scenario, p)
    BY <1>1, <1>5 DEF LastOf, Before, Sets, Written
  <2> QED BY <1>1, <1>2, <1>5, <2>1 DEF ModelInv
<1> QED BY <1>1, <1>2, <1>6, <1>7, <1>8 DEF SimulationInv

\* A mutation or an event runs, and its children are queued.
LEMMA RunItemKeeps ==
  ASSUME SimulationInv, RunTask, Head(tasks).place # 0
  PROVE  SimulationInv'
<1> DEFINE task == Head(tasks)
           now == task.time
           me == task.place
           item == Items(scenario)[me]
           rest == Tail(tasks)
           later == now + PropagationDelay
           new == [i \in 1..item.children |-> [time |-> later, place |-> 0]]
<1>1. /\ scenario' = scenario /\ settled' = settled /\ virtualTime' = virtualTime
      /\ currentTime' = now /\ model' = AfterPass(model, item.results)
      /\ tasks' = Insert(rest, later, new)
      /\ tasks # <<>> /\ now <= virtualTime
  BY DEF RunTask, TaskIsDue, Children
<1>2. scenario \in Scenarios /\ QueueOf(scenario, tasks) /\ ClockInv /\ ModelInv
  BY DEF SimulationInv
<1>3. /\ QueueOf(scenario, rest)
      /\ \A i \in DOMAIN rest : InOrder(task, rest[i]) /\ \E j \in DOMAIN tasks : rest[i] = tasks[j]
      /\ \A j \in DOMAIN tasks : tasks[j] = task \/ \E i \in DOMAIN rest : rest[i] = tasks[j]
      /\ 1 \in DOMAIN tasks /\ task = tasks[1]
  BY <1>1, TailMeans
<1> HIDE DEF task, rest
<1>4. \A i \in DOMAIN tasks :
          tasks[i] \in Slot(scenario) /\ tasks[i].time \in Nat /\ tasks[i].place \in Nat
  BY <1>2, QueueTyped
<1>5. /\ me \in 1..Len(Items(scenario)) /\ me \in DOMAIN Items(scenario) /\ now = item.time
      /\ item.children \in Nat /\ now \in Nat
  <2>1. me # 0 /\ task \in Slot(scenario) /\ now \in Nat
    BY <1>3, <1>4 DEF task
  <2>2. me \in 1..Len(Items(scenario))
    BY <2>1, <1>2, ItemsTyped DEF Slot
  <2>3. now = item.time
    BY <2>1, <1>2, <1>3 DEF QueueOf
  <2> QED BY <2>1, <2>2, <2>3, <1>2, ItemsTyped
<1>6. later \in Nat /\ later > now
  BY <1>5, SimulationAssumption
<1> HIDE DEF later, now
<1>7. /\ new \in Seq(Slot(scenario))
      /\ \A i \in DOMAIN new : new[i].time = later /\ new[i].place = 0
  <2>1. [time |-> later, place |-> 0] \in Slot(scenario)
    BY <1>2, <1>6, ItemsTyped DEF Slot
  <2> QED BY <2>1, <1>5
<1> HIDE DEF new, me
<1>8. /\ QueueOf(scenario, tasks')
      /\ \A i \in DOMAIN tasks' : \/ \E j \in DOMAIN rest : tasks'[i] = rest[j]
                                  \/ \E j \in DOMAIN new : tasks'[i] = new[j]
      /\ \A j \in DOMAIN rest : \E i \in DOMAIN tasks' : tasks'[i] = rest[j]
  <2>1. /\ scenario \in Scenarios /\ QueueOf(scenario, rest) /\ later \in Nat
        /\ new \in Seq(Slot(scenario)) /\ \A i \in DOMAIN new : new[i].time = later
        /\ \A i \in DOMAIN new : new[i].place = 0
    BY <1>2, <1>3, <1>6, <1>7
  <2> DEFINE r == Insert(rest, later, new)
  <2>2. /\ QueueOf(scenario, r)
        /\ \A i \in DOMAIN r : \/ \E j \in DOMAIN rest : r[i] = rest[j]
                               \/ \E j \in DOMAIN new : r[i] = new[j]
        /\ \A j \in DOMAIN rest : \E i \in DOMAIN r : r[i] = rest[j]
    BY <2>1, InsertKeepsOrder
  <2> QED BY <2>2, <1>1
<1>9. Ran' = Ran \cup {me}
  <2>1. \A p \in DOMAIN Items(scenario) : p # 0
    BY <1>2, ItemsTyped
  <2>2. ASSUME NEW p \in DOMAIN Items(scenario)
        PROVE  (\A i \in DOMAIN tasks' : tasks'[i].place # p)
                   <=> (\A i \in DOMAIN rest : rest[i].place # p)
    BY <2>1, <1>7, <1>8
  <2>3. \A i \in DOMAIN rest : rest[i].place # me
    <3> TAKE i \in DOMAIN rest
    <3>1. SUFFICES ASSUME rest[i].place = me PROVE FALSE
      OBVIOUS
    <3>2. PICK j \in DOMAIN tasks : rest[i] = tasks[j]
      BY <1>3
    <3>3. rest[i].time = now
      BY <1>2, <1>5, <3>1, <3>2, SMTT(60) DEF QueueOf, me
    <3>4. me # 0 /\ me \in Nat
      BY <1>3, <1>4, <1>5, <2>1 DEF me
    <3> QED BY <3>1, <3>3, <3>4, <1>3, <1>5 DEF InOrder, me, now
  <2>4. \A p \in DOMAIN Items(scenario) :
            (\A i \in DOMAIN tasks : tasks[i].place # p)
                <=> (p # me /\ \A i \in DOMAIN rest : rest[i].place # p)
    BY <1>3 DEF me
  <2> QED BY <2>2, <2>3, <2>4, <1>1, <1>5 DEF Ran
<1>10. QueueOf(scenario, tasks)'
  BY <1>1, <1>8 DEF QueueOf
<1>11. /\ settled \in Int /\ virtualTime \in Nat /\ currentTime \in 0..virtualTime
       /\ \A i \in DOMAIN tasks : tasks[i].time >= currentTime /\ tasks[i].time > settled
       /\ \A p \in Ran :
              /\ Items(scenario)[p].time <= currentTime
              /\ \A i \in DOMAIN tasks : tasks[i].place # 0 => Before(p, tasks[i].place)
  BY <1>2 DEF ClockInv
<1>12. now >= currentTime /\ now > settled
  BY <1>3, <1>11 DEF now
<1>13. \A p \in Ran : Before(p, me)
  BY <1>3, <1>5, <1>11, ItemsTyped, <1>2 DEF me
<1>14. ClockInv'
  <2>1. ASSUME NEW i \in DOMAIN rest
        PROVE  /\ rest[i].time \in Nat /\ rest[i].time >= now
               /\ rest[i].place # 0 => Before(me, rest[i].place)
    <3>1. PICK j \in DOMAIN tasks : rest[i] = tasks[j]
      BY <1>3
    <3>2. rest[i].time \in Nat /\ rest[i].place \in Nat
      BY <3>1, <1>4
    <3>3. rest[i].place # 0 => rest[i].time = Items(scenario)[rest[i].place].time
      BY <1>3 DEF QueueOf
    <3>4. InOrder(task, rest[i]) /\ me # 0 /\ me \in Nat
      BY <1>3, <1>4, <1>5
    <3> QED BY <3>2, <3>3, <3>4, <1>5 DEF InOrder, Before, me, now
  <2>2. ASSUME NEW i \in DOMAIN tasks'
        PROVE  /\ tasks'[i].time >= now /\ tasks'[i].time > settled
               /\ tasks'[i].place # 0 => \E j \in DOMAIN rest : tasks'[i] = rest[j]
    <3>1. CASE \E j \in DOMAIN rest : tasks'[i] = rest[j]
      BY <3>1, <2>1, <1>5, <1>11, <1>12
    <3>2. CASE \E j \in DOMAIN new : tasks'[i] = new[j]
      BY <3>2, <1>5, <1>6, <1>7, <1>11, <1>12
    <3> QED BY <3>1, <3>2, <1>8
  <2>3. ASSUME NEW p \in Ran'
        PROVE  /\ Items(scenario)[p].time <= now
               /\ \A i \in DOMAIN tasks' : tasks'[i].place # 0 => Before(p, tasks'[i].place)
    <3>1. CASE p = me
      BY <3>1, <2>1, <2>2, <1>5
    <3>2. CASE p \in Ran
      <4>1. Items(scenario)[p].time \in Nat /\ currentTime \in Nat
        BY <3>2, <1>2, <1>11, ItemsTyped DEF Ran
      <4>2. Items(scenario)[p].time <= now
        BY <4>1, <3>2, <1>5, <1>11, <1>12
      <4>3. \A j \in DOMAIN rest : rest[j].place # 0 => Before(p, rest[j].place)
        BY <3>2, <1>3, <1>11
      <4> QED BY <4>2, <4>3, <2>2
    <3> QED BY <3>1, <3>2, <1>9
  <2>4. \A p, q : Before(p, q)' <=> Before(p, q)
    BY <1>1 DEF Before
  <2>5. now \in 0..virtualTime
    BY <1>1, <1>5, <1>11
  <2> QED BY <1>1, <1>11, <2>2, <2>3, <2>4, <2>5 DEF ClockInv
<1>15. ModelInv'
  <2>1. model \in [Key -> Nat]
    BY <1>2 DEF ModelInv
  <2>2. /\ model' \in [Key -> Nat]
        /\ \A k \in Key : model'[k] = IF Sets(scenario, me, k) THEN Written(scenario, me)[k]
                                      ELSE model[k]
    BY <2>1, <1>1, <1>2, <1>5, PassMeans DEF me
  <2>3. \A p, q, k : /\ Sets(scenario, p, k)' <=> Sets(scenario, p, k)
                     /\ Written(scenario, p)' = Written(scenario, p)
                     /\ Before(p, q)' <=> Before(p, q)
    BY <1>1 DEF Before, Sets, Written
  <2>4. ASSUME NEW k \in Key \ OfRules, \A p \in Ran' : ~Sets(scenario, p, k) PROVE model'[k] = 0
    BY <2>2, <2>4, <1>2, <1>9 DEF ModelInv
  <2>5. ASSUME NEW k \in Key \ OfRules, NEW p \in Ran', Sets(scenario, p, k),
               \A q \in Ran' : Sets(scenario, q, k) => q = p \/ Before(q, p)
        PROVE  model'[k] = Written(scenario, p)[k]
    <3>1. CASE p = me
      BY <3>1, <2>2, <2>5
    <3>2. CASE p # me
      <4>1. p \in Ran /\ me \in Ran'
        BY <3>2, <1>9
      <4>2. ~Sets(scenario, me, k)
        <5>1. Before(p, me) /\ ~Before(me, p)
          <6>1. /\ Items(scenario)[p].time \in Nat /\ Items(scenario)[me].time \in Nat
                /\ p \in Int /\ me \in Int
            BY <4>1, <1>2, <1>5, ItemsTyped DEF Ran
          <6> QED BY <6>1, <4>1, <1>13 DEF Before
        <5> QED BY <5>1, <4>1, <3>2, <2>5
      <4>3. LastOf(p, k)
        BY <4>1, <2>5, <1>9 DEF LastOf
      <4>4. model[k] = Written(scenario, p)[k]
        BY <4>1, <4>3, <1>2 DEF ModelInv
      <4> QED BY <4>2, <4>4, <2>2
    <3> QED BY <3>1, <3>2
  <2>6. \A k, p : LastOf(p, k)' <=> (/\ p \in Ran' /\ Sets(scenario, p, k)
                                    /\ \A q \in Ran' : Sets(scenario, q, k) => q = p \/ Before(q, p))
    BY <2>3, <1>1 DEF LastOf
  <2>7. \A k \in Key \ OfRules :
            /\ (\A p \in Ran' : ~Sets(scenario, p, k)) => model'[k] = 0
            /\ \A p \in Ran' : LastOf(p, k)' => model'[k] = Written(scenario, p)[k]
    BY <2>4, <2>5, <2>6
  <2> QED BY <1>1, <2>2, <2>3, <2>7 DEF ModelInv
<1> QED BY <1>1, <1>2, <1>10, <1>14, <1>15 DEF SimulationInv

LEMMA SimulationNextKeeps ==
  ASSUME SimulationInv, [SimulationNext]_simulationVars
  PROVE  SimulationInv'
<1>1. CASE RunTask
  BY <1>1, RunChildKeeps, RunItemKeeps
<1>2. CASE EndStep
  BY <1>2, EndStepKeeps
<1>3. CASE UNCHANGED simulationVars
  BY <1>3 DEF simulationVars, SimulationInv, QueueOf, ClockInv, ModelInv, LastOf, Ran, Before, Sets,
              Written
<1> QED BY <1>1, <1>2, <1>3 DEF SimulationNext

\* What has been said of a run of a scenario holds in every state.
THEOREM SimulationInvariant == SimulationSpec => []SimulationInv
BY SimulationInitHolds, SimulationNextKeeps, PTL DEF SimulationSpec

\* The clock, its queue and the model keep their types.
THEOREM SimulationTypeCorrect == SimulationSpec => []SimulationTypeOK
<1>1. SimulationInv => SimulationTypeOK
  BY QueueTyped DEF SimulationInv, SimulationTypeOK, ClockInv, ModelInv
<1> QED BY <1>1, SimulationInvariant, PTL

\* Of a set of writes that are due there is a last one.
LEMMA LatestExists ==
  ASSUME SimulationInv, NEW writes \in SUBSET Ran, writes # {}
  PROVE  \E p \in writes : \A q \in writes : p = q \/ Before(q, p)
<1> DEFINE T(p) == Items(scenario)[p].time
           N == Len(Items(scenario))
<1>1. \A p \in writes : p \in 1..N /\ T(p) \in Nat /\ T(p) <= currentTime
  BY ItemsTyped DEF SimulationInv, ClockInv, Ran
<1>2. currentTime \in Nat /\ N \in Nat
  BY ItemsTyped DEF SimulationInv, ClockInv
<1> HIDE DEF N
<1> DEFINE back == {currentTime - T(p) : p \in writes}
<1>3. back \in SUBSET Nat /\ back # {}
  BY <1>1, <1>2
<1>4. PICK b \in back : \A c \in back : b <= c
  BY <1>3, LeastExists
<1>5. PICK first \in writes : b = currentTime - T(first)
  BY <1>4
<1>6. \A q \in writes : b <= currentTime - T(q)
  BY <1>4
<1> HIDE DEF back, T
<1>7. \A q \in writes : T(q) <= T(first)
  BY <1>1, <1>2, <1>5, <1>6
<1> DEFINE level == {p \in writes : T(p) = T(first)}
           places == {N - p : p \in level}
<1>8. places \in SUBSET Nat /\ places # {}
  BY <1>1, <1>2
<1>9. PICK m \in places : \A c \in places : m <= c
  BY <1>8, LeastExists
<1>10. PICK p \in level : m = N - p
  BY <1>9
<1>11. \A q \in level : m <= N - q
  BY <1>9
<1> HIDE DEF places
<1>12. ASSUME NEW q \in writes, p # q PROVE Before(q, p)
  <2>1. CASE T(q) = T(first)
    <3>1. N - p <= N - q /\ q \in Int /\ p \in Int
      BY <2>1, <1>1, <1>10, <1>11
    <3>2. q < p
      BY <3>1, <1>2, <1>12
    <3> QED BY <2>1, <3>2, <1>10 DEF Before, T
  <2>2. CASE T(q) # T(first)
    BY <2>2, <1>1, <1>7, <1>10 DEF Before, T
  <2> QED BY <2>1, <2>2
<1> QED BY <1>10, <1>12

\* Every write that is due has been made, each in its turn, when a step has ended.
THEOREM ScenariosPlayOut == SimulationSpec => []ScenarioPlaysOut
<1>1. SimulationInv => ScenarioPlaysOut
  <2> SUFFICES ASSUME SimulationInv PROVE ScenarioPlaysOut
    OBVIOUS
  <2>1. scenario \in Scenarios /\ QueueOf(scenario, tasks) /\ ClockInv /\ ModelInv
    BY DEF SimulationInv
  <2>2. \A i \in DOMAIN tasks : tasks[i].time >= currentTime
    BY <2>1 DEF ClockInv
  <2>3. ASSUME currentTime = settled, NEW k \in Key \ OfRules
        PROVE  model[k] = IF Writes(k) = {} THEN Original[k]
                          ELSE Written(scenario, Latest(Writes(k)))[k]
    <3>1. Writes(k) = {p \in Ran : Sets(scenario, p, k)}
      <4>1. ASSUME NEW p \in DOMAIN Items(scenario)
            PROVE  Items(scenario)[p].time <= settled <=> p \in Ran
        <5>1. Items(scenario)[p].time \in Nat /\ p # 0
          BY <2>1, ItemsTyped
        <5>2. CASE p \in Ran
          BY <5>2, <2>1, <2>3 DEF ClockInv
        <5>3. CASE p \notin Ran
          <6>1. PICK i \in DOMAIN tasks : tasks[i].place = p
            BY <5>3 DEF Ran
          <6>2. Items(scenario)[p].time > settled
            BY <6>1, <5>1, <2>1 DEF ClockInv, QueueOf
          <6> QED BY <5>1, <5>3, <6>2, <2>1 DEF ClockInv
        <5> QED BY <5>2, <5>3
      <4> QED BY <4>1 DEF Writes, Sets, Ran
    <3>2. CASE Writes(k) = {}
      BY <3>1, <3>2, <2>1 DEF ModelInv, Original
    <3>3. CASE Writes(k) # {}
      <4>1. /\ Latest(Writes(k)) \in Writes(k)
            /\ \A q \in Writes(k) : Latest(Writes(k)) = q \/ Before(q, Latest(Writes(k)))
        <5>1. \E p \in Writes(k) : \A q \in Writes(k) : p = q \/ Before(q, p)
          BY <3>1, <3>3, LatestExists
        <5> QED BY <5>1 DEF Latest
      <4>2. LastOf(Latest(Writes(k)), k)
        BY <4>1, <3>1 DEF LastOf
      <4> QED BY <3>3, <4>2, <2>1 DEF ModelInv, LastOf
    <3> QED BY <3>2, <3>3
  <2> QED BY <2>2, <2>3 DEF ScenarioPlaysOut
<1> QED BY <1>1, SimulationInvariant, PTL

-----------------------------------------------------------------------------
(***************************************************************************)
(* The index of the world model.                                           *)
(***************************************************************************)

\* r leads from a to b.
Leads(r, a, b) == (r.source = a /\ r.target = b) \/ (r.both /\ r.target = a /\ r.source = b)

Triple == Entity \X Id \X Entity
IndexOf(g) == DOMAIN g = {"nodes", "edges", "out", "in"} /\ g.out \subseteq Triple /\ g.in \subseteq Triple

\* Of the relationship with an id the index and the model say the same.
IdInStep(id) ==
    /\ id \in DOMAIN index.edges <=> id \in DOMAIN relationships
    /\ id \in DOMAIN relationships => index.edges[id] = relationships[id]
    /\ \A a, b \in Entity :
           LET there == id \in DOMAIN relationships
           IN  /\ <<a, id, b>> \in index.out <=> (there /\ Leads(relationships[id], a, b))
               /\ <<a, id, b>> \in index.in <=> (there /\ Leads(relationships[id], b, a))

IdsFit ==
    /\ IsFiniteSet(DOMAIN relationships)
    /\ \A e \in DOMAIN relationships : relationships[e].id = e
    /\ \A e \in DOMAIN index.edges : index.edges[e].id = e

WorldInv ==
    /\ WorldTypeOK /\ IndexOf(index) /\ IdsFit
    /\ index.nodes = entities
    /\ \A id \in Id \ reshaped : IdInStep(id)

-----------------------------------------------------------------------------
\* What the mutations of the index do to its entries.
LEMMA RelationshipTyped ==
  ASSUME NEW r \in Relationships
  PROVE  r.source \in Entity /\ r.target \in Entity /\ r.both \in BOOLEAN /\ r.id \in Id
BY WorldAssumption DEF Id

LEMMA PutMeans ==
  ASSUME NEW table \in SUBSET Triple, NEW n \in Entity, NEW id \in Id, NEW other \in Entity
  PROVE  /\ Put(table, n, id, other) \subseteq Triple
         /\ \A a, b \in Entity, i \in Id :
                <<a, i, b>> \in Put(table, n, id, other) <=>
                    \/ a = n /\ i = id /\ b = other
                    \/ <<a, i, b>> \in table /\ ~(a = n /\ i = id)
BY DEF Put, Triple

LEMMA AddEdgeMeans ==
  ASSUME NEW g, IndexOf(g), NEW r \in Relationships
  PROVE  LET h == AddEdge(g, r)
             Clear(a) == a # r.source /\ ~(r.both /\ a = r.target)
             Back(a) == a # r.target /\ ~(r.both /\ a = r.source)
         IN  /\ IndexOf(h) /\ h.nodes = g.nodes
             /\ h.edges = With(g.edges, r.id, r)
             /\ \A a, b \in Entity, i \in Id :
                    /\ i # r.id => /\ <<a, i, b>> \in h.out <=> <<a, i, b>> \in g.out
                                   /\ <<a, i, b>> \in h.in <=> <<a, i, b>> \in g.in
                    /\ <<a, r.id, b>> \in h.out <=>
                           Leads(r, a, b) \/ (<<a, r.id, b>> \in g.out /\ Clear(a))
                    /\ <<a, r.id, b>> \in h.in <=>
                           Leads(r, b, a) \/ (<<a, r.id, b>> \in g.in /\ Back(a))
<1> DEFINE out == Put(g.out, r.source, r.id, r.target)
           in == Put(g.in, r.target, r.id, r.source)
           out2 == IF r.both THEN Put(out, r.target, r.id, r.source) ELSE out
           in2 == IF r.both THEN Put(in, r.source, r.id, r.target) ELSE in
           edges == With(g.edges, r.id, r)
           h == AddEdge(g, r)
<1>1. h = [nodes |-> g.nodes, edges |-> edges, out |-> out2, in |-> in2]
  BY DEF AddEdge
<1>2. r.source \in Entity /\ r.target \in Entity /\ r.both \in BOOLEAN /\ r.id \in Id
  BY RelationshipTyped
<1>3. g.out \in SUBSET Triple /\ g.in \in SUBSET Triple
  BY DEF IndexOf
<1>4. /\ out \in SUBSET Triple
      /\ \A a, b \in Entity, i \in Id :
             <<a, i, b>> \in out <=> \/ a = r.source /\ i = r.id /\ b = r.target
                                     \/ <<a, i, b>> \in g.out /\ ~(a = r.source /\ i = r.id)
  BY <1>2, <1>3, PutMeans
<1>5. /\ in \in SUBSET Triple
      /\ \A a, b \in Entity, i \in Id :
             <<a, i, b>> \in in <=> \/ a = r.target /\ i = r.id /\ b = r.source
                                    \/ <<a, i, b>> \in g.in /\ ~(a = r.target /\ i = r.id)
  BY <1>2, <1>3, PutMeans
<1> HIDE DEF out, in, edges
<1>6. /\ out2 \in SUBSET Triple
      /\ \A a, b \in Entity, i \in Id :
             <<a, i, b>> \in out2 <=>
                 \/ r.both /\ a = r.target /\ i = r.id /\ b = r.source
                 \/ <<a, i, b>> \in out /\ ~(r.both /\ a = r.target /\ i = r.id)
  BY <1>2, <1>4, PutMeans
<1>7. /\ in2 \in SUBSET Triple
      /\ \A a, b \in Entity, i \in Id :
             <<a, i, b>> \in in2 <=>
                 \/ r.both /\ a = r.source /\ i = r.id /\ b = r.target
                 \/ <<a, i, b>> \in in /\ ~(r.both /\ a = r.source /\ i = r.id)
  BY <1>2, <1>5, PutMeans
<1> HIDE DEF out2, in2
<1>8. /\ h.nodes = g.nodes /\ h.edges = edges /\ h.out = out2 /\ h.in = in2
      /\ DOMAIN h = {"nodes", "edges", "out", "in"}
  BY <1>1 DEF IndexOf
<1> HIDE DEF h
<1>9. ASSUME NEW a \in Entity, NEW b \in Entity, NEW i \in Id
      PROVE  /\ i # r.id => /\ <<a, i, b>> \in h.out <=> <<a, i, b>> \in g.out
                            /\ <<a, i, b>> \in h.in <=> <<a, i, b>> \in g.in
             /\ <<a, r.id, b>> \in h.out <=>
                    \/ Leads(r, a, b)
                    \/ <<a, r.id, b>> \in g.out /\ a # r.source /\ ~(r.both /\ a = r.target)
             /\ <<a, r.id, b>> \in h.in <=>
                    \/ Leads(r, b, a)
                    \/ <<a, r.id, b>> \in g.in /\ a # r.target /\ ~(r.both /\ a = r.source)
  BY <1>2, <1>4, <1>5, <1>6, <1>7, <1>8 DEF Leads
<1>10. IndexOf(h)
  BY <1>6, <1>7, <1>8 DEF IndexOf
<1> QED BY <1>8, <1>9, <1>10 DEF h, edges

\* Id i's entries go with the node when its relationship r touches it, and stay when not.
LEMMA RemoveNodeMeans ==
  ASSUME NEW g, IndexOf(g), NEW n \in g.nodes, n \in Entity
  PROVE  LET h == RemoveNode(g, n)
         IN  /\ IndexOf(h) /\ h.nodes = g.nodes \ {n}
             /\ DOMAIN h.edges \subseteq DOMAIN g.edges
             /\ \A e \in DOMAIN h.edges : h.edges[e] = g.edges[e]
             /\ \A r \in Relationships :
                    (\A a, b \in Entity : /\ <<a, r.id, b>> \in g.out <=> Leads(r, a, b)
                                          /\ <<a, r.id, b>> \in g.in <=> Leads(r, b, a))
                    => /\ (r.id \in DOMAIN h.edges
                              <=> r.id \in DOMAIN g.edges /\ ~Touches(r, n))
                       /\ \A a, b \in Entity :
                              /\ <<a, r.id, b>> \in h.out <=> Leads(r, a, b) /\ ~Touches(r, n)
                              /\ <<a, r.id, b>> \in h.in <=> Leads(r, b, a) /\ ~Touches(r, n)
             /\ \A id \in Id :
                    (\A a, b \in Entity : <<a, id, b>> \notin g.out /\ <<a, id, b>> \notin g.in)
                    => /\ id \in DOMAIN h.edges <=> id \in DOMAIN g.edges
                       /\ \A a, b \in Entity : <<a, id, b>> \notin h.out /\ <<a, id, b>> \notin h.in
<1> DEFINE in == {t \in g.in : ~(<<n, t[2], t[1]>> \in g.out)}
           gone == {t[2] : t \in {x \in g.out \cup in : x[1] = n}}
           edges == [e \in DOMAIN g.edges \ gone |-> g.edges[e]]
           out2 == {t \in g.out : t[1] # n /\ ~(<<n, t[2], t[1]>> \in in)}
           in2 == {t \in in : t[1] # n}
           h == RemoveNode(g, n)
<1>1. h = [nodes |-> g.nodes \ {n}, edges |-> edges, out |-> out2, in |-> in2]
  BY DEF RemoveNode
<1>2. g.out \subseteq Triple /\ g.in \subseteq Triple
  BY DEF IndexOf
<1>3. in \subseteq Triple /\ \A a, b \in Entity, i \in Id :
          <<a, i, b>> \in in <=> <<a, i, b>> \in g.in /\ <<n, i, a>> \notin g.out
  BY <1>2 DEF Triple
<1>4. \A i \in Id : i \in gone <=> \E b \in Entity : <<n, i, b>> \in g.out \/ <<n, i, b>> \in in
  <2> HIDE DEF in
  <2> TAKE i \in Id
  <2>1. ASSUME i \in gone PROVE \E b \in Entity : <<n, i, b>> \in g.out \/ <<n, i, b>> \in in
    <3>1. PICK t \in g.out \cup in : t[1] = n /\ t[2] = i
      BY <2>1
    <3>2. t \in Triple
      BY <1>2, <1>3
    <3>3. t = <<n, i, t[3]>> /\ t[3] \in Entity
      BY <3>1, <3>2 DEF Triple
    <3> QED BY <3>1, <3>3
  <2>2. ASSUME NEW b \in Entity, <<n, i, b>> \in g.out \/ <<n, i, b>> \in in PROVE i \in gone
    <3>1. <<n, i, b>>[1] = n /\ <<n, i, b>>[2] = i
      OBVIOUS
    <3> QED BY <2>2, <3>1
  <2> QED BY <2>1, <2>2
<1>5. out2 \subseteq Triple /\ \A a, b \in Entity, i \in Id :
          <<a, i, b>> \in out2 <=> <<a, i, b>> \in g.out /\ a # n /\ <<n, i, a>> \notin in
  BY <1>2 DEF Triple
<1>6. in2 \subseteq Triple /\ \A a, b \in Entity, i \in Id :
          <<a, i, b>> \in in2 <=> <<a, i, b>> \in in /\ a # n
  BY <1>3 DEF Triple
<1> HIDE DEF in, gone, out2, in2
<1>7. /\ h.nodes = g.nodes \ {n} /\ h.edges = edges /\ h.out = out2 /\ h.in = in2 /\ IndexOf(h)
  BY <1>1, <1>5, <1>6 DEF IndexOf
<1> HIDE DEF h
<1>8. ASSUME NEW r \in Relationships,
             \A a, b \in Entity : /\ <<a, r.id, b>> \in g.out <=> Leads(r, a, b)
                                  /\ <<a, r.id, b>> \in g.in <=> Leads(r, b, a)
      PROVE  /\ (r.id \in DOMAIN h.edges <=> r.id \in DOMAIN g.edges /\ ~Touches(r, n))
             /\ \A a, b \in Entity :
                    /\ <<a, r.id, b>> \in h.out <=> Leads(r, a, b) /\ ~Touches(r, n)
                    /\ <<a, r.id, b>> \in h.in <=> Leads(r, b, a) /\ ~Touches(r, n)
  <2>1. r.source \in Entity /\ r.target \in Entity /\ r.both \in BOOLEAN /\ r.id \in Id
    BY RelationshipTyped
  <2>2. \A a, b \in Entity : <<a, r.id, b>> \in in <=> Leads(r, b, a) /\ ~Leads(r, n, a)
    BY <1>3, <1>8, <2>1
  <2>3. r.id \in gone <=> Touches(r, n)
    BY <1>4, <1>8, <2>1, <2>2 DEF Leads, Touches
  <2>4. \A a, b \in Entity : <<a, r.id, b>> \in out2 <=> Leads(r, a, b) /\ ~Touches(r, n)
    <3> TAKE a, b \in Entity
    <3>1. <<a, r.id, b>> \in out2 <=> Leads(r, a, b) /\ a # n /\ <<n, r.id, a>> \notin in
      BY <1>5, <1>8, <2>1
    <3>2. <<n, r.id, a>> \in in <=> Leads(r, a, n) /\ ~Leads(r, n, n)
      BY <2>2
    <3> QED BY <3>1, <3>2, <2>1 DEF Leads, Touches
  <2>5. \A a, b \in Entity : <<a, r.id, b>> \in in2 <=> Leads(r, b, a) /\ ~Touches(r, n)
    BY <1>6, <2>1, <2>2 DEF Leads, Touches
  <2> QED BY <1>7, <2>3, <2>4, <2>5
<1>9. ASSUME NEW id \in Id, \A a, b \in Entity : <<a, id, b>> \notin g.out /\ <<a, id, b>> \notin g.in
      PROVE  /\ id \in DOMAIN h.edges <=> id \in DOMAIN g.edges
             /\ \A a, b \in Entity : <<a, id, b>> \notin h.out /\ <<a, id, b>> \notin h.in
  BY <1>3, <1>4, <1>5, <1>6, <1>7, <1>9
<1>10. DOMAIN h.edges \subseteq DOMAIN g.edges /\ \A e \in DOMAIN h.edges : h.edges[e] = g.edges[e]
  BY <1>7
<1> QED BY <1>7, <1>8, <1>9, <1>10 DEF h

LEMMA RemoveEdgeMeans ==
  ASSUME NEW g, IndexOf(g), NEW id \in DOMAIN g.edges, g.edges[id] \in Relationships, id \in Id
  PROVE  LET h == RemoveEdge(g, id)
             r == g.edges[id]
         IN  /\ IndexOf(h) /\ h.nodes = g.nodes
             /\ h.edges = [e \in DOMAIN g.edges \ {id} |-> g.edges[e]]
             /\ \A a, b \in Entity, i \in Id :
                    /\ i # id => /\ <<a, i, b>> \in h.out <=> <<a, i, b>> \in g.out
                                 /\ <<a, i, b>> \in h.in <=> <<a, i, b>> \in g.in
                    /\ <<a, id, b>> \in h.out =>
                           <<a, id, b>> \in g.out /\ a # r.source /\ ~(r.both /\ a = r.target)
                    /\ <<a, id, b>> \in h.in =>
                           <<a, id, b>> \in g.in /\ a # r.target /\ ~(r.both /\ a = r.source)
<1> DEFINE r == g.edges[id]
           Cut(table, ends) == {t \in table : t[1] \notin ends \/ t[2] # id}
           edges == [e \in DOMAIN g.edges \ {id} |-> g.edges[e]]
           out2 == Cut(g.out, {r.source} \cup IF r.both THEN {r.target} ELSE {})
           in2 == Cut(g.in, {r.target} \cup IF r.both THEN {r.source} ELSE {})
           h == RemoveEdge(g, id)
<1>1. h = [g EXCEPT !.edges = edges, !.out = out2, !.in = in2]
  BY DEF RemoveEdge
<1>2. g.out \subseteq Triple /\ g.in \subseteq Triple
  BY DEF IndexOf
<1>3. r.both \in BOOLEAN
  BY RelationshipTyped
<1>4. out2 \subseteq Triple /\ \A a, b \in Entity, i \in Id :
          <<a, i, b>> \in out2 <=>
              <<a, i, b>> \in g.out /\ (i # id \/ (a # r.source /\ ~(r.both /\ a = r.target)))
  BY <1>2, <1>3 DEF Triple
<1>5. in2 \subseteq Triple /\ \A a, b \in Entity, i \in Id :
          <<a, i, b>> \in in2 <=>
              <<a, i, b>> \in g.in /\ (i # id \/ (a # r.target /\ ~(r.both /\ a = r.source)))
  BY <1>2, <1>3 DEF Triple
<1> HIDE DEF edges, out2, in2, r
<1>6. /\ h.nodes = g.nodes /\ h.edges = edges /\ h.out = out2 /\ h.in = in2 /\ IndexOf(h)
  BY <1>1, <1>4, <1>5 DEF IndexOf
<1> HIDE DEF h
<1>7. \A a, b \in Entity, i \in Id :
          /\ i # id => /\ <<a, i, b>> \in h.out <=> <<a, i, b>> \in g.out
                       /\ <<a, i, b>> \in h.in <=> <<a, i, b>> \in g.in
          /\ <<a, id, b>> \in h.out =>
                 <<a, id, b>> \in g.out /\ a # r.source /\ ~(r.both /\ a = r.target)
          /\ <<a, id, b>> \in h.in =>
                 <<a, id, b>> \in g.in /\ a # r.target /\ ~(r.both /\ a = r.source)
  BY <1>4, <1>5, <1>6
<1> QED BY <1>6, <1>7 DEF h, edges, r

\* The index that loading builds.
Loaded(ns, rs, s) ==
    [nodes |-> ns,
     edges |-> IF s = {} THEN <<>> ELSE [e \in s |-> rs[e]],
     out |-> {t \in Triple : t[2] \in s /\ Leads(rs[t[2]], t[1], t[3])},
     in |-> {t \in Triple : t[2] \in s /\ Leads(rs[t[2]], t[3], t[1])}]

LEMMA LoadedMeans ==
  ASSUME NEW ns, NEW rs, NEW s
  PROVE  LET h == Loaded(ns, rs, s)
         IN  /\ IndexOf(h) /\ h.nodes = ns /\ DOMAIN h.edges = s
             /\ \A e \in s : h.edges[e] = rs[e]
             /\ \A a, b \in Entity, i \in Id :
                    /\ <<a, i, b>> \in h.out <=> i \in s /\ Leads(rs[i], a, b)
                    /\ <<a, i, b>> \in h.in <=> i \in s /\ Leads(rs[i], b, a)
<1> DEFINE h == Loaded(ns, rs, s)
           out == {t \in Triple : t[2] \in s /\ Leads(rs[t[2]], t[1], t[3])}
           in == {t \in Triple : t[2] \in s /\ Leads(rs[t[2]], t[3], t[1])}
<1>1. ASSUME NEW a \in Entity, NEW b \in Entity, NEW i \in Id
      PROVE  /\ <<a, i, b>> \in out <=> i \in s /\ Leads(rs[i], a, b)
             /\ <<a, i, b>> \in in <=> i \in s /\ Leads(rs[i], b, a)
  <2>1. <<a, i, b>> \in Triple /\ <<a, i, b>>[1] = a /\ <<a, i, b>>[2] = i /\ <<a, i, b>>[3] = b
    BY DEF Triple
  <2> QED BY <2>1
<1>2. h.out = out /\ h.in = in /\ h.nodes = ns
  BY DEF Loaded
<1>3. out \subseteq Triple /\ in \subseteq Triple
  OBVIOUS
<1>4. DOMAIN h = {"nodes", "edges", "out", "in"}
  BY DEF Loaded
<1>5. IndexOf(h)
  BY <1>2, <1>3, <1>4 DEF IndexOf
<1>6. DOMAIN h.edges = s /\ \A e \in s : h.edges[e] = rs[e]
  <2>1. CASE s = {}
    BY <2>1 DEF Loaded
  <2>2. CASE s # {}
    BY <2>2 DEF Loaded
  <2> QED BY <2>1, <2>2
<1> HIDE DEF h, out, in
<1>7. \A a, b \in Entity, i \in Id :
          /\ <<a, i, b>> \in h.out <=> i \in s /\ Leads(rs[i], a, b)
          /\ <<a, i, b>> \in h.in <=> i \in s /\ Leads(rs[i], b, a)
  BY <1>1, <1>2
<1> QED BY <1>2, <1>5, <1>6, <1>7 DEF h

\* Sets of entries are equal when they have the same ones.
LEMMA SameEntries ==
  ASSUME NEW S \in SUBSET Triple, NEW T \in SUBSET Triple,
         \A a, b \in Entity, i \in Id : <<a, i, b>> \in S <=> <<a, i, b>> \in T
  PROVE  S = T
<1>1. ASSUME NEW t \in Triple PROVE t \in S <=> t \in T
  <2>1. t = <<t[1], t[2], t[3]>> /\ t[1] \in Entity /\ t[2] \in Id /\ t[3] \in Entity
    BY DEF Triple
  <2> QED BY <2>1
<1> QED BY <1>1

LEMMA LoadedAdds ==
  ASSUME NEW ns, NEW rs, NEW s \in SUBSET Id, NEW x \in s,
         \A e \in s : rs[e] \in Relationships /\ rs[e].id = e
  PROVE  AddEdge(Loaded(ns, rs, s \ {x}), rs[x]) = Loaded(ns, rs, s)
<1> DEFINE g == Loaded(ns, rs, s \ {x})
           h == AddEdge(g, rs[x])
           k == Loaded(ns, rs, s)
<1>1. rs[x] \in Relationships /\ rs[x].id = x /\ x \in Id
  OBVIOUS
<1>2. /\ IndexOf(g) /\ g.nodes = ns /\ DOMAIN g.edges = s \ {x}
      /\ \A e \in s \ {x} : g.edges[e] = rs[e]
      /\ \A a, b \in Entity, i \in Id :
             /\ <<a, i, b>> \in g.out <=> i \in s \ {x} /\ Leads(rs[i], a, b)
             /\ <<a, i, b>> \in g.in <=> i \in s \ {x} /\ Leads(rs[i], b, a)
  BY LoadedMeans
<1>3. /\ IndexOf(k) /\ k.nodes = ns
      /\ \A a, b \in Entity, i \in Id :
             /\ <<a, i, b>> \in k.out <=> i \in s /\ Leads(rs[i], a, b)
             /\ <<a, i, b>> \in k.in <=> i \in s /\ Leads(rs[i], b, a)
  BY LoadedMeans
<1> HIDE DEF g
<1>4. /\ IndexOf(h) /\ h.nodes = g.nodes
      /\ h.edges = With(g.edges, x, rs[x])
      /\ \A a, b \in Entity, i \in Id :
             /\ i # x => /\ <<a, i, b>> \in h.out <=> <<a, i, b>> \in g.out
                         /\ <<a, i, b>> \in h.in <=> <<a, i, b>> \in g.in
             /\ Leads(rs[x], a, b) => <<a, x, b>> \in h.out
             /\ <<a, x, b>> \in h.out => Leads(rs[x], a, b) \/ <<a, x, b>> \in g.out
             /\ Leads(rs[x], b, a) => <<a, x, b>> \in h.in
             /\ <<a, x, b>> \in h.in => Leads(rs[x], b, a) \/ <<a, x, b>> \in g.in
  BY <1>1, <1>2, AddEdgeMeans
<1>5. h.edges = k.edges
  <2>1. k.edges = [e \in s |-> rs[e]]
    BY DEF Loaded
  <2>2. h.edges = [e \in s |-> rs[e]]
    BY <1>2, <1>4 DEF With
  <2> QED BY <2>1, <2>2
<1>6. DOMAIN h = {"nodes", "edges", "out", "in"} /\ DOMAIN k = {"nodes", "edges", "out", "in"}
  BY <1>3, <1>4 DEF IndexOf
<1>7. h = [nodes |-> h.nodes, edges |-> h.edges, out |-> h.out, in |-> h.in]
  BY DEF AddEdge, g, Loaded
<1>8. k = [nodes |-> k.nodes, edges |-> k.edges, out |-> k.out, in |-> k.in]
  BY DEF Loaded
<1> HIDE DEF h, k
<1>9. \A a, b \in Entity, i \in Id : /\ <<a, i, b>> \in h.out <=> <<a, i, b>> \in k.out
                                     /\ <<a, i, b>> \in h.in <=> <<a, i, b>> \in k.in
  <2> TAKE a, b \in Entity, i \in Id
  <2>1. CASE i = x
    <3>1. /\ <<a, x, b>> \notin g.out /\ <<a, x, b>> \notin g.in
      BY <1>1, <1>2
    <3> QED BY <2>1, <3>1, <1>1, <1>3, <1>4
  <2>2. CASE i # x
    <3>1. i \in s \ {x} <=> i \in s
      BY <2>2
    <3> QED BY <2>2, <3>1, <1>2, <1>3, <1>4
  <2> QED BY <2>1, <2>2
<1>10. h.out = k.out
  BY <1>3, <1>4, <1>9, SameEntries DEF IndexOf
<1>11. h.in = k.in
  BY <1>3, <1>4, <1>9, SameEntries DEF IndexOf
<1>12. h = k
  BY <1>2, <1>3, <1>4, <1>5, <1>7, <1>8, <1>10, <1>11
<1> QED BY <1>12 DEF h, k, g

LEMMA LoadMeans ==
  ASSUME NEW ns, NEW rs, IsFiniteSet(DOMAIN rs), DOMAIN rs \subseteq Id,
         \A e \in DOMAIN rs : rs[e] \in Relationships /\ rs[e].id = e
  PROVE  LoadFromWorldModel(ns, rs) = Loaded(ns, rs, DOMAIN rs)
<1> DEFINE D == DOMAIN rs
           base == Unlinked(ns)
           Choice(s) == CHOOSE x \in s : TRUE
           Folds(f) == f = [s \in SUBSET D |-> IF s = {} THEN base
                                               ELSE AddEdge(f[s \ {Choice(s)}], rs[Choice(s)])]
<1>1. LoadFromWorldModel(ns, rs) = (CHOOSE f : Folds(f))[D]
  BY DEF LoadFromWorldModel, FoldSet, MapThenFoldSet
<1>2. base = Loaded(ns, rs, {})
  <2>1. base = [nodes |-> ns, edges |-> <<>>, out |-> {}, in |-> {}]
    BY DEF Unlinked
  <2>2. Loaded(ns, rs, {}) = [nodes |-> ns, edges |-> <<>>, out |-> {}, in |-> {}]
    BY DEF Loaded
  <2> QED BY <2>1, <2>2
<1> HIDE DEF base
<1>3. ASSUME NEW s \in SUBSET D, s # {}
      PROVE  /\ Choice(s) \in s /\ s \ {Choice(s)} \in SUBSET D
             /\ AddEdge(Loaded(ns, rs, s \ {Choice(s)}), rs[Choice(s)]) = Loaded(ns, rs, s)
  <2>1. Choice(s) \in s
    BY <1>3
  <2> HIDE DEF Choice
  <2> QED BY <2>1, LoadedAdds
<1> HIDE DEF Choice
<1>4. \E f : Folds(f)
  <2> DEFINE f == [s \in SUBSET D |-> Loaded(ns, rs, s)]
  <2>1. \A s \in SUBSET D : f[s] = Loaded(ns, rs, s)
    OBVIOUS
  <2>2. f = [s \in SUBSET D |-> f[s]]
    OBVIOUS
  <2> HIDE DEF f
  <2>3. ASSUME NEW s \in SUBSET D
        PROVE  f[s] = IF s = {} THEN base ELSE AddEdge(f[s \ {Choice(s)}], rs[Choice(s)])
    BY <1>2, <1>3, <2>1
  <2>4. Folds(f)
    BY <2>2, <2>3
  <2> QED BY <2>4
<1>5. PICK f : Folds(f) /\ LoadFromWorldModel(ns, rs) = f[D]
  <2> HIDE DEF Folds
  <2> QED BY <1>1, <1>4
<1>6. ASSUME NEW s \in SUBSET D
      PROVE  f[s] = IF s = {} THEN base ELSE AddEdge(f[s \ {Choice(s)}], rs[Choice(s)])
  BY <1>5
<1> HIDE DEF Folds
<1> DEFINE Off == {s \in SUBSET D : f[s] # Loaded(ns, rs, s)}
           sizes == {Cardinality(s) : s \in Off}
<1>7. Off = {}
  <2> SUFFICES ASSUME Off # {} PROVE FALSE
    OBVIOUS
  <2>1. \A s \in SUBSET D : IsFiniteSet(s) /\ Cardinality(s) \in Nat
    BY FS_Subset, FS_CardinalityType
  <2>2. sizes \in SUBSET Nat /\ sizes # {}
    BY <2>1
  <2>3. PICK s \in Off : \A t \in Off : Cardinality(s) <= Cardinality(t)
    <3>1. PICK c \in sizes : \A d \in sizes : c <= d
      <4> HIDE DEF sizes
      <4> QED BY <2>2, LeastExists
    <3> QED BY <3>1
  <2>4. s # {}
    BY <2>3, <1>2, <1>6
  <2>5. Choice(s) \in s /\ s \ {Choice(s)} \in SUBSET D
    BY <2>3, <2>4, <1>3
  <2>6. Cardinality(s \ {Choice(s)}) = Cardinality(s) - 1 /\ Cardinality(s) \in Nat
    BY <2>1, <2>3, <2>5, FS_RemoveElement
  <2>7. ~(Cardinality(s) <= Cardinality(s \ {Choice(s)}))
    BY <2>6
  <2>8. f[s \ {Choice(s)}] = Loaded(ns, rs, s \ {Choice(s)})
    BY <2>3, <2>5, <2>7
  <2>9. f[s] = Loaded(ns, rs, s)
    BY <2>3, <2>4, <2>8, <1>3, <1>6
  <2> QED BY <2>3, <2>9
<1> QED BY <1>5, <1>7

-----------------------------------------------------------------------------
LEMMA WorldInitHolds == ASSUME WorldInit PROVE WorldInv
<1>1. /\ entities = {} /\ DOMAIN relationships = {} /\ index = EmptyIndex
      /\ reshaped = {}
  BY DEF WorldInit
<1>2. /\ index.nodes = {} /\ DOMAIN index.edges = {} /\ index.out = {} /\ index.in = {}
      /\ DOMAIN index = {"nodes", "edges", "out", "in"}
  BY <1>1 DEF EmptyIndex, Unlinked
<1>3. IsFiniteSet(DOMAIN relationships)
  BY <1>1, FS_EmptySet
<1>4. WorldTypeOK
  BY <1>1, <1>2 DEF WorldTypeOK
<1>5. \A id \in Id : IdInStep(id)
  BY <1>1, <1>2 DEF IdInStep
<1> QED BY <1>1, <1>2, <1>3, <1>4, <1>5 DEF WorldInv, IndexOf, IdsFit

LEMMA UpdateEntityKeeps == ASSUME WorldInv, NEW n \in Entity, UpdateEntity(n) PROVE WorldInv'
<1>1. /\ entities' = entities \cup {n} /\ UNCHANGED <<relationships, reshaped>>
      /\ index' = [index EXCEPT !.nodes = @ \cup {n}]
  BY DEF UpdateEntity
<1>2. /\ index'.nodes = index.nodes \cup {n} /\ index'.edges = index.edges
      /\ index'.out = index.out /\ index'.in = index.in
      /\ DOMAIN index' = {"nodes", "edges", "out", "in"}
  BY <1>1 DEF WorldInv, IndexOf
<1>3. WorldTypeOK'
  BY <1>1, <1>2 DEF WorldInv, WorldTypeOK
<1>4. ASSUME NEW id \in Id \ reshaped' PROVE IdInStep(id)'
  <2>1. IdInStep(id)
    BY <1>1 DEF WorldInv
  <2> QED BY <2>1, <1>1, <1>2 DEF IdInStep
<1> QED BY <1>1, <1>2, <1>3, <1>4 DEF WorldInv, IndexOf, IdsFit

LEMMA RemoveEntityKeeps == ASSUME WorldInv, NEW n \in Entity, RemoveEntity(n) PROVE WorldInv'
<1> DEFINE cascade == {e \in DOMAIN relationships : Touches(relationships[e], n)}
<1>1. /\ entities' = entities \ {n}
      /\ relationships' = [e \in DOMAIN relationships \ cascade |-> relationships[e]]
      /\ index' = RemoveNode(index, n)
      /\ reshaped' = IF n \in entities THEN reshaped ELSE reshaped \cup cascade
  BY DEF RemoveEntity
<1>2. WorldTypeOK /\ IndexOf(index) /\ IdsFit /\ index.nodes = entities
  BY DEF WorldInv
<1>3. /\ DOMAIN relationships' = DOMAIN relationships \ cascade
      /\ \A e \in DOMAIN relationships' : relationships'[e] = relationships[e]
      /\ IsFiniteSet(DOMAIN relationships')
  <2>1. /\ DOMAIN relationships' = DOMAIN relationships \ cascade
        /\ \A e \in DOMAIN relationships' : relationships'[e] = relationships[e]
    BY <1>1
  <2>2. IsFiniteSet(DOMAIN relationships')
    BY <1>2, <2>1, FS_Subset DEF IdsFit
  <2> QED BY <2>1, <2>2
<1>4. cascade \subseteq Id
  BY <1>2 DEF WorldTypeOK
<1>5. CASE n \in entities
  <2> DEFINE h == RemoveNode(index, n)
  <2>1. /\ IndexOf(h) /\ h.nodes = index.nodes \ {n}
        /\ DOMAIN h.edges \subseteq DOMAIN index.edges
        /\ \A e \in DOMAIN h.edges : h.edges[e] = index.edges[e]
        /\ \A r \in Relationships :
               (\A a, b \in Entity : /\ <<a, r.id, b>> \in index.out <=> Leads(r, a, b)
                                     /\ <<a, r.id, b>> \in index.in <=> Leads(r, b, a))
               => /\ (r.id \in DOMAIN h.edges
                         <=> r.id \in DOMAIN index.edges /\ ~Touches(r, n))
                  /\ \A a, b \in Entity :
                         /\ <<a, r.id, b>> \in h.out <=> Leads(r, a, b) /\ ~Touches(r, n)
                         /\ <<a, r.id, b>> \in h.in <=> Leads(r, b, a) /\ ~Touches(r, n)
        /\ \A id \in Id :
               (\A a, b \in Entity : <<a, id, b>> \notin index.out /\ <<a, id, b>> \notin index.in)
               => /\ id \in DOMAIN h.edges <=> id \in DOMAIN index.edges
                  /\ \A a, b \in Entity : <<a, id, b>> \notin h.out /\ <<a, id, b>> \notin h.in
    BY <1>2, <1>5, RemoveNodeMeans
  <2> HIDE DEF h
  <2>2. index' = h /\ reshaped' = reshaped
    BY <1>1, <1>5 DEF h
  <2>3. WorldTypeOK'
    BY <1>1, <1>2, <1>3, <2>1, <2>2 DEF WorldTypeOK, IndexOf, Triple
  <2>4. ASSUME NEW id \in Id \ reshaped' PROVE IdInStep(id)'
    <3>1. IdInStep(id)
      BY <2>2 DEF WorldInv
    <3>2. CASE id \in DOMAIN relationships
      <4> DEFINE r == relationships[id]
      <4>1. r \in Relationships /\ r.id = id
        BY <3>2, <1>2 DEF WorldTypeOK, IdsFit
      <4>2. id \in DOMAIN relationships' <=> ~Touches(r, n)
        BY <3>2, <1>3
      <4>3. \A a, b \in Entity : /\ <<a, id, b>> \in index.out <=> Leads(r, a, b)
                                 /\ <<a, id, b>> \in index.in <=> Leads(r, b, a)
        BY <3>1, <3>2 DEF IdInStep
      <4>4. /\ id \in DOMAIN index'.edges <=> id \in DOMAIN index.edges /\ ~Touches(r, n)
            /\ \A a, b \in Entity :
                   /\ <<a, id, b>> \in index'.out <=> Leads(r, a, b) /\ ~Touches(r, n)
                   /\ <<a, id, b>> \in index'.in <=> Leads(r, b, a) /\ ~Touches(r, n)
        BY <2>1, <2>2, <4>1, <4>3
      <4>5. /\ id \in DOMAIN relationships' => relationships'[id] = r
            /\ id \in DOMAIN index'.edges => index'.edges[id] = r
        BY <3>1, <3>2, <1>3, <2>1, <2>2 DEF IdInStep
      <4>6. id \in DOMAIN index.edges
        BY <3>1, <3>2 DEF IdInStep
      <4> HIDE DEF r
      <4> QED BY <4>2, <4>4, <4>5, <4>6 DEF IdInStep
    <3>3. CASE id \notin DOMAIN relationships
      <4>1. id \notin DOMAIN relationships' /\ id \notin DOMAIN index.edges
        BY <3>1, <3>3, <1>3 DEF IdInStep
      <4>2. \A a, b \in Entity : <<a, id, b>> \notin index.out /\ <<a, id, b>> \notin index.in
        BY <3>1, <3>3 DEF IdInStep
      <4>3. /\ id \notin DOMAIN index'.edges
            /\ \A a, b \in Entity : <<a, id, b>> \notin index'.out /\ <<a, id, b>> \notin index'.in
        BY <2>1, <2>2, <4>1, <4>2
      <4> QED BY <4>1, <4>3 DEF IdInStep
    <3> QED BY <3>2, <3>3
  <2> QED BY <1>1, <1>2, <1>3, <2>1, <2>2, <2>3, <2>4 DEF WorldInv, IdsFit
<1>6. CASE n \notin entities
  <2>1. index' = index /\ reshaped' = reshaped \cup cascade /\ entities' = entities
    BY <1>1, <1>2, <1>6 DEF RemoveNode
  <2>2. WorldTypeOK'
    BY <1>2, <1>3, <1>4, <2>1 DEF WorldTypeOK
  <2>3. ASSUME NEW id \in Id \ reshaped' PROVE IdInStep(id)'
    <3>1. IdInStep(id) /\ id \notin cascade
      BY <2>1 DEF WorldInv
    <3>2. /\ id \in DOMAIN relationships' <=> id \in DOMAIN relationships
          /\ id \in DOMAIN relationships => relationships'[id] = relationships[id]
      BY <3>1, <1>3
    <3> QED BY <3>1, <3>2, <2>1 DEF IdInStep
  <2> QED BY <1>2, <1>3, <2>1, <2>2, <2>3 DEF WorldInv, IdsFit
<1> QED BY <1>5, <1>6

LEMMA UpdateRelationshipKeeps ==
  ASSUME WorldInv, NEW r \in Relationships, UpdateRelationship(r)
  PROVE  WorldInv'
<1> DEFINE h == AddEdge(index, r)
           again == r.id \in DOMAIN index.edges /\ Shape(index.edges[r.id]) # Shape(r)
<1>1. /\ relationships' = With(relationships, r.id, r)
      /\ index' = h /\ UNCHANGED entities
      /\ reshaped' = IF again THEN reshaped \cup {r.id} ELSE reshaped
  BY DEF UpdateRelationship
<1>2. WorldTypeOK /\ IndexOf(index) /\ IdsFit /\ index.nodes = entities
  BY DEF WorldInv
<1>3. r.source \in Entity /\ r.target \in Entity /\ r.both \in BOOLEAN /\ r.id \in Id
  BY RelationshipTyped
<1>4. /\ IndexOf(h) /\ h.nodes = index.nodes
      /\ h.edges = With(index.edges, r.id, r)
      /\ \A a, b \in Entity, i \in Id :
             /\ i # r.id => /\ <<a, i, b>> \in h.out <=> <<a, i, b>> \in index.out
                            /\ <<a, i, b>> \in h.in <=> <<a, i, b>> \in index.in
             /\ Leads(r, a, b) => <<a, r.id, b>> \in h.out
             /\ <<a, r.id, b>> \in h.out => Leads(r, a, b) \/ <<a, r.id, b>> \in index.out
             /\ Leads(r, b, a) => <<a, r.id, b>> \in h.in
             /\ <<a, r.id, b>> \in h.in => Leads(r, b, a) \/ <<a, r.id, b>> \in index.in
  BY <1>2, AddEdgeMeans
<1> HIDE DEF h
<1>5. /\ DOMAIN relationships' = DOMAIN relationships \cup {r.id}
      /\ relationships'[r.id] = r
      /\ \A e \in DOMAIN relationships : e # r.id => relationships'[e] = relationships[e]
  BY <1>1 DEF With
<1>6. /\ DOMAIN index'.edges = DOMAIN index.edges \cup {r.id}
      /\ index'.edges[r.id] = r
      /\ \A e \in DOMAIN index.edges : e # r.id => index'.edges[e] = index.edges[e]
  BY <1>1, <1>4 DEF With
<1>7. IsFiniteSet(DOMAIN relationships')
  BY <1>2, <1>5, FS_AddElement DEF IdsFit
<1>8. WorldTypeOK'
  <2>1. reshaped' \subseteq Id
    BY <1>1, <1>2, <1>3 DEF WorldTypeOK
  <2>2. /\ DOMAIN relationships' \subseteq Id /\ DOMAIN index'.edges \subseteq Id
        /\ \A e \in DOMAIN relationships' : relationships'[e] \in Relationships
        /\ \A e \in DOMAIN index'.edges : index'.edges[e] \in Relationships
    BY <1>2, <1>3, <1>5, <1>6 DEF WorldTypeOK
  <2> QED BY <1>1, <1>2, <1>4, <2>1, <2>2 DEF WorldTypeOK, IndexOf, Triple
<1>9. ASSUME NEW id \in Id \ reshaped' PROVE IdInStep(id)'
  <2>1. id \notin reshaped /\ IdInStep(id)
    <3>1. id \notin reshaped
      BY <1>1
    <3> QED BY <3>1 DEF WorldInv
  <2>2. CASE id # r.id
    BY <2>1, <2>2, <1>1, <1>4, <1>5, <1>6 DEF IdInStep
  <2>3. CASE id = r.id
    <3>1. ASSUME NEW a \in Entity, NEW b \in Entity
          PROVE  /\ <<a, r.id, b>> \in index.out => Leads(r, a, b)
                 /\ <<a, r.id, b>> \in index.in => Leads(r, b, a)
      <4>1. CASE r.id \in DOMAIN index.edges
        <5> DEFINE old == index.edges[r.id]
        <5>1. Shape(old) = Shape(r)
          BY <4>1, <2>3, <1>1
        <5>2. old.source = r.source /\ old.target = r.target /\ old.both = r.both
          BY <5>1 DEF Shape
        <5>3. /\ <<a, r.id, b>> \in index.out <=> Leads(old, a, b)
              /\ <<a, r.id, b>> \in index.in <=> Leads(old, b, a)
          BY <4>1, <2>1, <2>3 DEF IdInStep
        <5> HIDE DEF old
        <5> QED BY <5>2, <5>3 DEF Leads
      <4>2. CASE r.id \notin DOMAIN index.edges
        BY <4>2, <2>1, <2>3 DEF IdInStep
      <4> QED BY <4>1, <4>2
    <3>2. \A a, b \in Entity : /\ <<a, r.id, b>> \in index'.out <=> Leads(r, a, b)
                               /\ <<a, r.id, b>> \in index'.in <=> Leads(r, b, a)
      BY <3>1, <1>1, <1>3, <1>4
    <3> QED BY <3>2, <2>3, <1>5, <1>6 DEF IdInStep
  <2> QED BY <2>2, <2>3
<1>10. IdsFit'
  BY <1>2, <1>5, <1>6, <1>7 DEF IdsFit
<1> QED BY <1>1, <1>2, <1>4, <1>8, <1>9, <1>10 DEF WorldInv

LEMMA RemoveRelationshipKeeps ==
  ASSUME WorldInv, NEW id \in Id, RemoveRelationship(id)
  PROVE  WorldInv'
<1>1. /\ relationships' = [e \in DOMAIN relationships \ {id} |-> relationships[e]]
      /\ index' = RemoveEdge(index, id)
      /\ UNCHANGED <<entities, reshaped>>
  BY DEF RemoveRelationship
<1>2. WorldTypeOK /\ IndexOf(index) /\ IdsFit /\ index.nodes = entities
  BY DEF WorldInv
<1>3. /\ DOMAIN relationships' = DOMAIN relationships \ {id}
      /\ \A e \in DOMAIN relationships' : relationships'[e] = relationships[e]
  BY <1>1
<1>4. IsFiniteSet(DOMAIN relationships')
  BY <1>2, <1>3, FS_Subset DEF IdsFit
<1>5. CASE id \in DOMAIN index.edges
  <2> DEFINE h == RemoveEdge(index, id)
             r == index.edges[id]
  <2>1. r \in Relationships
    BY <1>2, <1>5 DEF WorldTypeOK
  <2>2. /\ IndexOf(h) /\ h.nodes = index.nodes
        /\ h.edges = [e \in DOMAIN index.edges \ {id} |-> index.edges[e]]
        /\ \A a, b \in Entity, i \in Id :
               /\ i # id => /\ <<a, i, b>> \in h.out <=> <<a, i, b>> \in index.out
                            /\ <<a, i, b>> \in h.in <=> <<a, i, b>> \in index.in
               /\ <<a, id, b>> \in h.out =>
                      <<a, id, b>> \in index.out /\ a # r.source /\ ~(r.both /\ a = r.target)
               /\ <<a, id, b>> \in h.in =>
                      <<a, id, b>> \in index.in /\ a # r.target /\ ~(r.both /\ a = r.source)
    BY <1>2, <1>5, <2>1, RemoveEdgeMeans
  <2> HIDE DEF h
  <2>3. index' = h
    BY <1>1 DEF h
  <2>4. /\ DOMAIN index'.edges = DOMAIN index.edges \ {id}
        /\ \A e \in DOMAIN index'.edges : index'.edges[e] = index.edges[e]
    BY <2>2, <2>3
  <2>5. WorldTypeOK'
    BY <1>1, <1>2, <1>3, <2>2, <2>3, <2>4 DEF WorldTypeOK, IndexOf, Triple
  <2>6. ASSUME NEW i \in Id \ reshaped' PROVE IdInStep(i)'
    <3>1. IdInStep(i)
      BY <1>1 DEF WorldInv
    <3>2. CASE i # id
      BY <3>1, <3>2, <1>3, <2>2, <2>3, <2>4 DEF IdInStep
    <3>3. CASE i = id
      <4>1. \A a, b \in Entity : /\ <<a, id, b>> \in index.out <=> Leads(r, a, b)
                                 /\ <<a, id, b>> \in index.in <=> Leads(r, b, a)
        BY <3>1, <3>3, <1>5 DEF IdInStep
      <4> HIDE DEF r
      <4>2. \A a, b \in Entity : <<a, id, b>> \notin index'.out /\ <<a, id, b>> \notin index'.in
        BY <4>1, <2>2, <2>3 DEF Leads
      <4> QED BY <4>2, <3>3, <1>3, <2>4 DEF IdInStep
    <3> QED BY <3>2, <3>3
  <2>7. IdsFit'
    BY <1>2, <1>3, <1>4, <2>4 DEF IdsFit
  <2> QED BY <1>1, <1>2, <2>2, <2>3, <2>5, <2>6, <2>7 DEF WorldInv
<1>6. CASE id \notin DOMAIN index.edges
  <2>1. index' = index
    BY <1>1, <1>6 DEF RemoveEdge
  <2>2. WorldTypeOK' /\ IdsFit'
    BY <1>1, <1>2, <1>3, <1>4, <2>1 DEF WorldTypeOK, IdsFit
  <2>3. ASSUME NEW i \in Id \ reshaped' PROVE IdInStep(i)'
    <3>1. IdInStep(i)
      BY <1>1 DEF WorldInv
    <3>2. i = id => i \notin DOMAIN relationships
      BY <3>1, <1>6 DEF IdInStep
    <3> QED BY <3>1, <3>2, <1>3, <2>1 DEF IdInStep
  <2> QED BY <1>1, <1>2, <2>1, <2>2, <2>3 DEF WorldInv
<1> QED BY <1>5, <1>6

LEMMA SetModelKeeps == ASSUME WorldInv, SetModel PROVE WorldInv'
<1>1. /\ index' = LoadFromWorldModel(entities, relationships)
      /\ reshaped' = {} /\ UNCHANGED <<entities, relationships>>
  BY DEF SetModel
<1>2. /\ WorldTypeOK /\ IsFiniteSet(DOMAIN relationships) /\ DOMAIN relationships \subseteq Id
      /\ \A e \in DOMAIN relationships : relationships[e] \in Relationships /\ relationships[e].id = e
  BY DEF WorldInv, WorldTypeOK, IdsFit
<1>3. index' = Loaded(entities, relationships, DOMAIN relationships)
  BY <1>1, <1>2, LoadMeans
<1>4. /\ IndexOf(index') /\ index'.nodes = entities /\ DOMAIN index'.edges = DOMAIN relationships
      /\ \A e \in DOMAIN relationships : index'.edges[e] = relationships[e]
      /\ \A a, b \in Entity, i \in Id :
             /\ <<a, i, b>> \in index'.out <=> i \in DOMAIN relationships /\ Leads(relationships[i], a, b)
             /\ <<a, i, b>> \in index'.in <=> i \in DOMAIN relationships /\ Leads(relationships[i], b, a)
  BY <1>3, LoadedMeans
<1>5. \A id \in Id : IdInStep(id)'
  BY <1>1, <1>4 DEF IdInStep
<1>6. WorldTypeOK'
  BY <1>1, <1>2, <1>4 DEF WorldTypeOK, IndexOf, Triple
<1>7. IdsFit'
  BY <1>1, <1>2, <1>4 DEF IdsFit
<1> QED BY <1>1, <1>4, <1>5, <1>6, <1>7 DEF WorldInv

LEMMA WorldNextKeeps == ASSUME WorldInv, [WorldNext]_worldVars PROVE WorldInv'
<1>1. CASE WorldNext
  BY <1>1, UpdateEntityKeeps, RemoveEntityKeeps, UpdateRelationshipKeeps, RemoveRelationshipKeeps,
     SetModelKeeps DEF WorldNext
<1>2. CASE UNCHANGED worldVars
  <2>1. UNCHANGED <<entities, relationships, index, reshaped>>
    BY <1>2 DEF worldVars
  <2>2. WorldTypeOK' /\ IdsFit' /\ IndexOf(index')
    BY <2>1 DEF WorldInv, WorldTypeOK, IdsFit
  <2>3. \A id \in Id \ reshaped' : IdInStep(id)'
    BY <2>1 DEF WorldInv, IdInStep
  <2> QED BY <2>1, <2>2, <2>3 DEF WorldInv
<1> QED BY <1>1, <1>2

\* The inductive invariant of the world model and its index.
THEOREM WorldInvariant == WorldSpec => []WorldInv
<1> QED BY WorldInitHolds, WorldNextKeeps, PTL DEF WorldSpec

\* Type correctness of the world model and its index.
THEOREM WorldTypeCorrect == WorldSpec => []WorldTypeOK
<1>1. WorldInv => WorldTypeOK
  BY DEF WorldInv
<1> QED BY <1>1, WorldInvariant, PTL

\* The index that WorldEngine patches beside the model is that of the model.
THEOREM IndexAlwaysInStep == WorldSpec => []IndexInStep
<1>1. WorldInv => IndexInStep
  <2> SUFFICES ASSUME WorldInv, NEW id \in Id \ reshaped
               PROVE  LET of == {e \in {id} : e \in DOMAIN relationships}
                          entries == UNION {Ends(relationships[e]) : e \in of}
                      IN  /\ {e \in {id} : e \in DOMAIN index.edges} = of
                          /\ \A e \in of : index.edges[e] = relationships[e]
                          /\ {t \in index.out : t[2] = id} = entries
                          /\ {t \in index.in : t[2] = id} = Reversed(entries)
    BY DEF IndexInStep, WorldInv
  <2> DEFINE of == {e \in {id} : e \in DOMAIN relationships}
             entries == UNION {Ends(relationships[e]) : e \in of}
             there == id \in DOMAIN relationships
             r == relationships[id]
  <2>1. IdInStep(id) /\ WorldTypeOK /\ IdsFit /\ IndexOf(index)
    BY DEF WorldInv
  <2>2. there => r \in Relationships /\ r.id = id
    BY <2>1 DEF WorldTypeOK, IdsFit
  <2>3. /\ {e \in {id} : e \in DOMAIN index.edges} = of
        /\ \A e \in of : index.edges[e] = relationships[e]
    BY <2>1 DEF IdInStep
  <2>4. entries = IF there THEN Ends(r) ELSE {}
    OBVIOUS
  <2> HIDE DEF entries, of
  <2>5. there => /\ r.source \in Entity /\ r.target \in Entity /\ r.both \in BOOLEAN /\ r.id = id
    BY <2>2, RelationshipTyped
  <2>6. entries \in SUBSET Triple
    BY <2>4, <2>5 DEF Ends, Triple
  <2>7. \A a, b \in Entity, i \in Id : <<a, i, b>> \in entries <=> i = id /\ there /\ Leads(r, a, b)
    BY <2>4, <2>5 DEF Ends, Leads
  <2>8. /\ Reversed(entries) \in SUBSET Triple
        /\ \A a, b \in Entity, i \in Id : <<a, i, b>> \in Reversed(entries) <=> <<b, i, a>> \in entries
    <3>1. \A t \in Triple : /\ <<t[3], t[2], t[1]>> \in Triple
                           /\ t = <<t[1], t[2], t[3]>>
      BY DEF Triple
    <3>2. \A a, b, i : <<b, i, a>>[1] = b /\ <<b, i, a>>[2] = i /\ <<b, i, a>>[3] = a
      OBVIOUS
    <3>3. Reversed(entries) \in SUBSET Triple
      BY <2>6, <3>1 DEF Reversed
    <3>4. ASSUME NEW a \in Entity, NEW b \in Entity, NEW i \in Id, <<a, i, b>> \in Reversed(entries)
          PROVE  <<b, i, a>> \in entries
      <4>1. PICK t \in entries : <<a, i, b>> = <<t[3], t[2], t[1]>>
        BY <3>4 DEF Reversed
      <4>2. a = t[3] /\ i = t[2] /\ b = t[1] /\ t = <<t[1], t[2], t[3]>>
        BY <4>1, <2>6, <3>1
      <4> QED BY <4>2
    <3>5. ASSUME NEW a \in Entity, NEW b \in Entity, NEW i \in Id, <<b, i, a>> \in entries
          PROVE  <<a, i, b>> \in Reversed(entries)
      BY <3>2, <3>5 DEF Reversed
    <3> QED BY <3>3, <3>4, <3>5
  <2>9. \A a, b \in Entity, i \in Id :
            /\ <<a, i, b>> \in {t \in index.out : t[2] = id} <=> <<a, i, b>> \in index.out /\ i = id
            /\ <<a, i, b>> \in {t \in index.in : t[2] = id} <=> <<a, i, b>> \in index.in /\ i = id
    OBVIOUS
  <2>10. \A a, b \in Entity : /\ <<a, id, b>> \in index.out <=> there /\ Leads(r, a, b)
                              /\ <<a, id, b>> \in index.in <=> there /\ Leads(r, b, a)
    BY <2>1 DEF IdInStep
  <2>11. {t \in index.out : t[2] = id} = entries
    <3> DEFINE S == {t \in index.out : t[2] = id}
    <3>1. S \in SUBSET Triple
      BY <2>1 DEF IndexOf
    <3>2. \A a, b \in Entity, i \in Id : <<a, i, b>> \in S <=> <<a, i, b>> \in entries
      BY <2>7, <2>9, <2>10
    <3> HIDE DEF S
    <3>3. S = entries
      BY <3>1, <3>2, <2>6, SameEntries
    <3> QED BY <3>3 DEF S
  <2>12. {t \in index.in : t[2] = id} = Reversed(entries)
    <3> DEFINE S == {t \in index.in : t[2] = id}
    <3>1. S \in SUBSET Triple
      BY <2>1 DEF IndexOf
    <3>2. \A a, b \in Entity, i \in Id : <<a, i, b>> \in S <=> <<a, i, b>> \in Reversed(entries)
      BY <2>7, <2>8, <2>9, <2>10
    <3> HIDE DEF S
    <3>3. S = Reversed(entries)
      BY <3>1, <3>2, <2>8, SameEntries
    <3> QED BY <3>3 DEF S
  <2> QED BY <2>3, <2>11, <2>12 DEF entries, of
<1> QED BY <1>1, WorldInvariant, PTL

-----------------------------------------------------------------------------
(***************************************************************************)
(* What the searches make of an index in step.                             *)
(***************************************************************************)

\* The relationships of the model, and those that lead on from n.
Stored == Range(relationships)
Leaving(n) == {r \in Stored : r.source = n \/ (r.both /\ r.target = n)}

\* The index holds the relationships of the model, each at the ends it leads from.
InStep ==
    /\ entities \subseteq Entity /\ IsFiniteSet(Entity) /\ IsFiniteSet(Stored)
    /\ index.nodes = entities
    /\ {index.edges[e] : e \in DOMAIN index.edges} = Stored
    /\ \A r \in Stored : /\ r.source \in Entity /\ r.target \in Entity
                         /\ r.weight \in Nat /\ r.both \in BOOLEAN
    /\ \A n \in Entity : OutEdges(index, n) = Leaving(n)

LEMMA IndexInStepIs == ASSUME WorldInv, reshaped = {} PROVE InStep
<1>1. /\ entities \subseteq Entity /\ IsFiniteSet(Entity) /\ index.nodes = entities
      /\ \A e \in DOMAIN relationships : e \in Id /\ relationships[e] \in Relationships
      /\ \A id \in Id : IdInStep(id)
      /\ DOMAIN index.edges \subseteq Id
      /\ index.out \subseteq Triple
  BY WorldAssumption DEF WorldInv, WorldTypeOK, IndexOf
<1>2. DOMAIN index.edges = DOMAIN relationships
      /\ \A e \in DOMAIN relationships : index.edges[e] = relationships[e]
  BY <1>1 DEF IdInStep
<1>3. {index.edges[e] : e \in DOMAIN index.edges} = Stored
  BY <1>2 DEF Stored, Range
<1>4. IsFiniteSet(Stored)
  <2> DEFINE f == [e \in DOMAIN relationships |-> relationships[e]]
  <2>1. f \in Surjection(DOMAIN relationships, Stored)
    BY DEF Surjection, Stored, Range
  <2>2. IsFiniteSet(DOMAIN relationships)
    BY DEF WorldInv, IdsFit
  <2> QED BY <2>1, <2>2, FS_Surjection
<1>5. \A r \in Stored : /\ r \in Relationships
                        /\ r.source \in Entity /\ r.target \in Entity
                        /\ r.weight \in Nat /\ r.both \in BOOLEAN
  <2>1. \A r \in Stored : r \in Relationships
    BY <1>1 DEF Stored, Range
  <2> QED BY <2>1, WorldAssumption
<1>6. ASSUME NEW n \in Entity PROVE OutEdges(index, n) = Leaving(n)
  <2>1. ASSUME NEW t \in index.out, t[1] = n, t[2] \in DOMAIN index.edges
        PROVE  index.edges[t[2]] \in Leaving(n)
    <3>1. PICK a \in Entity, id \in Id, b \in Entity : t = <<a, id, b>>
      BY <1>1 DEF Triple
    <3>2. a = n /\ t[2] = id
      BY <2>1, <3>1
    <3>3. id \in DOMAIN relationships /\ Leads(relationships[id], n, b)
      BY <1>1, <3>1, <3>2 DEF IdInStep
    <3>4. index.edges[t[2]] = relationships[id] /\ relationships[id] \in Stored
      BY <1>2, <3>2, <3>3 DEF Stored, Range
    <3> QED BY <3>3, <3>4 DEF Leads, Leaving
  <2>2. ASSUME NEW r \in Leaving(n)
        PROVE  \E t \in index.out : t[1] = n /\ t[2] \in DOMAIN index.edges /\ index.edges[t[2]] = r
    <3>1. PICK id \in DOMAIN relationships : r = relationships[id]
      BY DEF Leaving, Stored, Range
    <3>2. PICK b \in Entity : Leads(r, n, b)
      <4>1. r \in Stored /\ (r.source = n \/ (r.both /\ r.target = n))
        BY DEF Leaving
      <4> QED BY <4>1, <1>5 DEF Leads
    <3>3. id \in Id /\ <<n, id, b>> \in index.out
      BY <1>1, <3>1, <3>2 DEF IdInStep
    <3> QED BY <3>1, <3>3, <1>2
  <2> QED BY <2>1, <2>2 DEF OutEdges, EdgesOf
<1> QED BY <1>1, <1>3, <1>4, <1>5, <1>6 DEF InStep

\* Some relationship leads from u to v exactly when they are an arc.
LEMMA ArcsAre ==
  ASSUME InStep
  PROVE  /\ \A u, v : <<u, v>> \in Arcs <=> \E r \in Stored : Leads(r, u, v)
         /\ \A a \in Arcs : a[1] \in Entity /\ a[2] \in Entity /\ a = <<a[1], a[2]>>
<1>1. ASSUME NEW r \in Stored
      PROVE  \A u, v : <<u, v>> \in {<<t[1], t[3]>> : t \in Ends(r)} <=> Leads(r, u, v)
  <2>1. r.both \in BOOLEAN
    BY DEF InStep
  <2>2. \A t \in Ends(r) : Leads(r, t[1], t[3])
    BY <2>1 DEF Ends, Leads
  <2>3. ASSUME NEW u, NEW v, Leads(r, u, v) PROVE \E t \in Ends(r) : t[1] = u /\ t[3] = v
    <3>1. <<u, r.id, v>> \in Ends(r) /\ <<u, r.id, v>>[1] = u /\ <<u, r.id, v>>[3] = v
      BY <2>1, <2>3 DEF Ends, Leads
    <3> QED BY <3>1
  <2> HIDE DEF Ends
  <2> QED BY <2>2, <2>3
<1>2. \A u, v : <<u, v>> \in Arcs <=> \E r \in Stored : Leads(r, u, v)
  BY <1>1 DEF Arcs, Stored
<1>3. ASSUME NEW a \in Arcs PROVE a[1] \in Entity /\ a[2] \in Entity /\ a = <<a[1], a[2]>>
  <2>1. PICK r \in Stored : a \in {<<t[1], t[3]>> : t \in Ends(r)}
    BY DEF Arcs, Stored
  <2>5. PICK t \in Ends(r) : a = <<t[1], t[3]>>
    BY <2>1
  <2>2. r.source \in Entity /\ r.target \in Entity
    BY DEF InStep
  <2>3. t[1] \in Entity /\ t[3] \in Entity
    BY <2>2, <2>5 DEF Ends
  <2> QED BY <2>3, <2>5
<1> QED BY <1>2, <1>3

\* A way on from n along r leads where r leads from n.
LEMMA AcrossLeads ==
  ASSUME InStep, NEW n \in Entity, NEW r \in Stored
  PROVE  /\ \A v : r \in Leaving(n) /\ Across(r, n) = v <=> Leads(r, n, v)
         /\ \A v : r \in Leaving(n) /\ (IF r.source = n THEN r.target ELSE r.source) = v
                       <=> Leads(r, n, v)
<1>1. r.both \in BOOLEAN
  BY DEF InStep
<1> QED BY <1>1 DEF Leaving, Across, Leads

LEMMA WaysLead ==
  ASSUME InStep, NEW n \in Entity
  PROVE  /\ \A x \in WaysOut(index, n) : /\ x = Way(x.edge, x.node) /\ x.edge \in Stored
                                         /\ Leads(x.edge, n, x.node)
         /\ \A r \in Stored : \A v : Leads(r, n, v) => Way(r, v) \in WaysOut(index, n)
<1>1. WaysOut(index, n) = {Way(r, Across(r, n)) : r \in Leaving(n)}
  BY DEF WaysOut, InStep
<1>2. \A r \in Leaving(n) : r \in Stored
  BY DEF Leaving
<1>3. \A r, v : Way(r, v).edge = r /\ Way(r, v).node = v
  BY DEF Way
<1> QED BY <1>1, <1>2, <1>3, AcrossLeads

-----------------------------------------------------------------------------
\* Routes, and the shortest of them.
IsRoute(nodes, s, t, p) ==
    /\ p \in Seq(nodes) /\ Len(p) \in Nat \ {0} /\ p[1] = s /\ p[Len(p)] = t
    /\ OnceEach(p)
    /\ \A i \in 1..Len(p) - 1 : <<p[i], p[i + 1]>> \in Arcs

LEMMA RoutesAre ==
  ASSUME InStep, NEW nodes \in SUBSET Entity, NEW s, NEW t, NEW p
  PROVE  p \in Routes(nodes, s, t) <=> IsRoute(nodes, s, t, p)
<1> DEFINE n == Cardinality(nodes)
<1>1. IsFiniteSet(nodes) /\ n \in Nat
  BY FS_Subset, FS_CardinalityType DEF InStep
<1>2. ASSUME p \in SeqOf(nodes, n) PROVE p \in Seq(nodes) /\ Len(p) \in Nat
  <2>1. PICK m \in 0..n : p \in [1..m -> nodes]
    BY <1>2 DEF SeqOf
  <2> QED BY <2>1, <1>1
<1>3. ASSUME p \in Seq(nodes), OnceEach(p) PROVE p \in SeqOf(nodes, n)
  <2>1. Len(p) \in Nat /\ Len(p) <= n
    BY <1>1, <1>3, NoLonger
  <2>2. p \in [1..Len(p) -> nodes] /\ Len(p) \in 0..n
    BY <1>1, <1>3, <2>1
  <2> QED BY <2>2 DEF SeqOf
<1>4. ASSUME p \in Seq(nodes) PROVE /\ IsInjective(p) <=> OnceEach(p)
                                    /\ Len(p) \in Nat
                                    /\ p # <<>> <=> Len(p) # 0
  <2>1. DOMAIN p = 1..Len(p) /\ Len(p) \in Nat
    BY <1>4
  <2>2. p # <<>> <=> Len(p) # 0
    BY <1>4
  <2> QED BY <2>1, <2>2 DEF IsInjective, OnceEach
<1> HIDE DEF n
<1>5. ASSUME p \in Routes(nodes, s, t) PROVE IsRoute(nodes, s, t, p)
  <2>1. /\ p \in SeqOf(nodes, n) /\ p # <<>> /\ p[1] = s /\ p[Len(p)] = t /\ IsInjective(p)
        /\ \A i \in 1..Len(p) - 1 : <<p[i], p[i + 1]>> \in Arcs
    BY <1>5 DEF Routes, Last, n
  <2> QED BY <2>1, <1>2, <1>4 DEF IsRoute
<1>6. ASSUME IsRoute(nodes, s, t, p) PROVE p \in Routes(nodes, s, t)
  <2>1. /\ p \in Seq(nodes) /\ Len(p) \in Nat \ {0} /\ p[1] = s /\ p[Len(p)] = t /\ OnceEach(p)
        /\ \A i \in 1..Len(p) - 1 : <<p[i], p[i + 1]>> \in Arcs
    BY <1>6 DEF IsRoute
  <2>2. p \in SeqOf(nodes, n) /\ p # <<>> /\ IsInjective(p)
    BY <2>1, <1>3, <1>4
  <2> QED BY <2>1, <2>2 DEF Routes, Last, n
<1> QED BY <1>5, <1>6

LEMMA MinIs ==
  ASSUME NEW S \in SUBSET Nat, S # {}
  PROVE  Min(S) \in S /\ \A x \in S : Min(S) <= x
<1>1. \E x \in S : \A y \in S : x <= y
  BY LeastExists
<1> QED BY <1>1 DEF Min

LEMMA MinOf ==
  ASSUME NEW S \in SUBSET Nat, NEW m \in S, \A x \in S : m <= x
  PROVE  Min(S) = m
<1>1. Min(S) \in S /\ Min(S) <= m
  BY MinIs
<1>2. m <= Min(S) /\ m \in Nat /\ Min(S) \in Nat
  BY <1>1
<1> QED BY <1>1, <1>2

LEMMA HopsAre ==
  ASSUME InStep, NEW nodes \in SUBSET Entity, NEW s, NEW t
  PROVE  /\ \A d \in Nat :
                /\ \E p \in Routes(nodes, s, t) : Len(p) = d + 1
                /\ \A p \in Routes(nodes, s, t) : d <= Len(p) - 1
                => Hops(nodes, s, t) = d
         /\ Routes(nodes, s, t) # {} =>
                /\ Hops(nodes, s, t) \in Nat
                /\ \E p \in Routes(nodes, s, t) : Len(p) = Hops(nodes, s, t) + 1
<1> DEFINE R == Routes(nodes, s, t)
           S == {Len(p) - 1 : p \in R}
<1>1. \A p \in R : Len(p) \in Nat \ {0}
  BY RoutesAre DEF IsRoute
<1>2. Hops(nodes, s, t) = Min(S)
  BY DEF Hops
<1> HIDE DEF R
<1>3. S \in SUBSET Nat
  BY <1>1
<1>4. ASSUME NEW d \in Nat, NEW p \in R, Len(p) = d + 1, \A q \in R : d <= Len(q) - 1
      PROVE  Hops(nodes, s, t) = d
  <2>1. d \in S /\ \A x \in S : d <= x
    BY <1>4
  <2> HIDE DEF S
  <2> QED BY <2>1, <1>2, <1>3, MinOf
<1>5. ASSUME R # {} PROVE Hops(nodes, s, t) \in Nat /\ \E p \in R : Len(p) = Hops(nodes, s, t) + 1
  <2>1. S # {}
    BY <1>5
  <2>2. Min(S) \in S
    <3> HIDE DEF S
    <3> QED BY <2>1, <1>3, MinIs
  <2> DEFINE m == Min(S)
  <2>3. m \in S /\ m = Hops(nodes, s, t)
    BY <2>2, <1>2
  <2> HIDE DEF m
  <2>4. PICK p \in R : m = Len(p) - 1
    BY <2>3
  <2>5. Len(p) = m + 1 /\ m \in Nat
    BY <2>4, <1>1
  <2> QED BY <2>3, <2>5
<1> QED BY <1>4, <1>5 DEF R

\* The ways of next to nodes are the arcs to them.
FollowsArcs(next, nodes) ==
    /\ nodes \subseteq Entity /\ DOMAIN next \subseteq Entity
    /\ \A u \in DOMAIN next : \A v \in Entity :
          (\E x \in next[u] : x.node = v) <=> v \in nodes /\ <<u, v>> \in Arcs
    /\ \A u, v \in Entity : <<u, v>> \in Arcs => v \in DOMAIN next

LEMMA RouteIsWalk ==
  ASSUME InStep, NEW next, IsNet(next, Stored), NEW nodes, FollowsArcs(next, nodes),
         NEW s \in nodes, s \in DOMAIN next, NEW t, NEW p
  PROVE  IsRoute(nodes, s, t, p) <=> IsWalk(next, s, p) /\ OnceEach(p) /\ p[Len(p)] = t
<1>1. nodes \subseteq Entity /\ DOMAIN next \subseteq Entity
  BY DEF FollowsArcs
<1>2. ASSUME IsRoute(nodes, s, t, p) PROVE IsWalk(next, s, p) /\ OnceEach(p) /\ p[Len(p)] = t
  <2>1. /\ p \in Seq(nodes) /\ Len(p) \in Nat \ {0} /\ p[1] = s /\ p[Len(p)] = t /\ OnceEach(p)
        /\ \A i \in 1..Len(p) - 1 : <<p[i], p[i + 1]>> \in Arcs
    BY <1>2 DEF IsRoute
  <2>2. \A i \in 1..Len(p) : p[i] \in nodes
    BY <2>1
  <2>3. ASSUME NEW i \in 1..Len(p) PROVE p[i] \in DOMAIN next
    <3>1. CASE i = 1
      BY <3>1, <2>1
    <3>2. CASE i # 1
      <4>1. i - 1 \in 1..Len(p) - 1 /\ (i - 1) + 1 = i /\ i - 1 \in 1..Len(p)
        BY <3>2, <2>1
      <4>2. <<p[i - 1], p[i]>> \in Arcs /\ p[i - 1] \in Entity /\ p[i] \in Entity
        BY <4>1, <2>1, <2>2, <1>1
      <4> QED BY <4>2 DEF FollowsArcs
    <3> QED BY <3>1, <3>2
  <2>4. p \in Seq(DOMAIN next)
    BY <2>1, <2>3
  <2>5. ASSUME NEW i \in 1..Len(p) - 1 PROVE \E x \in next[p[i]] : x.node = p[i + 1]
    <3>1. i \in 1..Len(p) /\ i + 1 \in 1..Len(p)
      BY <2>1
    <3> QED BY <3>1, <2>1, <2>2, <2>3, <1>1 DEF FollowsArcs
  <2> QED BY <2>1, <2>4, <2>5 DEF IsWalk
<1>3. ASSUME IsWalk(next, s, p), OnceEach(p), p[Len(p)] = t PROVE IsRoute(nodes, s, t, p)
  <2>1. /\ p \in Seq(DOMAIN next) /\ Len(p) \in Nat \ {0} /\ p[1] = s
        /\ \A i \in 1..Len(p) - 1 : \E x \in next[p[i]] : x.node = p[i + 1]
    BY <1>3 DEF IsWalk
  <2>2. \A i \in 1..Len(p) : p[i] \in DOMAIN next /\ p[i] \in Entity
    BY <2>1, <1>1
  <2>3. ASSUME NEW i \in 1..Len(p) - 1 PROVE <<p[i], p[i + 1]>> \in Arcs /\ p[i + 1] \in nodes
    <3>1. i \in 1..Len(p) /\ i + 1 \in 1..Len(p)
      BY <2>1
    <3> QED BY <3>1, <2>1, <2>2 DEF FollowsArcs
  <2>4. ASSUME NEW i \in 1..Len(p) PROVE p[i] \in nodes
    <3>1. CASE i = 1
      BY <3>1, <2>1
    <3>2. CASE i # 1
      <4>1. i - 1 \in 1..Len(p) - 1 /\ (i - 1) + 1 = i
        BY <3>2, <2>1
      <4> QED BY <4>1, <2>3
    <3> QED BY <3>1, <3>2
  <2>5. p \in Seq(nodes)
    BY <2>1, <2>4
  <2> QED BY <2>1, <2>3, <2>5, <1>3 DEF IsRoute
<1> QED BY <1>2, <1>3

-----------------------------------------------------------------------------
\* What is found is as many hops away as it says, unless the search has not come
\* so far; and the way back to it is a shortest route.
LEMMA SpreadHops ==
  ASSUME InStep, NEW next, IsNet(next, Stored), NEW nodes, FollowsArcs(next, nodes),
         NEW s \in nodes, s \in DOMAIN next, NEW within, NEW targets, NEW a,
         SpreadInv(next, Stored, within, targets, s, a),
         NEW v \in DOMAIN a.at, 0..a.at[v] - 1 \subseteq within,
         a.queue = <<>> \/ a.at[v] <= a.at[Head(a.queue)]
  PROVE  LET p == PathBack(a.from, s, v).path
         IN  p \in Routes(nodes, s, v) /\ Len(p) = a.at[v] + 1 /\ Hops(nodes, s, v) = a.at[v]
<1>1. PICK p : p = PathBack(a.from, s, v).path
  OBVIOUS
<1>2. nodes \in SUBSET Entity /\ \A r \in Stored : r.weight \in Nat
  BY DEF FollowsArcs, InStep
<1>3. IsWalk(next, s, p) /\ OnceEach(p) /\ p[Len(p)] = v /\ Len(p) = a.at[v] + 1
  BY <1>1, <1>2, SpreadPath
<1>4. p \in Routes(nodes, s, v)
  BY <1>2, <1>3, RouteIsWalk, RoutesAre
<1>5. /\ \A w \in DOMAIN a.at : a.at[w] \in Nat
      /\ a.queue # <<>> => Head(a.queue) \in DOMAIN a.at
  <2>1. a \in SpreadStates(DOMAIN next, Stored) /\ SpreadQueue(a)
    BY DEF SpreadInv
  <2>2. a.queue \in Seq(DOMAIN next)
    BY <2>1, SpreadFields
  <2>3. a.queue # <<>> => Head(a.queue) \in Members(a.queue)
    <3> DEFINE q == a.queue
    <3>1. q \in Seq(DOMAIN next)
      BY <2>2
    <3> HIDE DEF q
    <3>2. q # <<>> => Head(q) = q[1] /\ 1 \in 1..Len(q)
      BY <3>1
    <3>3. q # <<>> => Head(q) \in Members(q)
      BY <3>2 DEF Members
    <3> QED BY <3>3 DEF q
  <2> QED BY <2>1, <2>3, SpreadFields DEF SpreadQueue
<1>6. ASSUME NEW q \in Routes(nodes, s, v) PROVE a.at[v] <= Len(q) - 1
  <2>1. IsWalk(next, s, q) /\ q[Len(q)] = v
    BY <1>2, RouteIsWalk, RoutesAre
  <2>2. Len(q) \in Nat \ {0}
    BY <2>1 DEF IsWalk
  <2> SUFFICES ASSUME Len(q) - 1 < a.at[v] PROVE FALSE
    BY <2>2, <1>5
  <2>3. 0..Len(q) - 2 \subseteq within
    <3>1. a.at[v] \in Nat
      BY <1>5
    <3>2. \A i \in 0..Len(q) - 2 : i \in 0..a.at[v] - 1
      BY <3>1, <2>2
    <3> QED BY <3>2
  <2>4. a.queue = <<>> \/ Len(q) - 1 <= a.at[Head(a.queue)]
    <3>1. a.at[v] \in Nat /\ (a.queue # <<>> => a.at[Head(a.queue)] \in Nat)
      BY <1>5
    <3> QED BY <3>1, <2>2
  <2>5. a.at[v] <= Len(q) - 1
    <3>1. Len(q) \in 1..Len(q)
      BY <2>2
    <3>2. a.at[q[Len(q)]] <= Len(q) - 1
      BY <3>1, <2>1, <2>3, <2>4, SpreadReaches
    <3> QED BY <3>2, <2>1
  <2> QED BY <2>2, <2>5, <1>5
<1>7. Hops(nodes, s, v) = a.at[v]
  BY <1>2, <1>3, <1>4, <1>5, <1>6, HopsAre
<1> QED BY <1>1, <1>3, <1>4, <1>7

\* When the queue is empty, all that a route comes to has been found.
LEMMA SpreadFinds ==
  ASSUME InStep, NEW next, IsNet(next, Stored), NEW nodes, FollowsArcs(next, nodes),
         NEW s \in nodes, s \in DOMAIN next, NEW within, NEW targets, NEW a,
         SpreadInv(next, Stored, within, targets, s, a), a.queue = <<>>,
         NEW t, NEW p \in Routes(nodes, s, t), 0..Len(p) - 2 \subseteq within
  PROVE  t \in DOMAIN a.at
<1>1. nodes \in SUBSET Entity
  BY DEF FollowsArcs
<1>2. IsWalk(next, s, p) /\ p[Len(p)] = t
  BY <1>1, RouteIsWalk, RoutesAre
<1>3. Len(p) \in 1..Len(p)
  BY <1>2 DEF IsWalk
<1> QED BY <1>2, <1>3, SpreadReaches

-----------------------------------------------------------------------------
\* findShortestPath, expandNeighborhood and calculateBlastRadius.
LEMMA NodesAre ==
  ASSUME InStep, NEW s \in Entity
  PROVE  /\ NodesFrom(index, s) \subseteq Entity /\ IsFiniteSet(NodesFrom(index, s))
         /\ s \in NodesFrom(index, s) /\ entities \subseteq NodesFrom(index, s)
         /\ \A r \in Stored : r.source \in NodesFrom(index, s) /\ r.target \in NodesFrom(index, s)
         /\ \A v : v \in NodesOf(index) <=> \/ v \in entities
                                            \/ \E r \in Stored : v = r.source \/ v = r.target
<1>1. \A v : v \in NodesOf(index) <=> \/ v \in entities
                                      \/ \E r \in Stored : v = r.source \/ v = r.target
  <2>1. /\ \A e \in DOMAIN index.edges : index.edges[e] \in Stored
        /\ \A r \in Stored : \E e \in DOMAIN index.edges : index.edges[e] = r
        /\ index.nodes = entities
    BY DEF InStep
  <2> QED BY <2>1 DEF NodesOf
<1>2. NodesFrom(index, s) \subseteq Entity
  BY <1>1 DEF NodesFrom, InStep
<1>3. IsFiniteSet(NodesFrom(index, s))
  BY <1>2, FS_Subset DEF InStep
<1> QED BY <1>1, <1>2, <1>3 DEF NodesFrom

\* The targets of arcs are among them.
LEMMA ArcsStay ==
  ASSUME InStep, NEW s \in Entity
  PROVE  \A u, v \in Entity : <<u, v>> \in Arcs => v \in NodesFrom(index, s)
<1>1. ASSUME NEW u \in Entity, NEW v \in Entity, <<u, v>> \in Arcs PROVE v \in NodesFrom(index, s)
  <2>1. PICK r \in Stored : Leads(r, u, v)
    BY <1>1, ArcsAre
  <2> QED BY <2>1, NodesAre DEF Leads
<1> QED BY <1>1

LEMMA PathsNet ==
  ASSUME InStep, NEW s \in Entity
  PROVE  LET next == [n \in NodesFrom(index, s) |-> WaysOut(index, n)]
         IN  IsNet(next, Stored) /\ FollowsArcs(next, Entity) /\ s \in DOMAIN next
<1> DEFINE N == NodesFrom(index, s)
           next == [n \in N |-> WaysOut(index, n)]
<1>1. N \subseteq Entity /\ IsFiniteSet(N) /\ s \in N
  BY NodesAre
<1>2. ASSUME NEW u \in N
      PROVE  /\ \A x \in WaysOut(index, u) : /\ x = Way(x.edge, x.node) /\ x.edge \in Stored
                                             /\ Leads(x.edge, u, x.node) /\ x.node \in N
             /\ \A v \in Entity : (\E x \in WaysOut(index, u) : x.node = v) <=> <<u, v>> \in Arcs
  <2>1. u \in Entity
    BY <1>1
  <2>2. ASSUME NEW x \in WaysOut(index, u)
        PROVE  /\ x = Way(x.edge, x.node) /\ x.edge \in Stored /\ Leads(x.edge, u, x.node)
               /\ x.node \in N
    <3>1. x = Way(x.edge, x.node) /\ x.edge \in Stored /\ Leads(x.edge, u, x.node)
      BY <2>1, WaysLead
    <3> QED BY <3>1, NodesAre DEF Leads
  <2>3. \A r, v : Way(r, v).node = v
    BY DEF Way
  <2>4. ASSUME NEW v \in Entity
        PROVE  (\E x \in WaysOut(index, u) : x.node = v) <=> <<u, v>> \in Arcs
    BY <2>1, <2>2, <2>3, WaysLead, ArcsAre
  <2> QED BY <2>2, <2>4
<1>3. IsNet(next, Stored)
  <2>1. \A u \in N : \A x \in WaysOut(index, u) : x \in [edge : Stored, node : N]
    BY <1>2 DEF Way
  <2> HIDE DEF N
  <2> QED BY <2>1, <1>1 DEF IsNet
<1>4. FollowsArcs(next, Entity)
  <2>1. \A u, v \in Entity : <<u, v>> \in Arcs => v \in N
    BY ArcsStay
  <2> HIDE DEF N
  <2> QED BY <2>1, <1>1, <1>2 DEF FollowsArcs
<1> QED BY <1>1, <1>3, <1>4

LEMMA HopsAreSound == ASSUME InStep, NEW s \in Entity, NEW t \in Entity PROVE HopsSound(s, t)
<1> DEFINE R == Routes(Entity, s, t)
           found == ShortestPath(index, s, t)
<1>1. index.nodes = entities
  BY DEF InStep
<1>2. CASE s = t
  <2> DEFINE p == <<s>>
  <2>1. p \in Seq(Entity) /\ Len(p) = 1 /\ p[1] = s
    OBVIOUS
  <2> HIDE DEF p
  <2>2. p \in R
    <3>1. IsRoute(Entity, s, t, p)
      BY <2>1, <1>2 DEF IsRoute, OnceEach
    <3> QED BY <3>1, RoutesAre
  <2>3. found = IF s \in entities THEN p ELSE NoPath
    BY <1>1, <1>2 DEF ShortestPath, p
  <2>4. Hops(Entity, s, t) = 0
    <3>1. \A q \in R : Len(q) \in Nat \ {0}
      BY RoutesAre DEF IsRoute
    <3>2. \A q \in R : 0 <= Len(q) - 1
      BY <3>1
    <3>3. Len(p) = 0 + 1
      BY <2>1
    <3>4. \A d \in Nat : /\ \E q \in R : Len(q) = d + 1
                         /\ \A q \in R : d <= Len(q) - 1
                         => Hops(Entity, s, t) = d
      BY HopsAre
    <3> HIDE DEF R
    <3> QED BY <2>2, <3>2, <3>3, <3>4
  <2>5. Len(p) = Hops(Entity, s, t) + 1
    BY <2>1, <2>4
  <2> HIDE DEF found
  <2> QED BY <1>2, <2>2, <2>3, <2>5 DEF HopsSound, found
<1>3. CASE s # t
  <2> DEFINE next == [n \in NodesFrom(index, s) |-> WaysOut(index, n)]
             end == Spread(next, Nat, {t}, s)
  <2>1. IsNet(next, Stored) /\ FollowsArcs(next, Entity) /\ s \in DOMAIN next
    BY PathsNet
  <2>2. found = IF end.queue = <<>> THEN NoPath ELSE PathBack(end.from, s, t).path
    BY <1>3 DEF ShortestPath
  <2> HIDE DEF next
  <2>3. SpreadInv(next, Stored, Nat, {t}, s, end) /\ SpreadOver({t}, end)
    BY <2>1, SpreadEnds
  <2> HIDE DEF end, found
  <2>4. end \in SpreadStates(DOMAIN next, Stored) /\ SpreadQueue(end)
        /\ SpreadDone(next, Nat, {t}, end)
    BY <2>3 DEF SpreadInv
  <2>5. ASSUME end.queue = <<>> PROVE R = {} /\ found = NoPath
    <3>1. ASSUME NEW p \in R PROVE FALSE
      <4>1. Len(p) \in Nat \ {0}
        BY RoutesAre DEF IsRoute
      <4>2. 0..Len(p) - 2 \subseteq Nat
        BY <4>1
      <4>3. t \in DOMAIN end.at
        BY <4>2, <2>1, <2>3, <2>5, SpreadFinds
      <4>4. Members(end.queue) = {}
        BY <2>5 DEF Members
      <4> QED BY <4>3, <4>4, <2>4 DEF SpreadDone
    <3> QED BY <3>1, <2>2, <2>5
  <2>6. ASSUME end.queue # <<>>
        PROVE  found \in R /\ Len(found) = Hops(Entity, s, t) + 1
    <3> DEFINE q == end.queue
    <3>1. q \in Seq(DOMAIN next) /\ \A v \in DOMAIN end.at : end.at[v] \in Nat
      BY <2>4, SpreadFields
    <3>2. Head(q) = t
      BY <2>3, <2>6 DEF SpreadOver
    <3> HIDE DEF q
    <3>3. t = q[1] /\ 1 \in 1..Len(q)
      BY <3>1, <3>2, <2>6 DEF q
    <3>4. t \in DOMAIN end.at
      BY <3>3, <2>4 DEF SpreadQueue, Members, q
    <3>5. 0..end.at[t] - 1 \subseteq Nat /\ end.at[t] <= end.at[Head(end.queue)]
      BY <3>1, <3>2, <3>4 DEF q
    <3>6. LET p == PathBack(end.from, s, t).path
          IN  p \in R /\ Len(p) = end.at[t] + 1 /\ Hops(Entity, s, t) = end.at[t]
      BY <3>4, <3>5, <2>1, <2>3, SpreadHops
    <3> HIDE DEF R
    <3> QED BY <3>6, <2>2, <2>6
  <2> HIDE DEF R
  <2>7. IF R = {} THEN found = NoPath ELSE found \in R /\ Len(found) = Hops(Entity, s, t) + 1
    BY <2>2, <2>5, <2>6
  <2> QED BY <2>7, <1>3 DEF HopsSound, R, found
<1> QED BY <1>2, <1>3

EndAcross(r, n) == IF r.source = n THEN r.target ELSE r.source
WaysNear(n) == {Way(r, EndAcross(r, n)) : r \in {x \in Leaving(n) : EndAcross(x, n) \in entities}}

LEMMA NearNet ==
  ASSUME InStep, NEW s \in entities
  PROVE  LET next == [n \in NodesFrom(index, s) |-> WaysNear(n)]
         IN  IsNet(next, Stored) /\ FollowsArcs(next, entities) /\ s \in DOMAIN next
<1> DEFINE N == NodesFrom(index, s)
           next == [n \in N |-> WaysNear(n)]
<1>1. N \subseteq Entity /\ IsFiniteSet(N) /\ s \in N /\ entities \subseteq N /\ s \in Entity
  <2>1. s \in Entity
    BY DEF InStep
  <2> QED BY <2>1, NodesAre
<1>2. ASSUME NEW u \in N
      PROVE  /\ \A x \in WaysNear(u) : x \in [edge : Stored, node : N]
             /\ \A v \in Entity :
                   (\E x \in WaysNear(u) : x.node = v) <=> v \in entities /\ <<u, v>> \in Arcs
  <2>1. u \in Entity
    BY <1>1
  <2>2. \A r, v : Way(r, v).edge = r /\ Way(r, v).node = v
    BY DEF Way
  <2>3. \A r, v : r \in Leaving(u) /\ EndAcross(r, u) = v <=> r \in Stored /\ Leads(r, u, v)
    <3>1. \A r \in Leaving(u) : r \in Stored
      BY DEF Leaving
    <3>2. \A r \in Stored : \A v : r \in Leaving(u) /\ EndAcross(r, u) = v <=> Leads(r, u, v)
      BY <2>1, AcrossLeads DEF EndAcross
    <3> QED BY <3>1, <3>2
  <2>4. ASSUME NEW x \in WaysNear(u) PROVE x \in [edge : Stored, node : N]
    <3>1. PICK r \in Leaving(u) : EndAcross(r, u) \in entities /\ x = Way(r, EndAcross(r, u))
      BY DEF WaysNear
    <3>2. r \in Stored
      BY DEF Leaving
    <3> QED BY <3>1, <3>2, <1>1 DEF Way
  <2>5. ASSUME NEW v \in Entity
        PROVE  (\E x \in WaysNear(u) : x.node = v) <=> v \in entities /\ <<u, v>> \in Arcs
    <3>1. <<u, v>> \in Arcs <=> \E r \in Stored : Leads(r, u, v)
      BY ArcsAre
    <3>2. (\E x \in WaysNear(u) : x.node = v)
              <=> \E r \in Leaving(u) : EndAcross(r, u) \in entities /\ EndAcross(r, u) = v
      BY <2>2 DEF WaysNear
    <3> QED BY <3>1, <3>2, <2>3
  <2> QED BY <2>4, <2>5
<1>3. IsNet(next, Stored)
  <2> HIDE DEF N
  <2> QED BY <1>1, <1>2 DEF IsNet
<1>4. FollowsArcs(next, entities)
  <2>1. \A u, v \in Entity : <<u, v>> \in Arcs => v \in N
    BY <1>1, ArcsStay
  <2>2. entities \subseteq Entity
    BY DEF InStep
  <2> HIDE DEF N
  <2> QED BY <2>1, <2>2, <1>1, <1>2 DEF FollowsArcs
<1> QED BY <1>1, <1>3, <1>4

\* The nodes of a neighbourhood, at their distances.
NearAt(s, d) == {n \in entities : Routes(entities, s, n) # {} /\ Hops(entities, s, n) <= d}

LEMMA NeighborsAre ==
  ASSUME InStep, NEW s \in entities, NEW d \in Nat
  PROVE  LET depth == Neighborhood(index, s, d, "outbound")
         IN  DOMAIN depth = NearAt(s, d) /\ \A n \in NearAt(s, d) : depth[n] = Hops(entities, s, n)
<1> DEFINE next == [n \in NodesFrom(index, s) |-> WaysNear(n)]
           within == 0..d - 1
           end == Spread(next, within, {}, s)
<1>1. IsNet(next, Stored) /\ FollowsArcs(next, entities) /\ s \in DOMAIN next
  BY NearNet
<1>2. Neighborhood(index, s, d, "outbound") = end.at
  <2> DEFINE candidates(n) == (IF "outbound" # "inbound" THEN OutEdges(index, n) ELSE {})
                                  \cup (IF "outbound" # "outbound" THEN InEdges(index, n) ELSE {})
             Other(r, n) == IF r.source = n THEN r.target ELSE r.source
             Onward(n) == {Way(r, Other(r, n)) :
                              r \in {x \in candidates(n) : Other(x, n) \in index.nodes}}
             given == [n \in NodesFrom(index, s) |-> Onward(n)]
  <2>1. Neighborhood(index, s, d, "outbound") = Spread(given, within, {}, s).at
    BY DEF Neighborhood
  <2>2. ASSUME NEW n \in NodesFrom(index, s) PROVE Onward(n) = WaysNear(n)
    <3>1. n \in Entity
      BY NodesAre DEF InStep
    <3>2. candidates(n) = Leaving(n) /\ index.nodes = entities
      BY <3>1 DEF InStep
    <3> HIDE DEF candidates
    <3> QED BY <3>2 DEF WaysNear, EndAcross
  <2> HIDE DEF Onward
  <2>3. given = next
    BY <2>2
  <2> QED BY <2>1, <2>3
<1> HIDE DEF next
<1>3. SpreadInv(next, Stored, within, {}, s, end) /\ SpreadOver({}, end)
  BY <1>1, SpreadEnds
<1> HIDE DEF end
<1>4. end.queue = <<>>
  BY <1>3 DEF SpreadOver
<1>5. end \in SpreadStates(DOMAIN next, Stored) /\ SpreadFound(next, within, s, end)
      /\ DOMAIN end.at \subseteq DOMAIN next /\ \A v \in DOMAIN end.at : end.at[v] \in Nat
  <2>1. end \in SpreadStates(DOMAIN next, Stored) /\ SpreadFound(next, within, s, end)
    BY <1>3 DEF SpreadInv
  <2> QED BY <2>1, SpreadFields
<1>6. \A n \in entities : \A p \in Routes(entities, s, n) : Len(p) \in Nat \ {0}
  BY RoutesAre DEF IsRoute, InStep
<1>7. ASSUME NEW v \in DOMAIN end.at
      PROVE  v \in NearAt(s, d) /\ end.at[v] = Hops(entities, s, v)
  <2>1. end.at[v] <= d /\ v \in entities
    <3>1. CASE v = s
      BY <3>1, <1>5 DEF SpreadFound
    <3>2. CASE v # s
      <4> DEFINE u == end.from[v].prev
                 e == end.from[v].edge
      <4>1. u \in DOMAIN end.at /\ end.at[u] \in within /\ end.at[v] = end.at[u] + 1
            /\ Way(e, v) \in next[u]
        BY <3>2, <1>5 DEF SpreadFound
      <4> HIDE DEF u, e
      <4>2. end.at[v] <= d
        BY <4>1
      <4>3. u \in DOMAIN next /\ v \in Entity /\ Way(e, v).node = v
        BY <4>1, <1>1, <1>5 DEF FollowsArcs, Way
      <4>4. v \in entities
        BY <4>1, <4>3, <1>1 DEF FollowsArcs
      <4> QED BY <4>2, <4>4
    <3> QED BY <3>1, <3>2
  <2>2. 0..end.at[v] - 1 \subseteq within
    BY <2>1, <1>5
  <2>3. LET p == PathBack(end.from, s, v).path
        IN  p \in Routes(entities, s, v) /\ Len(p) = end.at[v] + 1
            /\ Hops(entities, s, v) = end.at[v]
    BY <2>2, <1>1, <1>3, <1>4, SpreadHops
  <2> QED BY <2>1, <2>3 DEF NearAt
<1>8. ASSUME NEW n \in NearAt(s, d) PROVE n \in DOMAIN end.at
  <2>1. n \in entities /\ Routes(entities, s, n) # {} /\ Hops(entities, s, n) <= d
    BY DEF NearAt
  <2>2. PICK p \in Routes(entities, s, n) : Len(p) = Hops(entities, s, n) + 1
    BY <2>1, HopsAre DEF InStep
  <2>3. Hops(entities, s, n) \in Nat
    BY <2>1, HopsAre DEF InStep
  <2>4. 0..Len(p) - 2 \subseteq within
    BY <2>1, <2>2, <2>3
  <2> QED BY <2>4, <1>1, <1>3, <1>4, SpreadFinds
<1> QED BY <1>2, <1>7, <1>8

LEMMA DepthsAreSound ==
  ASSUME InStep, NEW s \in Entity, NEW d \in Nat PROVE DepthSound(s, d)
<1> SUFFICES ASSUME s \in entities PROVE DepthSound(s, d)
  BY DEF DepthSound
<1> DEFINE depth == Neighborhood(index, s, d, "outbound")
           near == NearAt(s, d)
           radius == BlastRadius(index, s, d)
<1>1. DOMAIN depth = near /\ \A n \in near : depth[n] = Hops(entities, s, n)
  BY NeighborsAre
<1>2. radius = [direct |-> {n \in DOMAIN depth \ {s} : depth[n] = 1},
                transitive |-> {n \in DOMAIN depth \ {s} : depth[n] # 1}]
  BY DEF BlastRadius, InStep
<1> HIDE DEF depth, radius
<1>3. radius.direct \cup radius.transitive = near \ {s}
  BY <1>1, <1>2
<1> QED BY <1>1, <1>3 DEF DepthSound, NearAt, depth, radius

-----------------------------------------------------------------------------
\* findDijkstraShortestPath.
LEMMA WeightIs ==
  ASSUME InStep, NEW u \in Entity, NEW v \in Entity, <<u, v>> \in Arcs
  PROVE  /\ Weight(u, v) \in Nat
         /\ \E r \in Stored : Leads(r, u, v) /\ r.weight = Weight(u, v)
         /\ \A r \in Stored : Leads(r, u, v) => Weight(u, v) <= r.weight
<1> DEFINE L == {r \in Stored : Leads(r, u, v)}
           S == {r.weight : r \in L}
<1>1. ASSUME NEW r \in Stored
      PROVE  (\E t \in Ends(r) : t[1] = u /\ t[3] = v) <=> Leads(r, u, v)
  <2>1. r.both \in BOOLEAN
    BY DEF InStep
  <2>2. \A t \in Ends(r) : Leads(r, t[1], t[3])
    BY <2>1 DEF Ends, Leads
  <2>3. ASSUME Leads(r, u, v) PROVE \E t \in Ends(r) : t[1] = u /\ t[3] = v
    <3>1. <<u, r.id, v>> \in Ends(r) /\ <<u, r.id, v>>[1] = u /\ <<u, r.id, v>>[3] = v
      BY <2>1, <2>3 DEF Ends, Leads
    <3> QED BY <3>1
  <2> HIDE DEF Ends
  <2> QED BY <2>2, <2>3
<1>2. {x \in Range(relationships) : \E t \in Ends(x) : t[1] = u /\ t[3] = v} = L
  BY <1>1 DEF Stored
<1>3. Weight(u, v) = Min(S)
  BY <1>2 DEF Weight
<1>4. S \in SUBSET Nat /\ S # {}
  <2>1. L # {}
    BY ArcsAre
  <2>2. \A r \in L : r.weight \in Nat
    BY DEF InStep
  <2> QED BY <2>1, <2>2
<1>5. Min(S) \in S /\ \A x \in S : Min(S) <= x
  <2> HIDE DEF S
  <2> QED BY <1>4, MinIs
<1>6. PICK m : m = Min(S)
  OBVIOUS
<1>7. PICK r \in L : m = r.weight
  BY <1>5, <1>6
<1>8. \A x \in L : m <= x.weight
  BY <1>5, <1>6
<1>9. m \in Nat
  BY <1>4, <1>5, <1>6
<1> QED BY <1>3, <1>6, <1>7, <1>8, <1>9

LEMMA WeightsNet ==
  ASSUME InStep
  PROVE  LET next == [n \in entities |-> WaysOut(index, n)]
         IN  /\ IsWeighted(next, entities, Stored)
             /\ \A u \in entities : \A v :
                   /\ (\E x \in next[u] : x.node = v) <=> <<u, v>> \in Arcs
                   /\ <<u, v>> \in Arcs =>
                         /\ Weight(u, v) \in Nat
                         /\ \E x \in next[u] : x.node = v /\ x.edge.weight = Weight(u, v)
                         /\ \A x \in next[u] : x.node = v => Weight(u, v) <= x.edge.weight
<1> DEFINE next == [n \in entities |-> WaysOut(index, n)]
<1>1. entities \subseteq Entity /\ IsFiniteSet(entities) /\ \A r \in Stored : r.weight \in Nat
  BY FS_Subset DEF InStep
<1>2. \A r, v : Way(r, v).edge = r /\ Way(r, v).node = v
  BY DEF Way
<1>3. ASSUME NEW u \in entities
      PROVE  /\ \A x \in WaysOut(index, u) : /\ x = Way(x.edge, x.node) /\ x.edge \in Stored
                                             /\ Leads(x.edge, u, x.node)
             /\ \A r \in Stored : \A v : Leads(r, u, v) => Way(r, v) \in WaysOut(index, u)
  <2>1. u \in Entity
    BY <1>1
  <2> QED BY <2>1, WaysLead
<1>4. IsWeighted(next, entities, Stored)
  BY <1>1, <1>3 DEF IsWeighted
<1>5. ASSUME NEW u \in entities, NEW v
      PROVE  (\E x \in WaysOut(index, u) : x.node = v) <=> <<u, v>> \in Arcs
  BY <1>2, <1>3, ArcsAre
<1>6. ASSUME NEW u \in entities, NEW v, <<u, v>> \in Arcs
      PROVE  /\ Weight(u, v) \in Nat
             /\ \E x \in WaysOut(index, u) : x.node = v /\ x.edge.weight = Weight(u, v)
             /\ \A x \in WaysOut(index, u) : x.node = v => Weight(u, v) <= x.edge.weight
  <2>1. u \in Entity /\ v \in Entity
    <3>1. PICK r \in Stored : Leads(r, u, v)
      BY <1>6, ArcsAre
    <3> QED BY <3>1, <1>1 DEF Leads, InStep
  <2>2. PICK r \in Stored : Leads(r, u, v) /\ r.weight = Weight(u, v)
    BY <1>6, <2>1, WeightIs
  <2>3. Weight(u, v) \in Nat /\ \A q \in Stored : Leads(q, u, v) => Weight(u, v) <= q.weight
    BY <1>6, <2>1, WeightIs
  <2>4. Way(r, v) \in WaysOut(index, u)
    BY <1>3, <2>2
  <2>5. \A x \in WaysOut(index, u) : x.node = v => Weight(u, v) <= x.edge.weight
    BY <1>3, <2>3
  <2> QED BY <1>2, <2>2, <2>3, <2>4, <2>5
<1> HIDE DEF WaysOut
<1> QED BY <1>4, <1>5, <1>6

\* The cost of a route is the total of its least weights.
LEMMA CostIs ==
  ASSUME InStep, NEW s, NEW t, NEW p, IsRoute(entities, s, t, p)
  PROVE  LET next == [n \in entities |-> WaysOut(index, n)]
         IN  \E c, tot : IsTotal(Len(p), c, tot) /\ IsCosted(next, p, c) /\ Cost(p) = tot[Len(p)]
<1> DEFINE next == [n \in entities |-> WaysOut(index, n)]
           n == Len(p)
           c == [i \in 1..n |-> IF i = 1 THEN 0 ELSE Weight(p[i - 1], p[i])]
           Rec(f) == [i \in 1..n |-> IF i = 1 THEN 0 ELSE f[i - 1] + Weight(p[i - 1], p[i])]
           total == CHOOSE f : f = Rec(f)
<1>1. /\ n \in Nat \ {0} /\ \A i \in 1..n : p[i] \in entities
      /\ \A i \in 1..n - 1 : <<p[i], p[i + 1]>> \in Arcs
  BY DEF IsRoute
<1>2. Cost(p) = total[n]
  BY DEF Cost
<1>3. ASSUME NEW i \in 2..n
      PROVE  /\ Weight(p[i - 1], p[i]) \in Nat
             /\ \E x \in next[p[i - 1]] : x.node = p[i] /\ x.edge.weight = Weight(p[i - 1], p[i])
             /\ \A x \in next[p[i - 1]] : x.node = p[i] => Weight(p[i - 1], p[i]) <= x.edge.weight
  <2>1. i - 1 \in 1..n - 1 /\ (i - 1) + 1 = i /\ i - 1 \in 1..n
    BY <1>1
  <2>2. p[i - 1] \in entities /\ <<p[i - 1], p[i]>> \in Arcs
    BY <2>1, <1>1
  <2> HIDE DEF n
  <2> QED BY <2>2, WeightsNet
<1> HIDE DEF next
<1>4. c \in [1..n -> Nat]
  <2>1. \A i \in 1..n : i # 1 => i \in 2..n
    BY <1>1
  <2> QED BY <2>1, <1>3
<1>5. \A i \in 2..n : c[i] = Weight(p[i - 1], p[i])
  <2>1. \A i \in 2..n : i \in 1..n /\ i # 1
    BY <1>1
  <2> QED BY <2>1
<1>6. IsCosted(next, p, c)
  BY <1>3, <1>5 DEF IsCosted
<1> HIDE DEF c
<1>7. PICK tot : IsTotal(n, c, tot)
  BY <1>1, <1>4, TotalsExist
<1>8. total = Rec(total)
  <2>1. /\ tot \in [1..n -> Nat] /\ tot[1] = 0 /\ \A i \in 2..n : tot[i] = tot[i - 1] + c[i]
    BY <1>7 DEF IsTotal
  <2>2. \A i \in 1..n : i # 1 => i \in 2..n
    BY <1>1
  <2>3. \A i \in 1..n : tot[i] = IF i = 1 THEN 0 ELSE tot[i - 1] + Weight(p[i - 1], p[i])
    BY <2>1, <2>2, <1>5
  <2>4. tot = Rec(tot)
    BY <2>1, <2>3
  <2> HIDE DEF Rec
  <2> QED BY <2>4
<1> HIDE DEF total
<1>9. DOMAIN total = 1..n /\ total[1] = 0
      /\ \A i \in 2..n : total[i] = total[i - 1] + c[i]
  <2>1. 1 \in 1..n /\ \A i \in 2..n : i \in 1..n /\ i # 1
    BY <1>1
  <2> QED BY <2>1, <1>5, <1>8
<1>10. \A i \in 1..n : total[i] \in Nat
  <2> DEFINE Fine == {i \in 0..n - 1 : total[i + 1] \in Nat}
  <2>1. 0 \in Fine
    BY <1>1, <1>9
  <2>2. ASSUME NEW i \in 1..n - 1, i - 1 \in Fine PROVE i \in Fine
    <3>1. (i - 1) + 1 = i /\ i + 1 \in 2..n /\ (i + 1) - 1 = i /\ i + 1 \in 1..n
      BY <1>1
    <3> QED BY <3>1, <2>2, <1>4, <1>9
  <2>3. Fine \in SUBSET Nat /\ n - 1 \in Nat
    BY <1>1
  <2>4. \A i \in 0..n - 1 : i \in Fine
    <3> HIDE DEF Fine
    <3> QED BY <2>1, <2>2, <2>3, UpTo
  <2>5. \A i \in 1..n : i - 1 \in 0..n - 1 /\ (i - 1) + 1 = i
    BY <1>1
  <2> QED BY <2>4, <2>5
<1>11. IsTotal(n, c, total)
  <2>1. total = [i \in 1..n |-> total[i]]
    <3> HIDE DEF n
    <3>1. total = [i \in DOMAIN total |-> total[i]]
      BY <1>8
    <3> QED BY <3>1, <1>9
  <2>2. total \in [1..n -> Nat]
    BY <2>1, <1>10
  <2> QED BY <2>2, <1>4, <1>9 DEF IsTotal
<1> QED BY <1>2, <1>6, <1>11 DEF next

LEMMA WeightsAreSound == ASSUME InStep, NEW s \in Entity, NEW t \in Entity PROVE WeightsSound(s, t)
<1> DEFINE next == [n \in entities |-> WaysOut(index, n)]
           end == Settle(next, entities, s, t)
           found == Dijkstra(index, s, t)
           routes == Routes(entities, s, t)
<1>1. entities \in SUBSET Entity /\ index.nodes = entities
  BY DEF InStep
<1>2. found = IF {s, t} \subseteq entities /\ t \in DOMAIN end.at THEN PathBack(end.from, s, t)
              ELSE NoPath
  BY <1>1 DEF Dijkstra
<1>3. CASE ~({s, t} \subseteq entities)
  BY <1>2, <1>3 DEF WeightsSound
<1>4. CASE {s, t} \subseteq entities
  <2>1. s \in entities /\ t \in entities /\ IsWeighted(next, entities, Stored)
    BY <1>4, WeightsNet
  <2>2. ASSUME NEW p \in routes
        PROVE  \E c, tot : IsTotal(Len(p), c, tot) /\ IsCosted(next, p, c) /\ Cost(p) = tot[Len(p)]
    <3>1. IsRoute(entities, s, t, p)
      BY <1>1, RoutesAre
    <3> QED BY <3>1, CostIs
  <2> HIDE DEF next
  <2>3. SettleInv(next, entities, Stored, s, t, end) /\ SettleOver(t, end)
    BY <2>1, SettleEnds
  <2> HIDE DEF end, found
  <2>4. ASSUME NEW p \in routes PROVE /\ t \in DOMAIN end.at /\ end.at[t] <= Cost(p)
                                      /\ Cost(p) \in Nat
    <3>1. PICK c, tot : IsTotal(Len(p), c, tot) /\ IsCosted(next, p, c) /\ Cost(p) = tot[Len(p)]
      BY <2>2
    <3>2. p \in Seq(entities) /\ Len(p) \in Nat \ {0} /\ p[1] = s /\ p[Len(p)] = t
      BY <1>1, RoutesAre DEF IsRoute
    <3>3. tot[Len(p)] \in Nat
      BY <3>1, <3>2 DEF IsTotal
    <3> QED BY <3>1, <3>2, <3>3, <2>1, <2>3, SettleReaches
  <2>5. ASSUME t \in DOMAIN end.at
        PROVE  /\ found.path \in routes /\ found.weight = end.at[t]
               /\ Cost(found.path) <= end.at[t] /\ end.at[t] \in Nat
    <3>1. PICK b : b = PathBack(end.from, s, t)
      OBVIOUS
    <3>2. PICK p : p = b.path
      OBVIOUS
    <3>3. /\ p \in Seq(entities) /\ Len(p) \in Nat \ {0} /\ p[1] = s /\ p[Len(p)] = t
          /\ OnceEach(p)
          /\ \A i \in 1..Len(p) - 1 : \E x \in next[p[i]] : x.node = p[i + 1]
          /\ b.weight = end.at[t]
          /\ \A c, tot : IsTotal(Len(p), c, tot) /\ IsCosted(next, p, c) =>
                            tot[Len(p)] <= end.at[t]
      <4>1. LET f == PathBack(end.from, s, t)
                q == f.path
            IN  /\ q \in Seq(entities) /\ Len(q) \in Nat \ {0} /\ q[1] = s /\ q[Len(q)] = t
                /\ Len(q) <= Cardinality(entities)
                /\ OnceEach(q)
                /\ \A i \in 1..Len(q) - 1 : \E x \in next[q[i]] : x.node = q[i + 1]
                /\ f.weight = end.at[t]
                /\ \A c, tot : IsTotal(Len(q), c, tot) /\ IsCosted(next, q, c) =>
                                  tot[Len(q)] <= end.at[t]
        BY <2>1, <2>3, <2>5, SettlePath
      <4> QED BY <4>1, <3>1, <3>2
    <3>4. \A i \in 1..Len(p) - 1 : <<p[i], p[i + 1]>> \in Arcs
      <4> TAKE i \in 1..Len(p) - 1
      <4>1. p[i] \in entities /\ p[i + 1] \in entities
        <5>1. i \in 1..Len(p) /\ i + 1 \in 1..Len(p)
          BY <3>3
        <5> QED BY <5>1, <3>3
      <4>2. \E x \in next[p[i]] : x.node = p[i + 1]
        BY <3>3
      <4> QED BY <4>1, <4>2, WeightsNet DEF next
    <3>5. p \in routes
      BY <3>3, <3>4, <1>1, RoutesAre DEF IsRoute
    <3>6. Cost(p) <= end.at[t]
      BY <3>3, <3>5, <2>2
    <3>7. end.at[t] \in Nat
      BY <2>3, <2>5, SettleFields DEF SettleInv
    <3>8. found = b
      BY <3>1, <1>2, <1>4, <2>5
    <3> QED BY <3>2, <3>3, <3>5, <3>6, <3>7, <3>8
  <2>6. CASE routes = {}
    <3>1. t \notin DOMAIN end.at
      BY <2>5, <2>6
    <3> QED BY <3>1, <1>2, <1>4, <2>6 DEF WeightsSound, found
  <2>7. CASE routes # {}
    <3>1. t \in DOMAIN end.at
      BY <2>4, <2>7
    <3> DEFINE S == {Cost(p) : p \in routes}
    <3>2. found.path \in routes /\ found.weight = end.at[t] /\ end.at[t] \in Nat
          /\ Cost(found.path) = end.at[t]
      <4>1. /\ found.path \in routes /\ found.weight = end.at[t]
            /\ Cost(found.path) <= end.at[t] /\ end.at[t] \in Nat
        BY <2>5, <3>1
      <4>2. end.at[t] <= Cost(found.path) /\ Cost(found.path) \in Nat
        BY <4>1, <2>4
      <4> HIDE DEF routes
      <4> QED BY <4>1, <4>2
    <3>3. S \in SUBSET Nat /\ end.at[t] \in S /\ \A x \in S : end.at[t] <= x
      BY <2>4, <3>2
    <3>4. Min(S) = end.at[t]
      <4> HIDE DEF S
      <4> QED BY <3>3, MinOf
    <3> QED BY <3>2, <3>4, <1>4, <2>7 DEF WeightsSound, found
  <2> QED BY <2>6, <2>7
<1> QED BY <1>3, <1>4

-----------------------------------------------------------------------------
\* topologicalSort and detectCycles.
LEMMA ClosedPlan == ASSUME InStep, Closed PROVE IsPlan(index, entities, Stored)
<1>1. \A r \in Stored : r.source \in entities /\ r.target \in entities
  BY DEF Closed, Stored, Range
<1>2. IsFiniteSet(entities) /\ IsFiniteSet(Stored) /\ index.nodes = entities
      /\ {index.edges[e] : e \in DOMAIN index.edges} = Stored
  BY FS_Subset DEF InStep
<1>3. \A u \in entities : OutEdges(index, u) = Leaving(u)
  BY DEF InStep
<1>4. \A u \in entities : OutEdges(index, u) \subseteq Stored
  BY <1>3 DEF Leaving
<1>5. ASSUME NEW u \in entities, NEW v \in entities, u # v
      PROVE  {r \in OutEdges(index, u) : r.target = v}
                 = {r \in Stored : r.source = u /\ r.target = v}
  BY <1>3, <1>5 DEF Leaving
<1> QED BY <1>1, <1>2, <1>4, <1>5 DEF IsPlan

\* Arcs that lead to entities make a loop exactly when the graph of what comes
\* before each is cyclic.
LEMMA LoopIsCycle ==
  ASSUME InStep, NEW arcs, \A u, v : <<u, v>> \in arcs => v \in entities,
         NEW g, DOMAIN g = entities, \A v \in entities : \A u : u \in g[v] <=> <<u, v>> \in arcs
  PROVE  HasLoop(arcs) <=> Cyclic(g)
<1>1. ASSUME HasLoop(arcs) PROVE Cyclic(g)
  <2>1. PICK S \in SUBSET Entity : S # {} /\ \A v \in S : \E u \in S : <<u, v>> \in arcs
    BY <1>1 DEF HasLoop
  <2>2. S \in SUBSET DOMAIN g
    BY <2>1
  <2>3. \A v \in S : \E u \in S : u \in g[v]
    BY <2>1, <2>2
  <2> QED BY <2>1, <2>2, <2>3 DEF Cyclic
<1>2. ASSUME Cyclic(g) PROVE HasLoop(arcs)
  <2>1. PICK S \in SUBSET DOMAIN g : S # {} /\ \A v \in S : \E u \in S : u \in g[v]
    BY <1>2 DEF Cyclic
  <2>2. S \in SUBSET Entity
    BY DEF InStep
  <2>3. \A v \in S : \E u \in S : <<u, v>> \in arcs
    BY <2>1
  <2> QED BY <2>1, <2>2, <2>3 DEF HasLoop
<1> QED BY <1>1, <1>2

LEMMA OrderIsSound ==
  ASSUME InStep, Closed
  PROVE  LET sorted == Topological(index)
             Place(n) == CHOOSE i \in DOMAIN sorted.order : sorted.order[i] = n
         IN  /\ sorted.null <=> HasLoop(DependencyArcs)
             /\ ~sorted.null =>
                    /\ Range(sorted.order) = entities /\ IsInjective(sorted.order)
                    /\ \A a \in DependencyArcs : Place(a[1]) < Place(a[2])
<1> DEFINE sorted == Topological(index)
           deps == Sources(entities, Stored)
           Place(n) == CHOOSE i \in DOMAIN sorted.order : sorted.order[i] = n
<1>1. /\ sorted.null <=> Cyclic(deps)
      /\ ~sorted.null => IsOrderOf(sorted.order, deps) /\ sorted.order \in Seq(entities)
  BY ClosedPlan, SortsAcyclic
<1>2. \A r \in Stored : r.source \in entities /\ r.target \in entities
  BY DEF Closed, Stored, Range
<1>3. \A u, v : <<u, v>> \in DependencyArcs <=> \E r \in Stored : r.source = u /\ r.target = v
  BY DEF DependencyArcs, Stored
<1>4. /\ DOMAIN deps = entities
      /\ \A v \in entities : \A u : u \in deps[v] <=> <<u, v>> \in DependencyArcs
  BY <1>3 DEF Sources
<1>5. HasLoop(DependencyArcs) <=> Cyclic(deps)
  <2>1. \A u, v : <<u, v>> \in DependencyArcs => v \in entities
    BY <1>2, <1>3
  <2> HIDE DEF deps
  <2> QED BY <2>1, <1>4, LoopIsCycle
<1> HIDE DEF sorted, deps
<1>6. ASSUME ~sorted.null
      PROVE  /\ Range(sorted.order) = entities /\ IsInjective(sorted.order)
             /\ \A a \in DependencyArcs : Place(a[1]) < Place(a[2])
  <2>1. PICK p : p = sorted.order
    OBVIOUS
  <2>2. /\ {p[i] : i \in DOMAIN p} = entities
        /\ \A i, j \in DOMAIN p : p[i] = p[j] => i = j
        /\ \A i, j \in DOMAIN p : p[i] \in deps[p[j]] => i < j
    BY <1>1, <1>4, <1>6, <2>1 DEF IsOrderOf
  <2>3. Range(p) = entities /\ IsInjective(p)
    BY <2>2 DEF Range, IsInjective
  <2>4. \A n : Place(n) = CHOOSE i \in DOMAIN p : p[i] = n
    BY <2>1
  <2> HIDE DEF Place
  <2>5. \A n \in entities : Place(n) \in DOMAIN p /\ p[Place(n)] = n
    <3> TAKE n \in entities
    <3>1. \E i \in DOMAIN p : p[i] = n
      BY <2>2
    <3> QED BY <3>1, <2>4
  <2>6. ASSUME NEW a \in DependencyArcs PROVE Place(a[1]) < Place(a[2])
    <3>1. PICK r \in Stored : a = <<r.source, r.target>>
      BY DEF DependencyArcs, Stored
    <3>2. a[1] \in entities /\ a[2] \in entities /\ <<a[1], a[2]>> \in DependencyArcs
      BY <3>1, <1>2
    <3>3. a[1] \in deps[a[2]]
      BY <3>2, <1>4
    <3>4. /\ Place(a[1]) \in DOMAIN p /\ p[Place(a[1])] = a[1]
          /\ Place(a[2]) \in DOMAIN p /\ p[Place(a[2])] = a[2]
      BY <3>2, <2>5
    <3> QED BY <3>3, <3>4, <2>2
  <2> QED BY <2>1, <2>3, <2>6
<1> QED BY <1>1, <1>5, <1>6 DEF sorted

Targets == [n \in entities |-> {r.target : r \in Leaving(n)}]

LEMMA TargetsAre ==
  ASSUME InStep, Closed
  PROVE  /\ IsGraph(Targets) /\ DOMAIN Targets = entities
         /\ Cycles(index) = FindCycles(Targets, entities)
         /\ OneWay => \A u \in entities : \A v : v \in Targets[u] <=> <<u, v>> \in Arcs
<1>1. \A r \in Stored : r.source \in entities /\ r.target \in entities
  BY DEF Closed, Stored, Range
<1>2. entities \subseteq Entity /\ IsFiniteSet(entities) /\ index.nodes = entities
  BY FS_Subset DEF InStep
<1>3. \A n \in entities : Leaving(n) \subseteq Stored
  BY DEF Leaving
<1>4. IsGraph(Targets) /\ DOMAIN Targets = entities
  <2>1. \A n \in entities : {r.target : r \in Leaving(n)} \subseteq entities
    BY <1>1, <1>3
  <2> QED BY <2>1, <1>2 DEF IsGraph, Targets
<1>5. Cycles(index) = FindCycles(Targets, entities)
  <2>1. NodesOf(index) = entities
    <3> DEFINE N == NodesOf(index)
    <3>1. ASSUME NEW v PROVE v \in N <=> v \in entities
      <4>1. /\ \A e \in DOMAIN index.edges : index.edges[e] \in Stored
        BY DEF InStep
      <4> QED BY <4>1, <1>1, <1>2 DEF NodesOf
    <3> HIDE DEF N
    <3>2. N = entities
      BY <3>1
    <3> QED BY <3>2 DEF N
  <2>2. \A n \in entities : OutEdges(index, n) = Leaving(n)
    BY <1>2 DEF InStep
  <2>3. [n \in NodesOf(index) |-> {r.target : r \in OutEdges(index, n)}] = Targets
    BY <2>1, <2>2 DEF Targets
  <2> QED BY <2>3, <1>2 DEF Cycles
<1>6. ASSUME OneWay, NEW u \in entities, NEW v PROVE v \in Targets[u] <=> <<u, v>> \in Arcs
  <2>1. \A r \in Stored : ~r.both
    BY <1>6 DEF OneWay, Stored, Range
  <2>2. v \in Targets[u] <=> \E r \in Leaving(u) : v = r.target
    BY DEF Targets
  <2>3. <<u, v>> \in Arcs <=> \E r \in Stored : Leads(r, u, v)
    BY ArcsAre
  <2> QED BY <2>1, <2>2, <2>3 DEF Leaving, Leads
<1> QED BY <1>4, <1>5, <1>6

LEMMA LoopsAreCycles == ASSUME InStep, Closed PROVE HasLoop(Arcs) <=> Cyclic(Targets)
<1> DEFINE before == [v \in entities |-> {u \in entities : <<u, v>> \in Arcs}]
<1>1. IsGraph(Targets) /\ DOMAIN Targets = entities /\ IsFiniteSet(entities)
  BY TargetsAre DEF IsGraph
<1>2. \A r \in Stored : r.source \in entities /\ r.target \in entities /\ r.both \in BOOLEAN
  BY DEF Closed, Stored, Range, InStep
<1>3. \A u, v : <<u, v>> \in Arcs => u \in entities /\ v \in entities
  BY <1>2, ArcsAre DEF Leads
<1>4. DOMAIN before = entities /\ \A v \in entities : \A u : u \in before[v] <=> <<u, v>> \in Arcs
  BY <1>3
<1>5. IsGraph(before)
  BY <1>1 DEF IsGraph
<1> HIDE DEF before
<1>6. HasLoop(Arcs) <=> Cyclic(before)
  BY <1>3, <1>4, LoopIsCycle
<1>7. CASE OneWay
  <2>1. \A u, v \in entities : v \in Targets[u] <=> u \in before[v]
    BY <1>4, <1>7, TargetsAre
  <2>2. Cyclic(Targets) => Cyclic(before)
    BY <2>1, <1>1, <1>4, Reversal
  <2>3. Cyclic(before) => Cyclic(Targets)
    BY <2>1, <1>1, <1>4, <1>5, Reversal
  <2> QED BY <2>2, <2>3, <1>6
<1>8. CASE ~OneWay
  <2>1. PICK r \in Stored : r.both
    BY <1>8 DEF OneWay, Stored, Range
  <2>2. r.target \in Targets[r.target] /\ r.target \in entities /\ r.source \in entities
    BY <2>1, <1>2 DEF Targets, Leaving
  <2>3. Cyclic(Targets)
    <3> DEFINE S == {r.target}
    <3>1. S \in SUBSET DOMAIN Targets /\ S # {} /\ \A v \in S : \E u \in S : u \in Targets[v]
      BY <2>2, <1>1
    <3> QED BY <3>1 DEF Cyclic
  <2>4. HasLoop(Arcs)
    <3> DEFINE S == {r.source, r.target}
    <3>1. <<r.source, r.target>> \in Arcs /\ <<r.target, r.source>> \in Arcs
      BY <2>1, ArcsAre DEF Leads
    <3>2. S \in SUBSET Entity
      BY <2>2 DEF InStep
    <3>3. S # {} /\ \A v \in S : \E u \in S : <<u, v>> \in Arcs
      BY <3>1
    <3> HIDE DEF S
    <3> QED BY <3>2, <3>3 DEF HasLoop
  <2> QED BY <2>3, <2>4
<1> QED BY <1>7, <1>8

LEMMA CyclesAreSound == ASSUME InStep PROVE CyclesSound
<1> SUFFICES ASSUME Closed PROVE CyclesSound
  BY DEF CyclesSound
<1> DEFINE cycles == Cycles(index)
<1>1. (cycles = {}) <=> ~HasLoop(Arcs)
  BY TargetsAre, FindCyclesFinds, LoopsAreCycles
<1>2. ASSUME OneWay, NEW c \in cycles
      PROVE  /\ Len(c) > 1 /\ c[1] = Last(c)
             /\ \A i \in 1..(Len(c) - 1) : <<c[i], c[i + 1]>> \in Arcs
  <2>1. IsCycleOf(c, Targets)
    BY TargetsAre, FindCyclesFinds
  <2>2. /\ Len(c) > 1 /\ c[1] = c[Len(c)]
        /\ \A i \in 1..Len(c) - 1 : c[i] \in entities /\ c[i + 1] \in Targets[c[i]]
    BY <2>1, TargetsAre DEF IsCycleOf
  <2> QED BY <2>2, <1>2, TargetsAre DEF Last
<1> HIDE DEF cycles
<1>3. \A c \in cycles : OneWay => /\ Len(c) > 1 /\ c[1] = Last(c)
                                  /\ \A i \in 1..(Len(c) - 1) : <<c[i], c[i + 1]>> \in Arcs
  BY <1>2
<1> QED BY <1>1, <1>3, OrderIsSound DEF CyclesSound, cycles

LEMMA QueriesSoundInStep == ASSUME WorldInv PROVE QueriesSound
<1> SUFFICES ASSUME reshaped = {} PROVE QueriesSound
  BY DEF QueriesSound
<1>1. InStep
  BY IndexInStepIs
<1>2. Cardinality(Entity) \in Nat
  BY WorldAssumption, FS_CardinalityType
<1>3. \A d \in 0..Cardinality(Entity) : d \in Nat
  BY <1>2
<1>4. \A s, t \in Entity : HopsSound(s, t) /\ WeightsSound(s, t)
  BY <1>1, HopsAreSound, WeightsAreSound
<1>5. \A s \in Entity, d \in 0..Cardinality(Entity) : DepthSound(s, d)
  BY <1>1, <1>3, DepthsAreSound
<1>6. CyclesSound
  BY <1>1, CyclesAreSound
<1> QED BY <1>4, <1>5, <1>6 DEF QueriesSound

\* Whatever sequence of mutations has led to an index in step, every search of
\* GraphQuery over it returns what it is named for: the fewest hops, the least
\* weight, the distances of a neighbourhood and the blast radius, the cycles and an
\* order that respects every dependency; for every finite set of entities.
THEOREM QueriesAreSound == WorldSpec => []QueriesSound
<1>1. WorldInv => QueriesSound
  BY QueriesSoundInStep
<1> QED BY <1>1, WorldInvariant, PTL
=============================================================================

------------------------------ MODULE JobQueue ------------------------------
(***************************************************************************)
(* apps/worker/src/queues/DurableJobQueue.ts with the poll loop of the     *)
(* workers: jobs in a cache and one file for each, leases that expire,     *)
(* rejected jobs that are tried again or buried, and the recovery of the   *)
(* files by the first calls after a restart.                               *)
(*                                                                         *)
(* A call is cut at its awaits, which are all on files.  What a write puts *)
(* into the file is fixed when the write begins.  Two writes of one job    *)
(* may be under way at once, and then leave a file no longer readable; so  *)
(* may a write that a crash cuts off.                                      *)
(***************************************************************************)
EXTENDS Naturals, FiniteSets

CONSTANTS
    Job, Worker, Producer,
    MaxTries,
    Settings           \* records of the workers there are, of the idempotency keys of
                       \* the jobs, of RetryPolicy.maxRetries (MaxTries at most), and
                       \* the bound: crashes, failed writes and leases that run out

ASSUME JobAssumption ==
    /\ Producer \notin Worker
    /\ Job # {}
    /\ MaxTries \in Nat
    /\ \A x \in Settings : /\ x.workers \subseteq Worker
                           /\ x.retries \in 0..MaxTries /\ x.faults \in Nat

VARIABLES
    cache,        \* inMemoryCache: state and attempts of each job
    file,         \* the same in its file
    ready,        \* isInitialized
    call,         \* where each caller is
    setting,      \* the choice made from Settings
    accepted,     \* history: jobs whose enqueue has returned
    ended,        \* history: jobs acknowledged or recorded as dead letters
    spoilt,       \* history: jobs a write of which failed, was cut off or mixed
    loose,        \* history: jobs whose lease ran out or that were loaded late
    faults

jobVars == <<cache, file, ready, call, setting, accepted, ended, spoilt, loose,
             faults>>
jobHistory == <<accepted, ended, spoilt, loose, faults>>

Caller == Worker \cup {Producer}
Tries == 0..MaxTries

\* In memory a job is PENDING, whether due yet or not, LEASED, or LAPSED: leased
\* until a time that is past.  A TORN file holds no JSON.
Entry == [state : {"ABSENT", "PENDING", "LEASED", "LAPSED"}, tries : Tries]
Content == [state : {"ABSENT", "PENDING", "LEASED", "TORN"}, tries : Tries]
Nothing == [state |-> "ABSENT", tries |-> 0]
Torn == [state |-> "TORN", tries |-> 0]

Readable(c) == c.state \in {"PENDING", "LEASED"}

\* loading: in the loop of recoverOrphanedJobs; read: with a file just read;
\* begun: initialize is over; expiring, leasing, saving: in persistJob;
\* working: a worker has its job; removing: in removePersistedJob.
Idle == [at |-> "idle", todo |-> {}, job |-> {}, data |-> Nothing, mixed |-> FALSE]
Calls == [at : {"idle", "loading", "read", "begun", "expiring", "leasing", "working",
                "saving", "removing"},
          todo : SUBSET Job, job : SUBSET Job, data : Content, mixed : BOOLEAN]

Writing(c) == call[c].at \in {"expiring", "leasing", "saving"}
Of(c, j) == call[c].job = {j}
Holds(w, j) == call[w].at \in {"leasing", "working"} /\ Of(w, j)

-----------------------------------------------------------------------------
JobInit ==
    /\ cache = [j \in Job |-> Nothing]
    /\ file = [j \in Job |-> Nothing]
    /\ ready = FALSE
    /\ call = [c \in Caller |-> Idle]
    /\ setting \in Settings
    /\ accepted = {} /\ ended = {} /\ spoilt = {} /\ loose = {}
    /\ faults = 0

Fault == faults < setting.faults /\ faults' = faults + 1

\* A job nobody has asked to enqueue; identifiers mean nothing, so the next one
\* is any fixed one of them.
Fresh == {j \in Job : /\ j \notin accepted \cup ended \cup spoilt
                      /\ cache[j] = Nothing /\ file[j] = Nothing
                      /\ \A c \in Caller : ~Of(c, j) /\ j \notin call[c].todo}

\* initialize at the beginning of enqueue and reserve: the first callers after
\* a start each list the files and load them.
Begin(c) ==
    /\ call[c].at = "idle"
    /\ IF c = Producer THEN Fresh # {} ELSE c \in setting.workers
    /\ call' = [call EXCEPT ![c] =
          IF ready THEN [Idle EXCEPT !.at = "begun"]
          ELSE [Idle EXCEPT !.at = "loading", !.todo = {j \in Job : file[j] # Nothing}]]
    /\ UNCHANGED <<cache, file, ready, setting, jobHistory>>

\* The loop of recoverOrphanedJobs reads the next file.
ReadFile(c, j) ==
    /\ call[c].at = "loading" /\ j \in call[c].todo
    /\ Readable(file[j])
    /\ call' = [call EXCEPT ![c] = [Idle EXCEPT !.at = "read", !.data = file[j],
                                                !.job = {j}, !.todo = call[c].todo \ {j}]]
    /\ UNCHANGED <<cache, file, ready, setting, jobHistory>>

\* A file that is gone or torn, or that another caller is in the middle of
\* writing, makes readFile or JSON.parse throw, which ends the loop and is
\* ignored.
ReadThrows(c, j) ==
    /\ call[c].at = "loading" /\ j \in call[c].todo
    /\ ~Readable(file[j]) \/ \E d \in Caller : Writing(d) /\ Of(d, j)
    /\ call' = [call EXCEPT ![c] = [Idle EXCEPT !.at = "begun"]]
    /\ ready' = TRUE
    /\ UNCHANGED <<cache, file, setting, jobHistory>>

\* Faulty variant of LoadJob: a job that was leased is not put into the cache.
LoadJobIfPending(c, j) ==
    /\ call[c].at = "read" /\ Of(c, j)
    /\ cache' = IF call[c].data.state = "PENDING"
                THEN [cache EXCEPT ![j] = call[c].data]
                ELSE cache
    /\ call' = [call EXCEPT ![c] = [Idle EXCEPT !.at = "loading", !.todo = call[c].todo]]
    /\ loose' = IF ready THEN loose \cup {j} ELSE loose
    /\ UNCHANGED <<file, ready, setting, accepted, ended, spoilt, faults>>

\* The job is put into the cache, over what another caller, whose load was
\* over sooner, may have made of it.
LoadJob(c, j) ==
    /\ call[c].at = "read" /\ Of(c, j)
    /\ cache' = [cache EXCEPT ![j] = [state |-> "PENDING", tries |-> call[c].data.tries]]
    /\ call' = [call EXCEPT ![c] = [Idle EXCEPT !.at = "loading", !.todo = call[c].todo]]
    /\ loose' = IF ready THEN loose \cup {j} ELSE loose
    /\ UNCHANGED <<file, ready, setting, accepted, ended, spoilt, faults>>

LoadEnds(c) ==
    /\ call[c].at = "loading" /\ call[c].todo = {}
    /\ call' = [call EXCEPT ![c] = [Idle EXCEPT !.at = "begun"]]
    /\ ready' = TRUE
    /\ UNCHANGED <<cache, file, setting, jobHistory>>

-----------------------------------------------------------------------------
\* shouldRetry says no.  Attempts are not counted further.
Exhausted(j) == cache[j].tries >= setting.retries

\* persistJob begins: the record as it is now is what will be written.
Persist(c, at, j, entry) ==
    call' = [call EXCEPT ![c] = [Idle EXCEPT !.at = at, !.job = {j}, !.data = entry]]

\* Faulty variant of Alike: a job that is being worked on is not considered.
AlikePending(j) ==
    {k \in Job : k # j /\ setting.key[k] = setting.key[j] /\ cache[k].state = "PENDING"}

\* The jobs in the queue that enqueue returns instead of a new one.
Alike(j) == {k \in Job : k # j /\ setting.key[k] = setting.key[j] /\ cache[k] # Nothing}

\* Faulty variant of Enqueue: the write is not awaited.
EnqueueUnawaited(j) ==
    /\ call[Producer].at = "begun"
    /\ j \in Fresh /\ j = CHOOSE k \in Fresh : TRUE
    /\ IF Alike(j) = {}
       THEN /\ cache' = [cache EXCEPT ![j].state = "PENDING"]
            /\ accepted' = accepted \cup {j}
            /\ Persist(Producer, "saving", j, [state |-> "PENDING", tries |-> 0])
       ELSE call' = [call EXCEPT ![Producer] = Idle] /\ UNCHANGED <<cache, accepted>>
    /\ UNCHANGED <<file, ready, setting, ended, spoilt, loose, faults>>

\* enqueue after initialize, of a job that is new.
Enqueue(j) ==
    /\ call[Producer].at = "begun"
    /\ j \in Fresh /\ j = CHOOSE k \in Fresh : TRUE
    /\ IF Alike(j) = {}
       THEN /\ cache' = [cache EXCEPT ![j].state = "PENDING"]
            /\ Persist(Producer, "saving", j, [state |-> "PENDING", tries |-> 0])
       ELSE call' = [call EXCEPT ![Producer] = Idle] /\ UNCHANGED cache
    /\ UNCHANGED <<file, ready, setting, jobHistory>>

\* The loop of reserve over the leases that have run out.
ReturnLapsed(w, j) ==
    /\ call[w].at = "begun" /\ cache[j].state = "LAPSED"
    /\ cache' = [cache EXCEPT ![j].state = "PENDING"]
    /\ Persist(w, "expiring", j, [state |-> "PENDING", tries |-> cache[j].tries])
    /\ UNCHANGED <<file, ready, setting, jobHistory>>

\* reserve takes one of the jobs that are due; which, its times and priorities
\* decide.
Take(w, j) ==
    /\ call[w].at = "begun" /\ cache[j].state = "PENDING"
    /\ LET tries == IF Exhausted(j) THEN cache[j].tries ELSE cache[j].tries + 1
       IN  /\ cache' = [cache EXCEPT ![j] = [state |-> "LEASED", tries |-> tries]]
           /\ Persist(w, "leasing", j, [state |-> "LEASED", tries |-> tries])
    /\ UNCHANGED <<file, ready, setting, jobHistory>>

\* reserve finds nothing.  While jobs wait to be due the worker stays here.
TakeNothing(w) ==
    /\ call[w].at = "begun"
    /\ \A j \in Job : cache[j].state \notin {"PENDING", "LAPSED"}
    /\ call' = [call EXCEPT ![w] = Idle]
    /\ UNCHANGED <<cache, file, ready, setting, jobHistory>>

\* A call that removes the job from the cache and then its file.
RemoveJob(w, j) ==
    /\ cache' = [cache EXCEPT ![j] = Nothing]
    /\ ended' = ended \cup {j}
    /\ call' = [call EXCEPT ![w] = [Idle EXCEPT !.at = "removing", !.job = {j}]]

\* ack, whoever holds the lease by now.
Ack(w, j) ==
    /\ call[w].at = "working" /\ Of(w, j)
    /\ IF cache[j] = Nothing
       THEN call' = [call EXCEPT ![w] = Idle] /\ UNCHANGED <<cache, ended>>
       ELSE RemoveJob(w, j)
    /\ UNCHANGED <<file, ready, setting, accepted, spoilt, loose, faults>>

\* nack, likewise; a fatal error, or too many attempts, makes a dead letter.
Nack(w, j, fatal) ==
    /\ call[w].at = "working" /\ Of(w, j)
    /\ \/ /\ cache[j] = Nothing
          /\ call' = [call EXCEPT ![w] = Idle]
          /\ UNCHANGED <<cache, ended>>
       \/ /\ cache[j] # Nothing
          /\ ~fatal /\ ~Exhausted(j)
          /\ cache' = [cache EXCEPT ![j].state = "PENDING"]
          /\ Persist(w, "saving", j, [state |-> "PENDING", tries |-> cache[j].tries])
          /\ UNCHANGED ended
       \/ /\ cache[j] # Nothing
          /\ fatal \/ Exhausted(j)
          /\ RemoveJob(w, j)
    /\ UNCHANGED <<file, ready, setting, accepted, spoilt, loose, faults>>

-----------------------------------------------------------------------------
\* What a call does when its write is over, and its other writes of the same
\* job know that theirs may mix with it.
AfterWrite(c, j) ==
    /\ call' = [d \in Caller |->
          IF d = c
          THEN CASE call[c].at = "expiring" -> [Idle EXCEPT !.at = "begun"]
                 [] call[c].at = "leasing"  -> [Idle EXCEPT !.at = "working", !.job = {j}]
                 [] call[c].at = "saving"   -> Idle
          ELSE IF Writing(d) /\ Of(d, j) THEN [call[d] EXCEPT !.mixed = TRUE] ELSE call[d]]
    /\ accepted' = IF c = Producer THEN accepted \cup {j} ELSE accepted

WriteEnds(c, j) ==
    /\ Writing(c) /\ Of(c, j)
    /\ file' = [file EXCEPT ![j] = call[c].data]
    /\ AfterWrite(c, j)
    /\ UNCHANGED <<cache, ready, setting, ended, spoilt, loose, faults>>

\* Another write of the job ended while this one was under way: the shorter
\* record may end up over the longer one.
WriteMixes(c, j) ==
    /\ Writing(c) /\ Of(c, j) /\ call[c].mixed
    /\ file' = [file EXCEPT ![j] = Torn]
    /\ spoilt' = spoilt \cup {j}
    /\ AfterWrite(c, j)
    /\ UNCHANGED <<cache, ready, setting, ended, loose, faults>>

\* A write that fails is only logged.
WriteFails(c, j) ==
    /\ Writing(c) /\ Of(c, j)
    /\ Fault
    /\ spoilt' = spoilt \cup {j}
    /\ AfterWrite(c, j)
    /\ UNCHANGED <<cache, file, ready, setting, ended, loose>>

RemoveEnds(w, j) ==
    /\ call[w].at = "removing" /\ Of(w, j)
    /\ file' = [file EXCEPT ![j] = Nothing]
    /\ call' = [call EXCEPT ![w] = Idle]
    /\ UNCHANGED <<cache, ready, setting, jobHistory>>

\* A lease runs out; nobody is told.
Lapse(j) ==
    /\ cache[j].state = "LEASED"
    /\ Fault
    /\ cache' = [cache EXCEPT ![j].state = "LAPSED"]
    /\ loose' = loose \cup {j}
    /\ UNCHANGED <<file, ready, call, setting, accepted, ended, spoilt>>

\* The process ends and starts again.  Writes under way are cut off; those in
\* cut leave a torn file, the others have not begun.
Crash(cut) ==
    /\ Fault
    /\ cut \subseteq {c \in Caller : Writing(c)}
    /\ LET hit == {j \in Job : \E c \in cut : Of(c, j)}
       IN  /\ file' = [j \in Job |-> IF j \in hit THEN Torn ELSE file[j]]
           /\ spoilt' = spoilt \cup hit
    /\ cache' = [j \in Job |-> Nothing]
    /\ call' = [c \in Caller |-> Idle]
    /\ ready' = FALSE
    /\ loose' = {}
    /\ UNCHANGED <<setting, accepted, ended>>

-----------------------------------------------------------------------------
LoadSteps(c) ==
    \/ \E j \in Job : ReadFile(c, j) \/ ReadThrows(c, j) \/ LoadJob(c, j)
    \/ LoadEnds(c)

WorkSteps(w) ==
    \/ \E j \in Job : ReturnLapsed(w, j) \/ Take(w, j) \/ Ack(w, j)
    \/ \E j \in Job, fatal \in BOOLEAN : Nack(w, j, fatal)
    \/ TakeNothing(w)
    \/ \E j \in Job : RemoveEnds(w, j)

WriteSteps(c) ==
    \E j \in Job : WriteEnds(c, j) \/ WriteMixes(c, j) \/ WriteFails(c, j)

JobNext ==
    \/ \E c \in Caller : Begin(c) \/ LoadSteps(c) \/ WriteSteps(c)
    \/ \E j \in Job : Enqueue(j)
    \/ \E w \in Worker : WorkSteps(w)
    \/ \E j \in Job : Lapse(j)
    \/ \E cut \in SUBSET Caller : Crash(cut)

\* Files answer, the poll loop of a worker goes on, and a worker is done with
\* its job in the end.  That a job becomes due is part of a step of its worker.
JobFairness ==
    /\ \A c \in Caller : WF_jobVars(LoadSteps(c)) /\ WF_jobVars(WriteSteps(c))
    /\ \A w \in Worker : WF_jobVars(Begin(w)) /\ WF_jobVars(WorkSteps(w))

JobSpec == JobInit /\ [][JobNext]_jobVars /\ JobFairness

-----------------------------------------------------------------------------
\* Type correctness of cache, files and calls.
JobTypeOK ==
    /\ cache \in [Job -> Entry]
    /\ file \in [Job -> Content]
    /\ ready \in BOOLEAN
    /\ call \in [Caller -> Calls]
    /\ setting \in Settings
    /\ accepted \subseteq Job /\ ended \subseteq Job
    /\ spoilt \subseteq Job /\ loose \subseteq Job
    /\ faults \in 0..setting.faults

\* A job whose enqueue has returned is not forgotten before a worker has
\* acknowledged it or given it up, whatever crashes, leases and late loads do:
\* its file can be read, and once the queue is initialized it is in the cache.
\* Excepted are jobs a write of which went wrong, and, after a restart, all
\* jobs as long as any file is torn: recovery stops there.
NeverForgotten ==
    \A j \in accepted \ (ended \cup spoilt) :
        /\ Readable(file[j])
        /\ ready => cache[j] # Nothing \/ \E k \in Job : file[k] = Torn

\* Of the jobs of one key one worker at a time has one, until a lease runs out,
\* a caller that was still initializing puts a job back, or a job that had
\* ended comes back because a crash came before the removal of its file.  While
\* a file is torn recovery may miss a job, and a second one be enqueued.
LeaseExclusive ==
    \A v, w \in Worker, j, k \in Job :
        /\ Holds(v, j) /\ Holds(w, k)
        /\ setting.key[j] = setting.key[k]
        /\ {j, k} \cap (loose \cup ended) = {}
        /\ \A i \in Job : file[i] # Torn
        => v = w

\* Every accepted job ends, however often the process crashes or leases run out,
\* unless a write of it went wrong or recovery stops at a torn file.
EveryJobEnds ==
    \A j \in Job :
        j \in accepted ~> (j \in ended \cup spoilt \/ \E k \in Job : file[k] = Torn)

\* The queue, whose workers may hold a job whose lease has run out and whose
\* storage may fail, promises delivery at least once: an accepted job leaves it only
\* through a worker that was given it, and no step gives out two jobs of one key.
Promise == INSTANCE JobContract WITH
    key <- setting.key,
    record <- {j \in Job : Readable(file[j])},
    working <- [w \in Worker |-> IF call[w].at = "working" THEN call[w].job ELSE {}],
    doubtful <- loose \cup ended \cup {j \in Job : \E k \in Job : file[k] = Torn}
PromiseKept == Promise!Contract
=============================================================================

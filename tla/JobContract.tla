----------------------------- MODULE JobContract -----------------------------
(***************************************************************************)
(* What IQueue of apps/worker/src/queues/QueueInterface.ts promises:       *)
(* delivery at least once.  An accepted job stays on record until a worker *)
(* that has been given it is done with it, however often it is given out;  *)
(* two workers have jobs of one idempotency key only when one of them is   *)
(* in doubt; and the end of the process takes jobs from the workers, never *)
(* from the record.                                                        *)
(*                                                                         *)
(* spoilt and doubtful are not the queue's to decide: of a spoilt job the  *)
(* storage has gone wrong, a doubtful one may be had by someone whose      *)
(* lease is over or has ended before.                                      *)
(***************************************************************************)
CONSTANTS Job, Worker

VARIABLES
    key,          \* the idempotency key of each job
    accepted,     \* jobs whose enqueue has returned
    ended,        \* jobs that are done or recorded as dead letters
    record,       \* jobs the storage has
    working,      \* the job each worker has been given, if any
    spoilt, doubtful

contractVars == <<key, accepted, ended, record, working, spoilt, doubtful>>

ContractInit ==
    /\ accepted = {} /\ ended = {} /\ record = {} /\ spoilt = {} /\ doubtful = {}
    /\ working = [w \in Worker |-> {}]

\* enqueue returns.
Accept(j) ==
    /\ accepted' = accepted \cup {j}
    /\ UNCHANGED <<ended, working>>

\* reserve returns j to w.
Deliver(w, j) ==
    /\ working[w] = {}
    /\ \A v \in Worker : \A k \in working[v] : key[k] = key[j] => {j, k} \cap doubtful # {}
    /\ working' = [working EXCEPT ![w] = {j}]
    /\ UNCHANGED <<accepted, ended>>

\* w is done with its job: ack, or nack of a job that is not tried again.
End(w, j) ==
    /\ j \in working[w]
    /\ working' = [working EXCEPT ![w] = {}]
    /\ ended' = ended \cup {j}
    /\ UNCHANGED accepted

\* w gives its job back: nack of a job that is tried again.
GiveBack(w) ==
    /\ working[w] # {}
    /\ working' = [working EXCEPT ![w] = {}]
    /\ UNCHANGED <<accepted, ended>>

\* The process ends.
Restart ==
    /\ working' = [w \in Worker |-> {}]
    /\ UNCHANGED <<accepted, ended>>

\* Whatever a step does, what was accepted is on record until it has ended.
OnRecord == accepted \ (ended \cup spoilt) \subseteq record

\* And of the jobs of one key one worker has one, if none of them is in doubt.
OnePerKey ==
    \A v, w \in Worker : v # w =>
        \A j \in working[v], k \in working[w] :
            key[j] = key[k] => {j, k} \cap doubtful # {}

ContractNext ==
    /\ key' = key /\ spoilt \subseteq spoilt'
    /\ OnRecord' /\ OnePerKey'
    /\ \/ \E j \in Job : Accept(j)
       \/ \E w \in Worker, j \in Job : Deliver(w, j) \/ End(w, j)
       \/ \E w \in Worker : GiveBack(w)
       \/ Restart
       \/ UNCHANGED <<accepted, ended, working>>

Contract == ContractInit /\ [][ContractNext]_contractVars
=============================================================================

--------------------------- MODULE ApprovalEngine ---------------------------
(***************************************************************************)
(* The approval engine: packages/approval-engine/src.  One Node.js process *)
(* in which three kinds of asynchronous functions interleave at their      *)
(* awaits:                                                                 *)
(*   - requestApproval, one call per request (ApprovalEngine.ts);          *)
(*   - processDecision, one call per submission (ApprovalResolver.ts);     *)
(*   - checkExpiredRequests, started again by setInterval whether or not   *)
(*     the previous one has ended (ApprovalTimeout.ts).                    *)
(* What runs between two awaits is one action.  ApprovalStore and          *)
(* AuditSink are interfaces that return promises, so any of these awaits   *)
(* may last as long as it likes.                                           *)
(*                                                                         *)
(* The store hands out and keeps shallow copies: the status of a copy      *)
(* grows stale, but all copies share one decisions array.                  *)
(***************************************************************************)
EXTENDS ApprovalPolicy, Sequences

CONSTANTS
  Submissions,  \* calls of processDecision that may be in flight at once
  Monitors      \* calls of checkExpiredRequests that may be in flight at once

VARIABLES
  level,      \* risk level of each request, "none" before requestApproval
  phase,      \* where the call of requestApproval stands
  status,     \* status kept by the store
  decisions,  \* the decisions array of each request
  expired,    \* requests whose expiresAt has passed
  deferred,   \* keys of pendingDeferreds
  answer,     \* what requestApproval's promise resolved to
  audit,      \* event types recorded about each request
  op,         \* the submissions in flight
  mon         \* the monitor runs in flight

vars == <<level, phase, status, decisions, expired, deferred, answer, audit, op, mon>>

Verdicts == {"APPROVED", "REJECTED"}
Statuses == {"pending", "approved", "rejected", "timed_out", "auto_approved"}
Decision == [by : Users, verdict : Verdicts]
Answers == {"auto_approved", "approved", "rejected", "timed_out"}
Events == {"requested", "granted", "rejected", "modified", "timed_out"}

IdleOp == [pc |-> "idle"]
ReadOp == [pc : {"read"}, req : Requests, by : Users, verdict : Verdicts]
DoneOp == [pc : {"written", "audited"}, req : Requests,
           outcome : {"pending", "approved", "rejected"}]

IdleMon == [pc |-> "idle"]
LoopMon == [pc : {"listed", "loop"}, todo : SUBSET Requests]
BusyMon == [pc : {"updated", "audited"}, todo : SUBSET Requests, req : Requests]

TypeOK ==
  /\ level \in [Requests -> Levels \cup {"none"}]
  /\ phase \in [Requests -> {"none", "saved", "audited", "returned"}]
  /\ status \in [Requests -> Statuses \cup {"none"}]
  /\ decisions \in [Requests -> Seq(Decision)]
  /\ expired \in SUBSET Requests
  /\ deferred \in SUBSET Requests
  /\ answer \in [Requests -> Answers \cup {"none"}]
  /\ audit \in [Requests -> SUBSET Events]
  /\ op \in [Submissions -> {IdleOp} \cup ReadOp \cup DoneOp]
  /\ mon \in [Monitors -> {IdleMon} \cup LoopMon \cup BusyMon]

Init ==
  /\ level = [r \in Requests |-> "none"]
  /\ phase = [r \in Requests |-> "none"]
  /\ status = [r \in Requests |-> "none"]
  /\ decisions = [r \in Requests |-> <<>>]
  /\ expired = {}
  /\ deferred = {}
  /\ answer = [r \in Requests |-> "none"]
  /\ audit = [r \in Requests |-> {}]
  /\ op = [s \in Submissions |-> IdleOp]
  /\ mon = [m \in Monitors |-> IdleMon]

(***************************************************************************)
(* requestApproval                                                         *)
(***************************************************************************)

(* The request is created and saved, as auto_approved when the policy says *)
(* so and as pending otherwise.                                            *)
RequestCall(r, l) ==
  /\ phase[r] = "none"
  /\ phase' = [phase EXCEPT ![r] = "saved"]
  /\ level' = [level EXCEPT ![r] = l]
  /\ status' = [status EXCEPT ![r] = IF AutoApproved(l) THEN "auto_approved" ELSE "pending"]
  /\ UNCHANGED <<decisions, expired, deferred, answer, audit, op, mon>>

RequestAudit(r) ==
  /\ phase[r] = "saved"
  /\ phase' = [phase EXCEPT ![r] = "audited"]
  /\ audit' = [audit EXCEPT ![r] =
                 @ \cup {IF AutoApproved(level[r]) THEN "granted" ELSE "requested"}]
  /\ UNCHANGED <<level, status, decisions, expired, deferred, answer, op, mon>>

(* Faulty variant of RequestReturn: the audit record is not awaited. *)
RequestReturnUnaudited(r) ==
  /\ phase[r] \in {"saved", "audited"}
  /\ AutoApproved(level[r])
  /\ phase' = [phase EXCEPT ![r] = "returned"]
  /\ answer' = [answer EXCEPT ![r] = "auto_approved"]
  /\ UNCHANGED <<level, status, decisions, expired, deferred, audit, op, mon>>

(* An auto-approved call returns its answer at once. *)
RequestReturn(r) ==
  /\ phase[r] = "audited"
  /\ AutoApproved(level[r])
  /\ phase' = [phase EXCEPT ![r] = "returned"]
  /\ answer' = [answer EXCEPT ![r] = "auto_approved"]
  /\ UNCHANGED <<level, status, decisions, expired, deferred, audit, op, mon>>

(* Any other one returns a promise, registered with the resolver whatever  *)
(* became of the request since it was saved.                               *)
RequestRegister(r) ==
  /\ phase[r] = "audited"
  /\ ~AutoApproved(level[r])
  /\ phase' = [phase EXCEPT ![r] = "returned"]
  /\ deferred' = deferred \cup {r}
  /\ UNCHANGED <<level, status, decisions, expired, answer, audit, op, mon>>

(* Faulty variant of Resolve: an expired caller is dropped, not woken. *)
ResolveDecisionsOnly(r, a) ==
  /\ deferred' = deferred \ {r}
  /\ answer' = IF r \in deferred /\ a # "timed_out" THEN [answer EXCEPT ![r] = a] ELSE answer

(* resolvePendingDeferred and rejectExpired: wake the caller, if there is  *)
(* one to wake.                                                            *)
Resolve(r, a) ==
  /\ deferred' = deferred \ {r}
  /\ answer' = IF r \in deferred THEN [answer EXCEPT ![r] = a] ELSE answer

(***************************************************************************)
(* processDecision                                                         *)
(***************************************************************************)

(* Faulty variant of HasDecided: only approvals are looked up. *)
HasApproved(r, u) ==
  \E i \in DOMAIN decisions[r] :
    decisions[r][i].by = u /\ decisions[r][i].verdict = "APPROVED"

HasDecided(r, u) == \E i \in DOMAIN decisions[r] : decisions[r][i].by = u

ApprovalCount(ds) == Cardinality({i \in DOMAIN ds : ds[i].verdict = "APPROVED"})

(* getById takes a copy of what the store holds now.  A copy that is       *)
(* already settled makes the call throw and is left out; a pending one     *)
(* stays pending, whatever becomes of the stored request.                  *)
ReadRequest(s, r, u, d) ==
  /\ op[s] = IdleOp
  /\ status[r] = "pending"
  /\ op' = [op EXCEPT ![s] = [pc |-> "read", req |-> r, by |-> u, verdict |-> d]]
  /\ UNCHANGED <<level, phase, status, decisions, expired, deferred, answer, audit, mon>>

(* The remaining checks, the last of them on the shared array. *)
Acceptable(o) ==
  /\ MayDecide(o.req, level[o.req], o.by)
  /\ ~HasDecided(o.req, o.by)

(* What one more decision makes of the copy's status. *)
StatusAfter(o, ds) ==
  CASE o.verdict = "REJECTED" -> "rejected"
    [] o.verdict = "APPROVED" /\ ApprovalCount(ds) >= RequiredCount(level[o.req]) -> "approved"
    [] OTHER -> "pending"

(* A check fails and the call throws. *)
RefuseDecision(s) ==
  /\ op[s].pc = "read"
  /\ ~Acceptable(op[s])
  /\ op' = [op EXCEPT ![s] = IdleOp]
  /\ UNCHANGED <<level, phase, status, decisions, expired, deferred, answer, audit, mon>>

(* The decision is pushed on the shared array and the copy, with its own   *)
(* idea of the status, replaces what the store holds.                      *)
AcceptDecision(s) ==
  LET o == op[s]
      ds == Append(decisions[o.req], [by |-> o.by, verdict |-> o.verdict])
  IN
  /\ o.pc = "read"
  /\ Acceptable(o)
  /\ decisions' = [decisions EXCEPT ![o.req] = ds]
  /\ status' = [status EXCEPT ![o.req] = StatusAfter(o, ds)]
  /\ op' = [op EXCEPT ![s] = [pc |-> "written", req |-> o.req,
                              outcome |-> StatusAfter(o, ds)]]
  /\ UNCHANGED <<level, phase, expired, deferred, answer, audit, mon>>

EventOf(outcome) ==
  CASE outcome = "approved" -> "granted"
    [] outcome = "rejected" -> "rejected"
    [] outcome = "pending" -> "modified"

AuditDecision(s) ==
  LET o == op[s] IN
  /\ o.pc = "written"
  /\ audit' = [audit EXCEPT ![o.req] = @ \cup {EventOf(o.outcome)}]
  /\ op' = [op EXCEPT ![s].pc = "audited"]
  /\ UNCHANGED <<level, phase, status, decisions, expired, deferred, answer, mon>>

(* A decision that settled the request wakes the caller; one that only     *)
(* brought it closer to its quorum does not.                               *)
FinishDecision(s) ==
  LET o == op[s] IN
  /\ o.pc = "audited"
  /\ IF o.outcome = "pending"
       THEN UNCHANGED <<deferred, answer>>
       ELSE Resolve(o.req, o.outcome)
  /\ op' = [op EXCEPT ![s] = IdleOp]
  /\ UNCHANGED <<level, phase, status, decisions, expired, audit, mon>>

(***************************************************************************)
(* The clock and checkExpiredRequests                                      *)
(***************************************************************************)

Expire(r) ==
  /\ status[r] \notin {"none", "auto_approved"}
  /\ r \notin expired
  /\ expired' = expired \cup {r}
  /\ UNCHANGED <<level, phase, status, decisions, deferred, answer, audit, op, mon>>

(* The interval fires and the pending requests are listed.  A run that     *)
(* finds none changes nothing and is left out.                             *)
MonitorList(m) ==
  LET pending == {r \in Requests : status[r] = "pending"} IN
  /\ mon[m] = IdleMon
  /\ pending # {}
  /\ mon' = [mon EXCEPT ![m] = [pc |-> "listed", todo |-> pending]]
  /\ UNCHANGED <<level, phase, status, decisions, expired, deferred, answer, audit, op>>

LoopOver(todo) == IF todo = {} THEN IdleMon ELSE [pc |-> "loop", todo |-> todo]

(* The clock is read once, when the list arrives. *)
MonitorSelect(m) ==
  /\ mon[m].pc = "listed"
  /\ mon' = [mon EXCEPT ![m] = LoopOver(@.todo \cap expired)]
  /\ UNCHANGED <<level, phase, status, decisions, expired, deferred, answer, audit, op>>

(* The listed copy is written back as timed_out, whatever the store holds  *)
(* by now.  The order of the list is not told apart.                       *)
MonitorUpdate(m, r) ==
  /\ mon[m].pc = "loop"
  /\ r \in mon[m].todo
  /\ status' = [status EXCEPT ![r] = "timed_out"]
  /\ mon' = [mon EXCEPT ![m] = [pc |-> "updated", todo |-> @.todo \ {r}, req |-> r]]
  /\ UNCHANGED <<level, phase, decisions, expired, deferred, answer, audit, op>>

MonitorAudit(m) ==
  /\ mon[m].pc = "updated"
  /\ audit' = [audit EXCEPT ![mon[m].req] = @ \cup {"timed_out"}]
  /\ mon' = [mon EXCEPT ![m].pc = "audited"]
  /\ UNCHANGED <<level, phase, status, decisions, expired, deferred, answer, op>>

(* The engine's callback: rejectExpired. *)
MonitorCallback(m) ==
  /\ mon[m].pc = "audited"
  /\ Resolve(mon[m].req, "timed_out")
  /\ mon' = [mon EXCEPT ![m] = LoopOver(@.todo)]
  /\ UNCHANGED <<level, phase, status, decisions, expired, audit, op>>

-----------------------------------------------------------------------------

RequestStep(r) ==
  RequestAudit(r) \/ RequestReturn(r) \/ RequestRegister(r)

SubmissionStep(s) ==
  RefuseDecision(s) \/ AcceptDecision(s) \/ AuditDecision(s) \/ FinishDecision(s)

MonitorStep(m) ==
  \/ MonitorList(m)
  \/ MonitorSelect(m)
  \/ \E r \in Requests : MonitorUpdate(m, r)
  \/ MonitorAudit(m)
  \/ MonitorCallback(m)

Next ==
  \/ \E r \in Requests :
       \/ \E l \in Levels : RequestCall(r, l)
       \/ RequestStep(r)
       \/ Expire(r)
  \/ \E s \in Submissions :
       \/ \E r \in Requests, u \in Users, d \in Verdicts : ReadRequest(s, r, u, d)
       \/ SubmissionStep(s)
  \/ \E m \in Monitors : MonitorStep(m)

Spec == Init /\ [][Next]_vars

(* Every call that is running goes on, time passes, and the interval keeps *)
(* firing.  Nothing is assumed of the callers and of the people who        *)
(* decide.                                                                 *)
Fairness ==
  /\ \A r \in Requests : WF_vars(RequestStep(r)) /\ WF_vars(Expire(r))
  /\ \A s \in Submissions : WF_vars(SubmissionStep(s))
  /\ \A m \in Monitors : WF_vars(MonitorStep(m))

FairSpec == Spec /\ Fairness

-----------------------------------------------------------------------------
(***************************************************************************)
(* Properties                                                              *)
(***************************************************************************)

Recorded(r) == {decisions[r][i] : i \in DOMAIN decisions[r]}

Contract == INSTANCE ApprovalContract WITH votes <- [r \in Requests |-> Recorded(r)]

(* The engine keeps its contract: requests are opened once, a person       *)
(* decides at most once per request and only with the right role and not   *)
(* on their own high-risk request, and every answer is justified by the    *)
(* decisions recorded when it is given - whatever the interleaving of      *)
(* decisions that work on stale copies with the timeout monitor.           *)
ImplementsContract == Contract!Spec

(* An answer stays backed by what entitled the engine to give it: an       *)
(* approval by requiredApproverCount distinct people (two for CRITICAL).   *)
AnswerJustified == Contract!AnswerJustified

(* The caller is never told an outcome that the audit trail does not hold: *)
(* every path emits the matching event before it resolves the promise.     *)
AnswerIsAudited ==
  \A r \in Requests :
    /\ answer[r] \in {"approved", "auto_approved"} => "granted" \in audit[r]
    /\ answer[r] = "rejected" => "rejected" \in audit[r]
    /\ answer[r] = "timed_out" => "timed_out" \in audit[r]

(* Once the caller's promise is registered with the resolver while the     *)
(* request is still pending, the caller is answered: by a decision or, at  *)
(* the latest, by the timeout monitor.                                     *)
RegisteredIsAnswered ==
  \A r \in Requests :
    (r \in deferred /\ status[r] = "pending") ~> (answer[r] # "none")

(* ApprovalEngine.ts:93: "Return a pending promise that will resolve when  *)
(* human answers or times out".                                            *)
EveryRequestAnswered ==
  \A r \in Requests : (phase[r] # "none") ~> (answer[r] # "none")

=============================================================================

----------------------- MODULE ApprovalEngine_proofs -----------------------
(***************************************************************************)
(* Proofs about ApprovalEngine for any number of requests, users, levels,  *)
(* submissions and monitor runs.                                           *)
(*                                                                         *)
(* AnswerJustified and AnswerIsAudited are not inductive: what is true of  *)
(* an answer has to be true already of the submission, the monitor run or  *)
(* the request that is about to give it.  IInv says so.                    *)
(***************************************************************************)
EXTENDS ApprovalEngine, FiniteSetTheorems, TLAPS

(* A request waits for people from the moment it is created. *)
Human(r) == level[r] \in Levels /\ ~AutoApproved(level[r])

(* Nobody decides twice, not even through two submissions in flight. *)
DistinctDeciders ==
  \A r \in Requests : \A i, j \in DOMAIN decisions[r] :
    decisions[r][i].by = decisions[r][j].by => i = j

RequestInv ==
  \A r \in Requests :
    /\ phase[r] = "none" <=> level[r] = "none"
    /\ status[r] = "pending" => Human(r)
    /\ phase[r] = "audited" /\ AutoApproved(level[r]) => "granted" \in audit[r]
    /\ phase[r] # "returned" => answer[r] = "none" /\ r \notin deferred
    /\ r \in deferred => answer[r] = "none"

Rejected(r) == \E i \in DOMAIN decisions[r] : decisions[r][i].verdict = "REJECTED"

SubmissionInv ==
  \A s \in Submissions : LET o == op[s] IN
    /\ o.pc # "idle" => Human(o.req)
    /\ o.pc \in {"written", "audited"} =>
         /\ o.outcome = "approved" => ApprovalCount(decisions[o.req]) >= RequiredCount(level[o.req])
         /\ o.outcome = "rejected" => Rejected(o.req)
    /\ o.pc = "audited" => EventOf(o.outcome) \in audit[o.req]

MonitorInv ==
  \A m \in Monitors :
    /\ mon[m].pc # "idle" => \A r \in mon[m].todo : Human(r)
    /\ mon[m].pc \in {"updated", "audited"} => Human(mon[m].req)
    /\ mon[m].pc = "audited" => "timed_out" \in audit[mon[m].req]

AnswerInv ==
  \A r \in Requests :
    /\ answer[r] = "auto_approved" => AutoApproved(level[r])
    /\ answer[r] = "approved" =>
         Human(r) /\ ApprovalCount(decisions[r]) >= RequiredCount(level[r])
    /\ answer[r] = "rejected" => Rejected(r)
    /\ answer[r] = "timed_out" => Human(r)

IInv ==
  /\ TypeOK
  /\ DistinctDeciders
  /\ RequestInv
  /\ SubmissionInv
  /\ MonitorInv
  /\ AnswerInv
  /\ AnswerIsAudited

-----------------------------------------------------------------------------
(* The record that a call in flight holds is told by its pc. *)
LEMMA OpByPc ==
  ASSUME TypeOK, NEW s \in Submissions
  PROVE  /\ op[s].pc = "read" => op[s] \in ReadOp
         /\ op[s].pc \in {"written", "audited"} => op[s] \in DoneOp
         /\ op[s].pc = "idle" => op[s] = IdleOp
  BY DEF TypeOK, IdleOp, ReadOp, DoneOp

LEMMA MonByPc ==
  ASSUME TypeOK, NEW m \in Monitors
  PROVE  /\ mon[m].pc \in {"listed", "loop"} => mon[m] \in LoopMon
         /\ mon[m].pc \in {"updated", "audited"} => mon[m] \in BusyMon
         /\ mon[m].pc = "idle" => mon[m] = IdleMon
  BY DEF TypeOK, IdleMon, LoopMon, BusyMon

LEMMA LoopOverType ==
  ASSUME NEW todo \in SUBSET Requests
  PROVE  LoopOver(todo) \in {IdleMon} \cup LoopMon
  BY DEF LoopOver, LoopMon

(* Every step keeps the types: each action on its own. *)
LEMMA TypeStep == TypeOK /\ [Next]_vars => TypeOK'
<1> SUFFICES ASSUME TypeOK, [Next]_vars PROVE TypeOK'
  OBVIOUS
<1>1. ASSUME NEW r \in Requests, NEW l \in Levels, RequestCall(r, l) PROVE TypeOK'
  BY <1>1 DEF TypeOK, RequestCall, Statuses
<1>2. ASSUME NEW r \in Requests, RequestAudit(r) PROVE TypeOK'
  BY <1>2 DEF TypeOK, RequestAudit, Events
<1>3. ASSUME NEW r \in Requests, RequestReturn(r) PROVE TypeOK'
  BY <1>3 DEF TypeOK, RequestReturn, Answers
<1>4. ASSUME NEW r \in Requests, RequestRegister(r) PROVE TypeOK'
  BY <1>4 DEF TypeOK, RequestRegister
<1>5. ASSUME NEW r \in Requests, Expire(r) PROVE TypeOK'
  BY <1>5 DEF TypeOK, Expire
<1>6. ASSUME NEW s \in Submissions, NEW r \in Requests, NEW u \in Users, NEW d \in Verdicts,
             ReadRequest(s, r, u, d)
      PROVE  TypeOK'
  <2>1. [pc |-> "read", req |-> r, by |-> u, verdict |-> d] \in ReadOp
    BY DEF ReadOp
  <2> QED
    BY <1>6, <2>1 DEF TypeOK, ReadRequest
<1>7. ASSUME NEW s \in Submissions, RefuseDecision(s) PROVE TypeOK'
  BY <1>7 DEF TypeOK, RefuseDecision
<1>8. ASSUME NEW s \in Submissions, AcceptDecision(s) PROVE TypeOK'
  <2> DEFINE o == op[s]
             ds == Append(decisions[o.req], [by |-> o.by, verdict |-> o.verdict])
  <2>1. o \in ReadOp
    BY <1>8, OpByPc DEF AcceptDecision
  <2>2. ds \in Seq(Decision)
    <3>1. [by |-> o.by, verdict |-> o.verdict] \in Decision
      BY <2>1 DEF ReadOp, Decision
    <3>2. decisions[o.req] \in Seq(Decision)
      BY <2>1 DEF TypeOK, ReadOp
    <3> QED
      BY <3>1, <3>2
  <2>3. StatusAfter(o, ds) \in {"rejected", "approved", "pending"}
    BY DEF StatusAfter
  <2>4. [pc |-> "written", req |-> o.req, outcome |-> StatusAfter(o, ds)] \in DoneOp
    BY <2>1, <2>3 DEF DoneOp, ReadOp
  <2> HIDE DEF ds
  <2>5. /\ decisions' = [decisions EXCEPT ![o.req] = ds]
        /\ status' = [status EXCEPT ![o.req] = StatusAfter(o, ds)]
        /\ op' = [op EXCEPT ![s] = [pc |-> "written", req |-> o.req,
                                     outcome |-> StatusAfter(o, ds)]]
        /\ UNCHANGED <<level, phase, expired, deferred, answer, audit, mon>>
    BY <1>8 DEF AcceptDecision, ds
  <2> QED
    BY <2>1, <2>2, <2>3, <2>4, <2>5 DEF TypeOK, ReadOp, Statuses
<1>9. ASSUME NEW s \in Submissions, AuditDecision(s) PROVE TypeOK'
  <2>1. op[s] \in DoneOp
    BY <1>9, OpByPc DEF AuditDecision
  <2>2. EventOf(op[s].outcome) \in Events
    BY <2>1 DEF DoneOp, EventOf, Events
  <2>3. [op[s] EXCEPT !.pc = "audited"] \in DoneOp
    BY <2>1 DEF DoneOp
  <2> QED
    BY <1>9, <2>1, <2>2, <2>3 DEF TypeOK, AuditDecision, DoneOp
<1>10. ASSUME NEW s \in Submissions, FinishDecision(s) PROVE TypeOK'
  <2>1. op[s] \in DoneOp
    BY <1>10, OpByPc DEF FinishDecision
  <2>2. op[s].outcome # "pending" => op[s].outcome \in Answers
    BY <2>1 DEF DoneOp, Answers
  <2>3. /\ answer' \in [Requests -> Answers \cup {"none"}]
        /\ deferred' \in SUBSET Requests
    BY <1>10, <2>2 DEF TypeOK, FinishDecision, Resolve
  <2>4. op' \in [Submissions -> {IdleOp} \cup ReadOp \cup DoneOp]
    BY <1>10 DEF TypeOK, FinishDecision
  <2>5. UNCHANGED <<level, phase, status, decisions, expired, audit, mon>>
    BY <1>10 DEF FinishDecision
  <2> QED
    BY <2>3, <2>4, <2>5 DEF TypeOK
<1>11. ASSUME NEW m \in Monitors, MonitorList(m) PROVE TypeOK'
  BY <1>11 DEF TypeOK, MonitorList, LoopMon
<1>12. ASSUME NEW m \in Monitors, MonitorSelect(m) PROVE TypeOK'
  <2>1. mon[m] \in LoopMon
    BY <1>12, MonByPc DEF MonitorSelect
  <2>2. LoopOver(mon[m].todo \cap expired) \in {IdleMon} \cup LoopMon
    BY <2>1, LoopOverType DEF LoopMon
  <2> QED
    BY <1>12, <2>2 DEF TypeOK, MonitorSelect
<1>13. ASSUME NEW m \in Monitors, NEW r \in Requests, MonitorUpdate(m, r) PROVE TypeOK'
  <2>1. mon[m] \in LoopMon
    BY <1>13, MonByPc DEF MonitorUpdate
  <2> QED
    BY <1>13, <2>1 DEF TypeOK, MonitorUpdate, LoopMon, BusyMon, Statuses
<1>14. ASSUME NEW m \in Monitors, MonitorAudit(m) PROVE TypeOK'
  <2>1. mon[m] \in BusyMon
    BY <1>14, MonByPc DEF MonitorAudit
  <2>2. [mon[m] EXCEPT !.pc = "audited"] \in BusyMon
    BY <2>1 DEF BusyMon
  <2> QED
    BY <1>14, <2>1, <2>2 DEF TypeOK, MonitorAudit, BusyMon, Events
<1>15. ASSUME NEW m \in Monitors, MonitorCallback(m) PROVE TypeOK'
  <2>1. mon[m] \in BusyMon
    BY <1>15, MonByPc DEF MonitorCallback
  <2>2. LoopOver(mon[m].todo) \in {IdleMon} \cup LoopMon
    BY <2>1, LoopOverType DEF BusyMon
  <2> QED
    BY <1>15, <2>1, <2>2 DEF TypeOK, MonitorCallback, BusyMon, Resolve, Answers
<1>16. CASE UNCHANGED vars
  BY <1>16 DEF TypeOK, vars
<1> QED
  BY <1>1, <1>2, <1>3, <1>4, <1>5, <1>6, <1>7, <1>8, <1>9, <1>10, <1>11, <1>12,
     <1>13, <1>14, <1>15, <1>16
  DEF Next, RequestStep, SubmissionStep, MonitorStep

(* The engine's state always has its type, for any instance. *)
THEOREM TypeCorrect == Spec => []TypeOK
<1>1. Init => TypeOK
  <2> SUFFICES ASSUME Init PROVE TypeOK
    OBVIOUS
  <2>1. <<>> \in Seq(Decision)
    OBVIOUS
  <2> QED
    BY <2>1 DEF Init, TypeOK
<1> QED
  BY <1>1, TypeStep, PTL DEF Spec

-----------------------------------------------------------------------------
(* The number of approvals in a decisions array is a number, and grows     *)
(* with the array.                                                         *)
LEMMA CountType ==
  ASSUME NEW ds \in Seq(Decision)
  PROVE  ApprovalCount(ds) \in Nat
<1> DEFINE approving == {i \in DOMAIN ds : ds[i].verdict = "APPROVED"}
<1>1. approving \in SUBSET (1..Len(ds))
  OBVIOUS
<1>2. IsFiniteSet(1..Len(ds))
  BY FS_Interval
<1>3. IsFiniteSet(approving)
  BY <1>1, <1>2, FS_Subset
<1> QED
  BY <1>3, FS_CardinalityType DEF ApprovalCount

(* What Append does to a sequence, element by element.                     *)
LEMMA AppendFacts ==
  ASSUME NEW S, NEW ds \in Seq(S), NEW e \in S
  PROVE  /\ Append(ds, e) \in Seq(S)
         /\ DOMAIN Append(ds, e) = DOMAIN ds \cup {Len(ds) + 1}
         /\ Len(ds) + 1 \notin DOMAIN ds
         /\ \A i \in DOMAIN ds : Append(ds, e)[i] = ds[i]
         /\ Append(ds, e)[Len(ds) + 1] = e
OBVIOUS

LEMMA CountGrows ==
  ASSUME NEW ds \in Seq(Decision), NEW d \in Decision
  PROVE  ApprovalCount(Append(ds, d)) >= ApprovalCount(ds)
<1> DEFINE Approving(x) == {i \in DOMAIN x : x[i].verdict = "APPROVED"}
           more == Append(ds, d)
<1>1. more \in Seq(Decision) /\ Len(more) = Len(ds) + 1
  OBVIOUS
<1>2. Approving(more) \in SUBSET (1..Len(more))
  BY <1>1
<1>3. IsFiniteSet(Approving(more))
  <2>1. IsFiniteSet(1..Len(more))
    BY <1>1, FS_Interval
  <2> QED
    BY <1>2, <2>1, FS_Subset
<1>4. Approving(ds) \in SUBSET Approving(more)
  OBVIOUS
<1> QED
  BY <1>3, <1>4, FS_Subset, CountType, <1>1 DEF ApprovalCount

LEMMA InvStep == IInv /\ [Next]_vars => IInv'
<1> SUFFICES ASSUME IInv, [Next]_vars PROVE IInv'
  OBVIOUS
<1>0. TypeOK'
  BY TypeStep DEF IInv
<1>1. ASSUME NEW r \in Requests, NEW l \in Levels, RequestCall(r, l) PROVE IInv'
  <2>1. DistinctDeciders'
    BY <1>1 DEF IInv, TypeOK, RequestCall, DistinctDeciders, Human, Rejected
  <2>2. RequestInv'
    BY <1>1 DEF IInv, TypeOK, RequestCall, RequestInv, Human, Levels
  <2>3. SubmissionInv'
    BY <1>1 DEF IInv, TypeOK, RequestCall, SubmissionInv, Human, Rejected, RequestInv, Levels
  <2>4. MonitorInv'
    BY <1>1 DEF IInv, TypeOK, RequestCall, MonitorInv, Human, Rejected, RequestInv, Levels
  <2>5. AnswerInv'
    BY <1>1 DEF IInv, TypeOK, RequestCall, AnswerInv, Human, Rejected, RequestInv, AnswerInv
  <2>6. AnswerIsAudited'
    BY <1>1 DEF IInv, TypeOK, RequestCall, AnswerIsAudited, Human, Rejected
  <2> QED
    BY <2>1, <2>2, <2>3, <2>4, <2>5, <2>6, <1>0 DEF IInv
<1>2. ASSUME NEW r \in Requests, RequestAudit(r) PROVE IInv'
  <2>1. /\ DistinctDeciders'
        /\ SubmissionInv'
        /\ MonitorInv'
        /\ AnswerInv'
        /\ AnswerIsAudited'
    BY <1>2 DEF IInv, TypeOK, RequestAudit, DistinctDeciders, SubmissionInv, MonitorInv, AnswerInv, AnswerIsAudited, Human, Rejected
  <2>2. RequestInv'
    BY <1>2 DEF IInv, TypeOK, RequestAudit, RequestInv, Human, Rejected
  <2> QED
    BY <2>1, <2>2, <1>0 DEF IInv
<1>3. ASSUME NEW r \in Requests, RequestReturn(r) PROVE IInv'
  <2>1. /\ DistinctDeciders'
        /\ SubmissionInv'
        /\ MonitorInv'
    BY <1>3 DEF IInv, TypeOK, RequestReturn, DistinctDeciders, SubmissionInv, MonitorInv, Human, Rejected
  <2>2. RequestInv'
    BY <1>3 DEF IInv, TypeOK, RequestReturn, RequestInv, Human, Rejected
  <2>3. AnswerInv'
    BY <1>3 DEF IInv, TypeOK, RequestReturn, AnswerInv, Human, Rejected, RequestInv
  <2>4. AnswerIsAudited'
    BY <1>3 DEF IInv, TypeOK, RequestReturn, AnswerIsAudited, Human, Rejected, RequestInv
  <2> QED
    BY <2>1, <2>2, <2>3, <2>4, <1>0 DEF IInv
<1>4. ASSUME NEW r \in Requests, RequestRegister(r) PROVE IInv'
  <2>1. /\ DistinctDeciders'
        /\ SubmissionInv'
        /\ MonitorInv'
        /\ AnswerInv'
        /\ AnswerIsAudited'
    BY <1>4 DEF IInv, TypeOK, RequestRegister, DistinctDeciders, SubmissionInv, MonitorInv, AnswerInv, AnswerIsAudited, Human, Rejected
  <2>2. RequestInv'
    BY <1>4 DEF IInv, TypeOK, RequestRegister, RequestInv, Human, Rejected
  <2> QED
    BY <2>1, <2>2, <1>0 DEF IInv
<1>5. ASSUME NEW r \in Requests, Expire(r) PROVE IInv'
  <2>1. /\ DistinctDeciders'
        /\ RequestInv'
        /\ SubmissionInv'
        /\ MonitorInv'
        /\ AnswerInv'
        /\ AnswerIsAudited'
    BY <1>5 DEF IInv, TypeOK, Expire, DistinctDeciders, RequestInv, SubmissionInv, MonitorInv, AnswerInv, AnswerIsAudited, Human, Rejected
  <2> QED
    BY <2>1, <1>0 DEF IInv
<1>6. ASSUME NEW s \in Submissions, NEW r \in Requests, NEW u \in Users, NEW d \in Verdicts,
             ReadRequest(s, r, u, d)
      PROVE  IInv'
  <2>1. /\ DistinctDeciders'
        /\ RequestInv'
        /\ MonitorInv'
        /\ AnswerInv'
        /\ AnswerIsAudited'
    BY <1>6 DEF IInv, TypeOK, ReadRequest, DistinctDeciders, RequestInv, MonitorInv, AnswerInv, AnswerIsAudited, Human, Rejected
  <2>2. SubmissionInv'
    BY <1>6 DEF IInv, TypeOK, ReadRequest, SubmissionInv, Human, Rejected, RequestInv
  <2> QED
    BY <2>1, <2>2, <1>0 DEF IInv
<1>7. ASSUME NEW s \in Submissions, RefuseDecision(s) PROVE IInv'
  <2>1. /\ DistinctDeciders'
        /\ RequestInv'
        /\ MonitorInv'
        /\ AnswerInv'
        /\ AnswerIsAudited'
    BY <1>7 DEF IInv, TypeOK, RefuseDecision, DistinctDeciders, RequestInv, MonitorInv, AnswerInv, AnswerIsAudited, Human, Rejected
  <2>2. SubmissionInv'
    BY <1>7 DEF IInv, TypeOK, RefuseDecision, SubmissionInv, Human, Rejected, IdleOp
  <2> QED
    BY <2>1, <2>2, <1>0 DEF IInv
<1>8. ASSUME NEW s \in Submissions, AcceptDecision(s) PROVE IInv'
  <2> DEFINE o == op[s]
             ds == Append(decisions[o.req], [by |-> o.by, verdict |-> o.verdict])
  <2>a. /\ o \in ReadOp
        /\ o.req \in Requests
        /\ Human(o.req)
    BY <1>8, OpByPc DEF IInv, SubmissionInv, AcceptDecision, ReadOp
  <2>b. /\ decisions[o.req] \in Seq(Decision)
        /\ [by |-> o.by, verdict |-> o.verdict] \in Decision
    BY <2>a DEF IInv, TypeOK, ReadOp, Decision
  <2>c. /\ ds \in Seq(Decision)
        /\ DOMAIN ds = DOMAIN decisions[o.req] \cup {Len(decisions[o.req]) + 1}
        /\ Len(decisions[o.req]) + 1 \notin DOMAIN decisions[o.req]
        /\ \A i \in DOMAIN decisions[o.req] : ds[i] = decisions[o.req][i]
        /\ ds[Len(decisions[o.req]) + 1] = [by |-> o.by, verdict |-> o.verdict]
    BY <2>b, AppendFacts
  <2>d. /\ decisions' = [decisions EXCEPT ![o.req] = ds]
        /\ status' = [status EXCEPT ![o.req] = StatusAfter(o, ds)]
        /\ op' = [op EXCEPT ![s] = [pc |-> "written", req |-> o.req,
                                     outcome |-> StatusAfter(o, ds)]]
        /\ UNCHANGED <<level, phase, expired, deferred, answer, audit, mon>>
        /\ ~HasDecided(o.req, o.by)
    BY <1>8 DEF AcceptDecision, Acceptable
  <2>e. /\ StatusAfter(o, ds) \in {"pending", "approved", "rejected"}
        /\ StatusAfter(o, ds) = "rejected" => o.verdict = "REJECTED"
        /\ StatusAfter(o, ds) = "approved" => ApprovalCount(ds) >= RequiredCount(level[o.req])
    BY DEF StatusAfter
  <2>f. ApprovalCount(ds) >= ApprovalCount(decisions[o.req])
    BY <2>b, CountGrows
  <2> HIDE DEF ds
  <2>1. DistinctDeciders'
    BY <2>a, <2>c, <2>d DEF IInv, TypeOK, DistinctDeciders, HasDecided
  <2>2. RequestInv'
    BY <2>a, <2>d, <2>e DEF IInv, TypeOK, RequestInv, Human
  <2>g. \A r \in Requests : Rejected(r) => Rejected(r)'
    BY <2>a, <2>c, <2>d DEF IInv, TypeOK, Rejected
  <2>h. ASSUME NEW r \in Requests, ApprovalCount(decisions[r]) >= RequiredCount(level[r])
        PROVE  ApprovalCount(decisions[r])' >= RequiredCount(level[r])'
    <3>1. CASE r = o.req
      <4>1. /\ ApprovalCount(decisions[r]) \in Nat
            /\ ApprovalCount(ds) \in Nat
        BY <2>b, <2>c, <3>1, CountType
      <4>2. RequiredCount(level[r]) \in Nat
        BY <2>a, <3>1 DEF Human, Levels, RequiredCount
      <4>3. /\ decisions'[r] = ds
            /\ level'[r] = level[r]
        BY <2>a, <2>d, <3>1 DEF IInv, TypeOK
      <4> QED
        BY <4>1, <4>2, <4>3, <2>f, <2>h, <3>1
    <3>2. CASE r # o.req
      BY <2>a, <2>d, <2>h, <3>2 DEF IInv, TypeOK
    <3> QED
      BY <3>1, <3>2
  <2>3. SubmissionInv'
    <3> SUFFICES ASSUME NEW t \in Submissions
                 PROVE  LET p == op[t] IN
                        (/\ p.pc # "idle" => Human(p.req)
                         /\ p.pc \in {"written", "audited"} =>
                              /\ p.outcome = "approved" =>
                                   ApprovalCount(decisions[p.req]) >= RequiredCount(level[p.req])
                              /\ p.outcome = "rejected" => Rejected(p.req)
                         /\ p.pc = "audited" => EventOf(p.outcome) \in audit[p.req])'
      BY DEF SubmissionInv
    <3>1. CASE t = s
      <4> DEFINE q == o.req
                 out == StatusAfter(o, ds)
      <4>1. /\ op'[t] = [pc |-> "written", req |-> q, outcome |-> out]
            /\ UNCHANGED level
        BY <2>a, <2>d, <3>1 DEF IInv, TypeOK
      <4>2. op'[t].pc = "written" /\ op'[t].req = q /\ op'[t].outcome = out
        BY <4>1
      <4>3. decisions'[q] = ds
        BY <2>a, <2>d DEF IInv, TypeOK
      <4>4. o.verdict = "REJECTED" => \E i \in DOMAIN ds : ds[i].verdict = "REJECTED"
        BY <2>c
      <4> HIDE DEF o, q, out
      <4> QED
        BY <4>1, <4>2, <4>3, <4>4, <2>a, <2>e DEF Human, Rejected, q, out
    <3>2. CASE t # s
      <4>1. /\ op'[t] = op[t]
            /\ UNCHANGED <<level, audit>>
        BY <2>d, <3>2 DEF IInv, TypeOK
      <4>2. op[t].pc # "idle" => op[t].req \in Requests
        BY OpByPc DEF IInv, TypeOK, ReadOp, DoneOp, IdleOp
      <4>3. op[t].pc \in {"written", "audited"} => op[t].pc # "idle"
        OBVIOUS
      <4> QED
        BY <4>1, <4>2, <4>3, <2>g, <2>h DEF IInv, SubmissionInv, Human
    <3> QED
      BY <3>1, <3>2
  <2>4. MonitorInv'
    BY <2>d DEF IInv, MonitorInv, Human
  <2>5. AnswerInv'
    BY <2>d, <2>g, <2>h DEF IInv, AnswerInv, Human
  <2>6. AnswerIsAudited'
    BY <2>d DEF IInv, AnswerIsAudited
  <2> QED
    BY <2>1, <2>2, <2>3, <2>4, <2>5, <2>6, <1>0 DEF IInv
<1>9. ASSUME NEW s \in Submissions, AuditDecision(s) PROVE IInv'
  <2>1. /\ DistinctDeciders'
        /\ RequestInv'
        /\ MonitorInv'
        /\ AnswerInv'
        /\ AnswerIsAudited'
    BY <1>9 DEF IInv, TypeOK, AuditDecision, DistinctDeciders, RequestInv, MonitorInv, AnswerInv, AnswerIsAudited, Human, Rejected
  <2>2. SubmissionInv'
    <3>1. op[s] \in DoneOp
      BY <1>9, OpByPc DEF IInv, AuditDecision
    <3>2. /\ op' = [op EXCEPT ![s].pc = "audited"]
          /\ audit' = [audit EXCEPT ![op[s].req] = @ \cup {EventOf(op[s].outcome)}]
          /\ UNCHANGED <<level, decisions>>
      BY <1>9 DEF AuditDecision
    <3> HIDE DEF EventOf
    <3>3. /\ op'[s].req = op[s].req
          /\ op'[s].outcome = op[s].outcome
          /\ op'[s].pc = "audited"
          /\ \A t \in Submissions \ {s} : op'[t] = op[t]
      BY <3>1, <3>2 DEF IInv, TypeOK, DoneOp
    <3>4. \A r \in Requests : audit[r] \subseteq audit'[r]
      BY <3>1, <3>2 DEF IInv, TypeOK, DoneOp
    <3>5. EventOf(op[s].outcome) \in audit'[op[s].req]
      BY <3>1, <3>2 DEF IInv, TypeOK, DoneOp
    <3>6. \A t \in Submissions : op[t].pc = "audited" => op[t].req \in Requests
      BY OpByPc DEF IInv, DoneOp
    <3> QED
      BY <1>9, <3>2, <3>3, <3>4, <3>5, <3>6
      DEF IInv, SubmissionInv, AuditDecision, Human, Rejected
  <2> QED
    BY <2>1, <2>2, <1>0 DEF IInv
<1>10. ASSUME NEW s \in Submissions, FinishDecision(s) PROVE IInv'
  <2>1. /\ DistinctDeciders'
        /\ MonitorInv'
    BY <1>10 DEF IInv, TypeOK, FinishDecision, DistinctDeciders, MonitorInv, Human, Rejected
  <2>2. RequestInv'
    BY <1>10 DEF IInv, TypeOK, FinishDecision, RequestInv, Human, Rejected, Resolve, SubmissionInv
  <2>3. SubmissionInv'
    BY <1>10 DEF IInv, TypeOK, FinishDecision, SubmissionInv, Human, Rejected, IdleOp
  <2>4. AnswerInv'
    <3>1. /\ op[s] \in DoneOp
          /\ op[s].pc = "audited"
      BY <1>10, OpByPc DEF IInv, FinishDecision
    <3>2. CASE op[s].outcome = "pending"
      BY <1>10, <3>2 DEF IInv, FinishDecision, AnswerInv, Human, Rejected
    <3>3. CASE op[s].outcome \in {"approved", "rejected"}
      <4> DEFINE q == op[s].req
                 a == op[s].outcome
      <4>1. /\ q \in Requests
            /\ Human(q)
            /\ a = "approved" => ApprovalCount(decisions[q]) >= RequiredCount(level[q])
            /\ a = "rejected" => Rejected(q)
        BY <3>1 DEF IInv, SubmissionInv, DoneOp
      <4>2. /\ answer' = answer \/ answer' = [answer EXCEPT ![q] = a]
            /\ UNCHANGED <<level, decisions>>
        BY <1>10, <3>3 DEF FinishDecision, Resolve
      <4>3. answer \in [Requests -> Answers \cup {"none"}]
        BY DEF IInv, TypeOK
      <4> HIDE DEF q, a
      <4> QED
        BY <3>3, <4>1, <4>2, <4>3 DEF IInv, AnswerInv, Human, Rejected, a
    <3> QED
      BY <3>1, <3>2, <3>3 DEF DoneOp
  <2>5. AnswerIsAudited'
    <3>1. /\ op[s] \in DoneOp
          /\ op[s].pc = "audited"
      BY <1>10, OpByPc DEF IInv, FinishDecision
    <3>2. CASE op[s].outcome = "pending"
      BY <1>10, <3>2 DEF IInv, FinishDecision, AnswerIsAudited, Human, Rejected
    <3>3. CASE op[s].outcome \in {"approved", "rejected"}
      <4> DEFINE q == op[s].req
                 a == op[s].outcome
      <4>1. q \in Requests /\ EventOf(a) \in audit[q]
        BY <3>1 DEF IInv, SubmissionInv, DoneOp
      <4>2. /\ answer' = answer \/ answer' = [answer EXCEPT ![q] = a]
            /\ UNCHANGED audit
        BY <1>10, <3>3 DEF FinishDecision, Resolve
      <4>3. /\ answer \in [Requests -> Answers \cup {"none"}]
            /\ AnswerIsAudited
        BY DEF IInv, TypeOK
      <4>4. /\ a = "approved" => "granted" \in audit[q]
            /\ a = "rejected" => "rejected" \in audit[q]
            /\ a \in {"approved", "rejected"}
        BY <3>3, <4>1 DEF EventOf
      <4> HIDE DEF q, a
      <4> QED
        BY <4>1, <4>2, <4>3, <4>4 DEF AnswerIsAudited
    <3> QED
      BY <3>1, <3>2, <3>3 DEF DoneOp
  <2> QED
    BY <2>1, <2>2, <2>3, <2>4, <2>5, <1>0 DEF IInv
<1>11. ASSUME NEW m \in Monitors, MonitorList(m) PROVE IInv'
  <2>1. /\ DistinctDeciders'
        /\ RequestInv'
        /\ SubmissionInv'
        /\ AnswerInv'
        /\ AnswerIsAudited'
    BY <1>11 DEF IInv, TypeOK, MonitorList, DistinctDeciders, RequestInv, SubmissionInv, AnswerInv, AnswerIsAudited, Human, Rejected
  <2>2. MonitorInv'
    BY <1>11 DEF IInv, TypeOK, MonitorList, MonitorInv, Human, Rejected, RequestInv
  <2> QED
    BY <2>1, <2>2, <1>0 DEF IInv
<1>12. ASSUME NEW m \in Monitors, MonitorSelect(m) PROVE IInv'
  <2>1. /\ DistinctDeciders'
        /\ RequestInv'
        /\ SubmissionInv'
        /\ AnswerInv'
        /\ AnswerIsAudited'
    BY <1>12 DEF IInv, TypeOK, MonitorSelect, DistinctDeciders, RequestInv, SubmissionInv, AnswerInv, AnswerIsAudited, Human, Rejected
  <2>2. MonitorInv'
    BY <1>12, MonByPc DEF IInv, TypeOK, MonitorSelect, MonitorInv, Human, Rejected, LoopOver, IdleMon, LoopMon
  <2> QED
    BY <2>1, <2>2, <1>0 DEF IInv
<1>13. ASSUME NEW m \in Monitors, NEW r \in Requests, MonitorUpdate(m, r) PROVE IInv'
  <2>1. /\ DistinctDeciders'
        /\ RequestInv'
        /\ SubmissionInv'
        /\ AnswerInv'
        /\ AnswerIsAudited'
    BY <1>13 DEF IInv, TypeOK, MonitorUpdate, DistinctDeciders, RequestInv, SubmissionInv, AnswerInv, AnswerIsAudited, Human, Rejected
  <2>2. MonitorInv'
    BY <1>13 DEF IInv, TypeOK, MonitorUpdate, MonitorInv, Human, Rejected
  <2> QED
    BY <2>1, <2>2, <1>0 DEF IInv
<1>14. ASSUME NEW m \in Monitors, MonitorAudit(m) PROVE IInv'
  <2>1. /\ DistinctDeciders'
        /\ RequestInv'
        /\ SubmissionInv'
        /\ AnswerInv'
        /\ AnswerIsAudited'
    BY <1>14 DEF IInv, TypeOK, MonitorAudit, DistinctDeciders, RequestInv, SubmissionInv, AnswerInv, AnswerIsAudited, Human, Rejected
  <2>2. MonitorInv'
    BY <1>14, MonByPc DEF IInv, TypeOK, MonitorAudit, MonitorInv, Human, Rejected, BusyMon
  <2> QED
    BY <2>1, <2>2, <1>0 DEF IInv
<1>15. ASSUME NEW m \in Monitors, MonitorCallback(m) PROVE IInv'
  <2>1. /\ DistinctDeciders'
        /\ SubmissionInv'
    BY <1>15 DEF IInv, TypeOK, MonitorCallback, DistinctDeciders, SubmissionInv, Human, Rejected
  <2>2. RequestInv'
    BY <1>15, MonByPc DEF IInv, TypeOK, MonitorCallback, RequestInv, Human, Rejected, Resolve, BusyMon
  <2>3. MonitorInv'
    BY <1>15, MonByPc DEF IInv, TypeOK, MonitorCallback, MonitorInv, Human, Rejected, LoopOver, IdleMon, BusyMon
  <2>4. AnswerInv'
    BY <1>15, MonByPc DEF IInv, TypeOK, MonitorCallback, AnswerInv, Human, Rejected, Resolve, MonitorInv, BusyMon
  <2>5. AnswerIsAudited'
    BY <1>15, MonByPc DEF IInv, TypeOK, MonitorCallback, AnswerIsAudited, Human, Rejected, Resolve, MonitorInv, BusyMon
  <2> QED
    BY <2>1, <2>2, <2>3, <2>4, <2>5, <1>0 DEF IInv
<1>16. CASE UNCHANGED vars
  BY <1>0, <1>16 DEF IInv, vars, DistinctDeciders, RequestInv, SubmissionInv, MonitorInv,
                 AnswerInv, AnswerIsAudited, Human, Rejected
<1> QED
  BY <1>1, <1>2, <1>3, <1>4, <1>5, <1>6, <1>7, <1>8, <1>9, <1>10, <1>11, <1>12,
     <1>13, <1>14, <1>15, <1>16
  DEF Next, RequestStep, SubmissionStep, MonitorStep

LEMMA InvInit == Init => IInv
<1> SUFFICES ASSUME Init PROVE IInv
  OBVIOUS
<1>1. TypeOK
  <2>1. <<>> \in Seq(Decision)
    OBVIOUS
  <2> QED
    BY <2>1 DEF Init, TypeOK
<1> QED
  BY <1>1 DEF Init, IInv, DistinctDeciders, RequestInv, SubmissionInv, MonitorInv,
              AnswerInv, AnswerIsAudited, IdleOp, IdleMon

(* The inductive invariant holds, for any requests, people and runs.       *)
THEOREM InvHolds == Spec => []IInv
  BY InvInit, InvStep, PTL DEF Spec

(* The caller never hears an outcome that is not in the audit trail. *)
THEOREM AnswersAreAudited == Spec => []AnswerIsAudited
<1>1. IInv => AnswerIsAudited
  BY DEF IInv
<1> QED
  BY <1>1, InvHolds, PTL

-----------------------------------------------------------------------------
(***************************************************************************)
(* The engine implements its contract.  The engine counts entries of the   *)
(* decisions array, the contract counts people; the two agree because      *)
(* nobody is in the array twice, so the entries inject into the people.    *)
(***************************************************************************)
LEMMA SameCardinality ==
  ASSUME NEW S
  PROVE  Contract!Cardinality(S) = Cardinality(S)
  BY DEF Cardinality, Contract!Cardinality, IsFiniteSet, Contract!IsFiniteSet

LEMMA SameRequiredCount ==
  ASSUME NEW l
  PROVE  Contract!RequiredCount(l) = RequiredCount(l)
  BY DEF RequiredCount, Contract!RequiredCount

LEMMA SameAutoApproved ==
  ASSUME NEW l
  PROVE  Contract!AutoApproved(l) <=> AutoApproved(l)
  BY DEF AutoApproved, Contract!AutoApproved

LEMMA EnoughPeople ==
  ASSUME IInv, NEW r \in Requests, Human(r),
         ApprovalCount(decisions[r]) >= RequiredCount(level[r])
  PROVE  Contract!Quorum(r)
<1> DEFINE ds == decisions[r]
           entries == {i \in DOMAIN ds : ds[i].verdict = "APPROVED"}
           people == Contract!InFavour(r)
           f == [i \in entries |-> ds[i].by]
<1>1. ds \in Seq(Decision)
  BY DEF IInv, TypeOK
<1>2. \A i \in entries : ds[i] = [by |-> ds[i].by, verdict |-> "APPROVED"] /\ ds[i].by \in Users
  <2>1. \A i \in DOMAIN ds : ds[i] \in Decision
    BY <1>1
  <2> QED
    BY <2>1 DEF Decision
<1>3. people = {u \in Users : [by |-> u, verdict |-> "APPROVED"] \in Recorded(r)}
  BY DEF Contract!InFavour
<1>4. \A i \in entries : ds[i].by \in people
  BY <1>2, <1>3 DEF Recorded
<1>5. f \in Injection(entries, people)
  <2>1. f \in [entries -> people]
    BY <1>4
  <2>2. \A i, j \in entries : f[i] = f[j] => i = j
    BY DEF IInv, DistinctDeciders
  <2> QED
    BY <2>1, <2>2 DEF Injection, IsInjective
<1>6. IsFiniteSet(people)
  <2>1. people \in SUBSET Users
    BY <1>3
  <2> QED
    BY <2>1, UsersFinite, FS_Subset
<1>7. Cardinality(entries) <= Cardinality(people)
  BY <1>5, <1>6, FS_Injection
<1>8. /\ ApprovalCount(ds) \in Nat
      /\ Cardinality(people) \in Nat
      /\ RequiredCount(level[r]) \in Nat
  BY <1>1, <1>6, CountType, FS_CardinalityType DEF Human, Levels, RequiredCount
<1>9. Cardinality(people) >= RequiredCount(level[r])
  BY <1>7, <1>8 DEF ApprovalCount
<1> QED
  BY <1>9, SameRequiredCount, SameCardinality DEF Contract!Quorum

LEMMA SomebodyRejected ==
  ASSUME NEW r \in Requests, Rejected(r)
  PROVE  \E v \in Recorded(r) : v.verdict = "REJECTED"
  BY DEF Rejected, Recorded

(* Whatever the engine said, it was and still is entitled to say. *)
LEMMA JustifiedState == IInv => AnswerJustified
<1> SUFFICES ASSUME IInv, NEW r \in Requests, answer[r] # "none"
             PROVE  Contract!Justified(r, answer[r])
  BY DEF AnswerJustified, Contract!AnswerJustified
<1>1. CASE answer[r] = "auto_approved"
  BY <1>1, SameAutoApproved DEF IInv, AnswerInv, Contract!Justified
<1>2. CASE answer[r] = "approved"
  BY <1>2, SameAutoApproved, EnoughPeople DEF IInv, AnswerInv, Human, Contract!Justified
<1>3. CASE answer[r] = "rejected"
  BY <1>3, SomebodyRejected DEF IInv, AnswerInv, Contract!Justified
<1>4. CASE answer[r] = "timed_out"
  BY <1>4, SameAutoApproved DEF IInv, AnswerInv, Human, Contract!Justified
<1> QED
  BY <1>1, <1>2, <1>3, <1>4 DEF IInv, TypeOK, Answers

(* An approval given to a caller is backed by the required number of       *)
(* distinct people of the request's tenant.                                *)
THEOREM AnswersAreJustified == Spec => []AnswerJustified
  BY InvHolds, JustifiedState, PTL

(* The steps that touch neither the level, the decisions nor the answers   *)
(* are invisible to the contract.                                          *)
LEMMA Invisible ==
  ASSUME UNCHANGED <<level, decisions, answer>>
  PROVE  UNCHANGED Contract!contractVars
  BY DEF Contract!contractVars, Recorded

LEMMA SameMayDecide ==
  ASSUME NEW r, NEW l, NEW u
  PROVE  Contract!MayDecide(r, l, u) <=> MayDecide(r, l, u)
  BY DEF MayDecide, AllowedRoles, AllowSelfApproval, Roles, Contract!MayDecide,
         Contract!AllowedRoles, Contract!AllowSelfApproval, Contract!Roles

(* Waking a caller is the contract's Reply, or nothing when nobody is      *)
(* registered.                                                             *)
LEMMA ResolveReplies ==
  ASSUME IInv, NEW r \in Requests, NEW a \in {"approved", "rejected", "timed_out"},
         Resolve(r, a), UNCHANGED <<level, decisions>>, Contract!Justified(r, a), Human(r)
  PROVE  [Contract!Next]_(Contract!contractVars)
<1>1. CASE r \in deferred
  <2>1. answer[r] = "none" /\ answer' = [answer EXCEPT ![r] = a]
    BY <1>1 DEF IInv, RequestInv, Resolve
  <2>2. level[r] \in Contract!Levels
    BY DEF Human, Levels, Contract!Levels
  <2>3. Contract!Reply(r, a)
    BY <2>1, <2>2 DEF Contract!Reply, Recorded
  <2> QED
    BY <2>3 DEF Contract!Next, Contract!Answers
<1>2. CASE r \notin deferred
  BY <1>2, Invisible DEF Resolve
<1> QED
  BY <1>1, <1>2

LEMMA ContractStep ==
  IInv /\ [Next]_vars => [Contract!Next]_(Contract!contractVars)
<1> SUFFICES ASSUME IInv, [Next]_vars
             PROVE  [Contract!Next]_(Contract!contractVars)
  OBVIOUS
<1>1. ASSUME NEW r \in Requests, NEW l \in Levels, RequestCall(r, l)
      PROVE  [Contract!Next]_(Contract!contractVars)
  <2>1. level[r] = "none"
    BY <1>1 DEF IInv, RequestInv, RequestCall
  <2>2. Contract!Open(r, l)
    BY <1>1, <2>1 DEF RequestCall, Contract!Open, Recorded
  <2> QED
    BY <2>2 DEF Contract!Next, Contract!Levels, Levels
<1>2. ASSUME NEW r \in Requests, RequestReturn(r)
      PROVE  [Contract!Next]_(Contract!contractVars)
  <2>1. answer[r] = "none" /\ level[r] \in Levels
    BY <1>2 DEF IInv, TypeOK, RequestInv, RequestReturn
  <2>2. Contract!Justified(r, "auto_approved")
    BY <1>2, SameAutoApproved DEF RequestReturn, Contract!Justified
  <2>3. Contract!Reply(r, "auto_approved")
    BY <1>2, <2>1, <2>2 DEF RequestReturn, Contract!Reply, Recorded, Contract!Levels, Levels
  <2> QED
    BY <2>3 DEF Contract!Next, Contract!Answers
<1>3. ASSUME NEW s \in Submissions, AcceptDecision(s)
      PROVE  [Contract!Next]_(Contract!contractVars)
  <2>1. op[s] \in ReadOp /\ Human(op[s].req)
    BY <1>3, OpByPc DEF IInv, SubmissionInv, AcceptDecision
  <2>2. PICK r \in Requests, u \in Users, d \in Verdicts :
          op[s].req = r /\ op[s].by = u /\ op[s].verdict = d
    BY <2>1 DEF ReadOp
  <2> DEFINE vote == [by |-> u, verdict |-> d]
             ds == decisions[r]
  <2>3. ds \in Seq(Decision) /\ vote \in Decision
    BY <2>2 DEF IInv, TypeOK, Decision
  <2>4. /\ decisions' = [decisions EXCEPT ![r] = Append(ds, vote)]
        /\ UNCHANGED <<level, answer>>
        /\ MayDecide(r, level[r], u)
        /\ ~HasDecided(r, u)
    BY <1>3, <2>2 DEF AcceptDecision, Acceptable
  <2>5. /\ Recorded(r)' = Recorded(r) \cup {vote}
        /\ \A q \in Requests \ {r} : Recorded(q)' = Recorded(q)
    <3>1. /\ DOMAIN Append(ds, vote) = DOMAIN ds \cup {Len(ds) + 1}
          /\ \A i \in DOMAIN ds : Append(ds, vote)[i] = ds[i]
          /\ Append(ds, vote)[Len(ds) + 1] = vote
      BY <2>3
    <3>2. decisions'[r] = Append(ds, vote) /\ \A q \in Requests \ {r} : decisions'[q] = decisions[q]
      BY <2>2, <2>4 DEF IInv, TypeOK
    <3>3. \A x : x \in {decisions'[r][i] : i \in DOMAIN decisions'[r]} <=>
                 x \in {ds[i] : i \in DOMAIN ds} \cup {vote}
      BY <3>1, <3>2
    <3> QED
      BY <3>2, <3>3 DEF Recorded
  <2>6. \A v \in Recorded(r) : v.by # u
    BY <2>4 DEF HasDecided, Recorded
  <2> DEFINE tally == [q \in Requests |-> Recorded(q)]
  <2>7. tally' = [tally EXCEPT ![r] = @ \cup {vote}]
    BY <2>2, <2>5
  <2>8. Contract!CastVote(r, u, d)
    BY <2>1, <2>2, <2>4, <2>6, <2>7, SameMayDecide, SameAutoApproved
    DEF Contract!CastVote, Contract!HasVoted, Contract!Levels, Levels, Human
  <2> QED
    BY <2>2, <2>8 DEF Contract!Next, Contract!Verdicts, Verdicts
<1>4. ASSUME NEW s \in Submissions, FinishDecision(s)
      PROVE  [Contract!Next]_(Contract!contractVars)
  <2>1. op[s] \in DoneOp /\ op[s].pc = "audited"
    BY <1>4, OpByPc DEF IInv, FinishDecision
  <2>2. CASE op[s].outcome = "pending"
    BY <1>4, <2>2, Invisible DEF FinishDecision
  <2>3. CASE op[s].outcome \in {"approved", "rejected"}
    <3>1. op[s].req \in Requests /\ Human(op[s].req)
      BY <2>1 DEF IInv, SubmissionInv, DoneOp
    <3>2. Contract!Justified(op[s].req, op[s].outcome)
      BY <2>1, <2>3, <3>1, EnoughPeople, SomebodyRejected, SameAutoApproved
      DEF IInv, SubmissionInv, Human, Contract!Justified
    <3>3. Resolve(op[s].req, op[s].outcome) /\ UNCHANGED <<level, decisions>>
      BY <1>4, <2>3 DEF FinishDecision
    <3> QED
      BY <2>3, <3>1, <3>2, <3>3, ResolveReplies
  <2> QED
    BY <2>1, <2>2, <2>3 DEF DoneOp
<1>5. ASSUME NEW m \in Monitors, MonitorCallback(m)
      PROVE  [Contract!Next]_(Contract!contractVars)
  <2>1. mon[m].req \in Requests /\ Human(mon[m].req)
    BY <1>5, MonByPc DEF IInv, MonitorInv, MonitorCallback, BusyMon
  <2>2. Contract!Justified(mon[m].req, "timed_out")
    BY <2>1, SameAutoApproved DEF Human, Contract!Justified
  <2> QED
    BY <1>5, <2>1, <2>2, ResolveReplies DEF MonitorCallback
<1>6. ASSUME NEW r \in Requests, RequestAudit(r) \/ RequestRegister(r) \/ Expire(r)
      PROVE  UNCHANGED Contract!contractVars
  BY <1>6, Invisible DEF RequestAudit, RequestRegister, Expire
<1>7. ASSUME NEW s \in Submissions,
             \/ \E r \in Requests, u \in Users, d \in Verdicts : ReadRequest(s, r, u, d)
             \/ RefuseDecision(s)
             \/ AuditDecision(s)
      PROVE  UNCHANGED Contract!contractVars
  BY <1>7, Invisible DEF ReadRequest, RefuseDecision, AuditDecision
<1>8. ASSUME NEW m \in Monitors,
             \/ MonitorList(m)
             \/ MonitorSelect(m)
             \/ \E r \in Requests : MonitorUpdate(m, r)
             \/ MonitorAudit(m)
      PROVE  UNCHANGED Contract!contractVars
  BY <1>8, Invisible DEF MonitorList, MonitorSelect, MonitorUpdate, MonitorAudit
<1>9. CASE UNCHANGED vars
  BY <1>9, Invisible DEF vars
<1> QED
  BY <1>1, <1>2, <1>3, <1>4, <1>5, <1>6, <1>7, <1>8, <1>9
  DEF Next, RequestStep, SubmissionStep, MonitorStep

LEMMA ContractInit == Init => Contract!Init
  BY DEF Init, Contract!Init, Recorded

(* The engine implements its contract, for any number of requests, people, *)
(* submissions in flight and monitor runs.                                 *)
THEOREM EngineImplementsContract == Spec => ImplementsContract
<1>1. Init => Contract!Init
  BY ContractInit
<1>2. IInv /\ [Next]_vars => [Contract!Next]_(Contract!contractVars)
  BY ContractStep
<1> QED
  BY <1>1, <1>2, InvHolds, PTL DEF Spec, ImplementsContract, Contract!Spec
=============================================================================

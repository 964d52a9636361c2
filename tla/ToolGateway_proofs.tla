------------------------ MODULE ToolGateway_proofs ------------------------
(***************************************************************************)
(* Proofs about ToolGateway for any number of calls, any token life and    *)
(* any sizes of the two maps.                                              *)
(*                                                                         *)
(* The heart of the matter is what consumedTokens forgets.  A token that   *)
(* has been used and is still alive is either in the map, with the number  *)
(* of its last run, or was among the Drop oldest entries of a map of more  *)
(* than Cap: then the other entries, each of them consumed by a later run, *)
(* put Cap + 1 - Drop runs between its last use and any next one.          *)
(***************************************************************************)
EXTENDS ToolGateway, FiniteSetTheorems, TLAPS

(* The map records the last run of each token that it holds; a token that  *)
(* was used and is not in the map has expired or is old.                   *)
TokenInv ==
  /\ \A t \in Calls : consumedAt[t] # 0 =>
       consumedAt[t] \in DOMAIN runs /\ runs[consumedAt[t]].call = t
  /\ \A i \in DOMAIN runs : LET t == runs[i].call IN
       /\ consumedAt[t] # 0 => i <= consumedAt[t]
       /\ consumedAt[t] = 0 => Expired(t) \/ Len(runs) - i >= Cap + 1 - Drop

(* What is known of a call that holds or held a token. *)
Authorized(c) ==
  \/ call[c].decision = "ALLOW"
  \/ /\ call[c].decision = "REQUIRE_APPROVAL"
     /\ level[c] = call[c].risk
     /\ answer[c] \in {"approved", "auto_approved"}
     /\ Approvals!Justified(c, answer[c])

CallInv ==
  \A c \in Calls :
    /\ call[c].pc = "waiting" => call[c].decision = "REQUIRE_APPROVAL" /\ level[c] = call[c].risk
    /\ call[c].pc \in {"held", "spent"} => Authorized(c)
    /\ answer[c] # "none" => level[c] # "none" /\ Approvals!Justified(c, answer[c])

RunInv ==
  \A i \in DOMAIN runs : LET c == runs[i].call IN
    /\ call[c].pc \in {"held", "spent"}
    /\ PathOf[c] # "direct" => call[c].pc = "spent"
    /\ runs[i].at <= call[c].expires
    /\ ~(PathOf[c] = "inline" /\ call[c].edited)
    /\ runs[i].risk = RunRisk(c)
    /\ runs[i].outcome = "unrecorded" => runs[i].risk \notin HighRisk

IInv ==
  /\ TypeOK
  /\ TokenInv
  /\ CallInv
  /\ RunInv
  /\ NoEarlyReplay
  /\ GovernedCallsRunOnce

-----------------------------------------------------------------------------
(* A token that is cut from a map too large has Cap + 1 - Drop younger     *)
(* ones in the map, with as many distinct run numbers above its own.       *)
LEMMA CutTokenIsOld ==
  ASSUME NEW m \in [Calls -> Nat], NEW n \in Nat,
         \A t \in Calls : m[t] <= n,
         \A t, u \in Held(m) : m[t] = m[u] => t = u,
         Cardinality(Held(m)) > Cap,
         NEW t \in Oldest(m)
  PROVE  n - m[t] >= Cap + 1 - Drop
<1> DEFINE H == Held(m)
           E == {u \in H : m[u] < m[t]}
           L == {u \in H : m[t] < m[u]}
           f == [u \in L |-> m[u]]
           I == (m[t] + 1)..n
<1>1. /\ t \in H
      /\ Cardinality(E) < Drop
  BY DEF Oldest
<1>2. IsFiniteSet(H)
  <2>1. H \in SUBSET Calls
    BY DEF Held
  <2> QED
    BY <2>1, ConfigType, FS_Subset
<1>3. IsFiniteSet(E) /\ IsFiniteSet(L)
  <2>1. E \in SUBSET H /\ L \in SUBSET H
    OBVIOUS
  <2> QED
    BY <1>2, <2>1, FS_Subset
<1>4. H = (E \cup L) \cup {t}
  <2>1. H \subseteq Calls
    BY DEF Held
  <2>2. \A u \in H : m[u] < m[t] \/ m[t] < m[u] \/ u = t
    BY <1>1, <2>1
  <2> QED
    BY <1>1, <2>2
<1>5. /\ Cardinality(E) \in Nat
      /\ Cardinality(L) \in Nat
      /\ Cardinality(E \cup L) \in Nat
      /\ Cardinality(E \cup L) <= Cardinality(E) + Cardinality(L)
  <2>1. IsFiniteSet(E \cup L)
    BY <1>3, FS_Union
  <2>2. IsFiniteSet(E \cap L)
    BY <1>3, FS_Intersection
  <2>3. Cardinality(E \cup L) = Cardinality(E) + Cardinality(L) - Cardinality(E \cap L)
    BY <1>3, FS_Union
  <2>4. /\ Cardinality(E) \in Nat
        /\ Cardinality(L) \in Nat
        /\ Cardinality(E \cup L) \in Nat
        /\ Cardinality(E \cap L) \in Nat
    BY <1>3, <2>1, <2>2, FS_CardinalityType
  <2> QED
    BY <2>3, <2>4
<1>6. Cardinality(H) <= Cardinality(E \cup L) + 1
  <2>1. IsFiniteSet(E \cup L)
    BY <1>3, FS_Union
  <2>2. Cardinality(H) = IF t \in E \cup L THEN Cardinality(E \cup L) ELSE Cardinality(E \cup L) + 1
    BY <1>4, <2>1, FS_AddElement
  <2> QED
    BY <1>5, <2>2
<1>7. f \in Injection(L, I)
  <2>1. t \in Calls /\ L \subseteq Calls
    BY <1>1 DEF Held
  <2>2. f \in [L -> I]
    BY <2>1
  <2>3. \A u, v \in L : f[u] = f[v] => u = v
    OBVIOUS
  <2> QED
    BY <2>2, <2>3 DEF Injection, IsInjective
<1>8. /\ m[t] \in Nat
      /\ m[t] <= n
  BY <1>1 DEF Held
<1>9. IsFiniteSet(I) /\ Cardinality(I) = n - m[t]
  <2>1. m[t] + 1 \in Int /\ n \in Int
    BY <1>8
  <2>2. IsFiniteSet(I) /\ Cardinality(I) = IF m[t] + 1 > n THEN 0 ELSE n - (m[t] + 1) + 1
    BY <2>1, FS_Interval
  <2> QED
    BY <1>8, <2>2
<1>10. Cardinality(L) <= Cardinality(I)
  BY <1>7, <1>9, FS_Injection
<1>11. Cardinality(H) \in Nat /\ Cap \in Nat /\ Drop \in Nat
  BY <1>2, FS_CardinalityType, ConfigType
<1> HIDE DEF H, E, L, I
<1> QED
  <2>1. Cardinality(H) > Cap
    BY DEF H
  <2> QED
    BY <1>1, <1>5, <1>6, <1>8, <1>9, <1>10, <1>11, <2>1

-----------------------------------------------------------------------------
(***************************************************************************)
(* Types                                                                   *)
(***************************************************************************)
LEMMA VerdictType ==
  ASSUME NEW c \in Calls, NEW a \in Assessments
  PROVE  Verdict(c, a).decision \in Decisions /\ Verdict(c, a).risk \in Levels
<1>1. a \in Assessment
  BY ConfigType
<1> QED
  BY <1>1 DEF Verdict, Assessment, Decisions, Levels

LEMMA ConsumeType ==
  ASSUME TypeOK, NEW c \in Calls
  PROVE  Consume(c) \in [Calls -> Nat]
  BY DEF TypeOK, Consume

LEMMA IssueType ==
  ASSUME TypeOK, NEW c \in Calls, NEW record \in Call, Issue(c, record)
  PROVE  call' \in [Calls -> Call] /\ pending' \in SUBSET Calls
<1>1. now + TTL \in Nat
  BY ConfigType DEF TypeOK
<1>2. [record EXCEPT !.pc = "held", !.expires = now + TTL] \in Call
  BY <1>1 DEF Call
<1>3. call' \in [Calls -> Call]
  BY <1>2 DEF Issue, TypeOK
<1>4. pending' \in SUBSET Calls
  BY DEF Issue, KeepPending, TypeOK
<1> QED
  BY <1>3, <1>4

(* A call in another state is still a call.                                *)
LEMMA CallFields ==
  ASSUME TypeOK, NEW c \in Calls
  PROVE  /\ call[c] \in Call
         /\ \A p \in {"idle", "waiting", "held", "spent", "denied", "refused"} :
              /\ [call[c] EXCEPT !.pc = p] \in Call
              /\ [call EXCEPT ![c].pc = p] \in [Calls -> Call]
<1>1. call[c] \in Call
  BY DEF TypeOK
<1> SUFFICES ASSUME NEW p \in {"idle", "waiting", "held", "spent", "denied", "refused"}
             PROVE  /\ [call[c] EXCEPT !.pc = p] \in Call
                    /\ [call EXCEPT ![c].pc = p] \in [Calls -> Call]
  BY <1>1
<1>2. [call[c] EXCEPT !.pc = p] \in Call
  BY <1>1 DEF Call
<1> QED
  BY <1>2 DEF TypeOK

LEMMA TypeStep == TypeOK /\ [Next]_vars => TypeOK'
<1> SUFFICES ASSUME TypeOK, [Next]_vars PROVE TypeOK'
  OBVIOUS
<1> USE ConfigType
<1>1. ASSUME NEW c \in Calls, NEW a \in Assessments, Evaluate(c, a) PROVE TypeOK'
  <2> DEFINE v == Verdict(c, a)
             judged == [call[c] EXCEPT !.safety = a.safety, !.decision = v.decision,
                                       !.risk = v.risk]
  <2>1. v.decision \in Decisions /\ v.risk \in Levels /\ a.safety \in Levels
    BY VerdictType DEF Assessment
  <2>2. judged \in Call
    <3>1. call[c] \in Call
      BY CallFields
    <3> HIDE DEF v
    <3> QED
      BY <2>1, <3>1 DEF Call
  <2>3. call' \in [Calls -> Call] /\ pending' \in SUBSET Calls
    <3>1. CASE v.decision = "BLOCK"
      <4>1. call' = [call EXCEPT ![c].pc = "denied"] /\ pending' = pending
        BY <1>1, <3>1 DEF Evaluate
      <4> QED
        BY <4>1, CallFields DEF TypeOK
    <3>2. CASE v.decision = "REQUIRE_APPROVAL"
      <4>1. [judged EXCEPT !.pc = "waiting"] \in Call
        BY <2>2 DEF Call
      <4> HIDE DEF judged
      <4>2. call' = [call EXCEPT ![c] = [judged EXCEPT !.pc = "waiting"]] /\ pending' = pending
        BY <1>1, <3>2 DEF Evaluate, judged
      <4> QED
        BY <4>1, <4>2 DEF TypeOK
    <3>3. CASE v.decision = "ALLOW"
      <4>1. Issue(c, judged)
        BY <1>1, <3>3 DEF Evaluate
      <4> HIDE DEF judged
      <4> QED
        BY <2>2, <4>1, IssueType
    <3> QED
      BY <2>1, <3>1, <3>2, <3>3 DEF Decisions
  <2>4. Approvals!TypeOK'
    BY <1>1, <2>1 DEF Evaluate, TypeOK, Approvals!TypeOK, Approvals!Open, approvalVars,
                      Approvals!Levels, Levels
  <2> QED
    BY <1>1, <2>3, <2>4 DEF Evaluate, TypeOK, switchVars
<1>2. ASSUME NEW c \in Calls, NEW edited \in BOOLEAN, ResumeApproved(c, edited) PROVE TypeOK'
  <2>1. call' \in [Calls -> Call] /\ pending' \in SUBSET Calls
    <3>1. [call[c] EXCEPT !.edited = edited] \in Call
      BY DEF TypeOK, Call
    <3> QED
      BY <1>2, <3>1, IssueType DEF ResumeApproved
  <2> QED
    BY <1>2, <2>1 DEF ResumeApproved, TypeOK, Approvals!TypeOK, switchVars, approvalVars
<1>3. ASSUME NEW c \in Calls, ResumeDenied(c) PROVE TypeOK'
  <2>1. call' \in [Calls -> Call]
    BY <1>3, CallFields DEF ResumeDenied
  <2> QED
    BY <1>3, <2>1 DEF ResumeDenied, TypeOK, Approvals!TypeOK, switchVars, approvalVars
<1>4. ASSUME NEW c \in Calls, ApprovalStep(c) PROVE TypeOK'
  <2>1. ASSUME \E u \in Users, d \in Approvals!Verdicts : Approvals!CastVote(c, u, d)
        PROVE  Approvals!TypeOK'
    <3>1. PICK u \in Users, d \in Approvals!Verdicts : Approvals!CastVote(c, u, d)
      BY <2>1
    <3>2. [by |-> u, verdict |-> d] \in Approvals!Vote
      BY DEF Approvals!Vote
    <3>3. votes' \in [Calls -> SUBSET Approvals!Vote] /\ UNCHANGED <<level, answer>>
      BY <3>1, <3>2 DEF TypeOK, Approvals!TypeOK, Approvals!CastVote
    <3> QED
      BY <3>3 DEF TypeOK, Approvals!TypeOK
  <2>2. ASSUME \E a \in Approvals!Answers : Approvals!Reply(c, a)
        PROVE  Approvals!TypeOK'
    <3>1. PICK a \in Approvals!Answers : Approvals!Reply(c, a)
      BY <2>2
    <3>2. answer' \in [Calls -> Approvals!Answers \cup {"none"}] /\ UNCHANGED <<level, votes>>
      BY <3>1 DEF TypeOK, Approvals!TypeOK, Approvals!Reply
    <3> QED
      BY <3>2 DEF TypeOK, Approvals!TypeOK
  <2>3. Approvals!TypeOK'
    BY <1>4, <2>1, <2>2, Zenon DEF ApprovalStep, TypeOK
  <2> QED
    BY <1>4, <2>3 DEF ApprovalStep, TypeOK, switchVars
<1>5. ASSUME NEW c \in Calls, Start(c) PROVE TypeOK'
  <2>1. RunRisk(c) \in Levels
    BY DEF RunRisk, TypeOK, Call, Levels
  <2>2. [call |-> c, risk |-> RunRisk(c), at |-> now, outcome |-> "running"] \in Run
    BY <2>1 DEF Run, Outcomes, TypeOK
  <2>3. runs' \in Seq(Run)
    BY <1>5, <2>2 DEF Start, TypeOK
  <2>4. call' \in [Calls -> Call] /\ pending' \in SUBSET Calls
    <3>1. call' = [call EXCEPT ![c].pc = "held"] \/ call' = [call EXCEPT ![c].pc = "spent"]
      BY <1>5 DEF Start
    <3> QED
      BY <1>5, <3>1, CallFields DEF Start, TypeOK
  <2>5. consumedAt' \in [Calls -> Nat]
    BY <1>5, ConsumeType DEF Start
  <2>6. UNCHANGED <<now, switchVars, approvalVars>>
    BY <1>5 DEF Start
  <2> QED
    BY <2>3, <2>4, <2>5, <2>6 DEF TypeOK, Approvals!TypeOK, switchVars, approvalVars
<1>6. ASSUME NEW c \in Calls, Refuse(c) PROVE TypeOK'
  <2>1. call' \in [Calls -> Call] /\ pending' \in SUBSET Calls
    BY <1>6, CallFields DEF Refuse, TypeOK
  <2> QED
    BY <1>6, <2>1 DEF Refuse, TypeOK, Approvals!TypeOK, switchVars, approvalVars
<1>7. ASSUME NEW i \in DOMAIN runs, NEW x \in BOOLEAN, NEW e \in BOOLEAN, NEW a \in BOOLEAN,
             Finish(i, x, e, a)
      PROVE  TypeOK'
  <2>1. runs' \in Seq(Run)
    <3>1. OutcomeOf(runs[i].risk, x, e, a) \in Outcomes
      BY DEF OutcomeOf, Outcomes
    <3>2. [runs[i] EXCEPT !.outcome = OutcomeOf(runs[i].risk, x, e, a)] \in Run
      <4>1. runs[i] \in Run
        BY DEF TypeOK
      <4> QED
        BY <3>1, <4>1 DEF Run
    <3> QED
      BY <1>7, <3>2 DEF Finish, TypeOK
  <2> QED
    BY <1>7, <2>1 DEF Finish, TypeOK, Approvals!TypeOK, switchVars, approvalVars
<1>8. ASSUME NEW s \in Sessions, StopSession(s) PROVE TypeOK'
  BY <1>8 DEF StopSession, TypeOK, Approvals!TypeOK, approvalVars
<1>10. CASE LockWorkspace \/ UnlockWorkspace \/ Reset
  BY <1>10 DEF LockWorkspace, UnlockWorkspace, Reset, TypeOK, Approvals!TypeOK, approvalVars
<1>11. CASE Tick
  BY <1>11 DEF Tick, TypeOK, Approvals!TypeOK, switchVars, approvalVars
<1>9. CASE UNCHANGED vars
  BY <1>9 DEF vars, TypeOK, Approvals!TypeOK
<1> QED
  BY <1>1, <1>2, <1>3, <1>4, <1>5, <1>6, <1>7, <1>8, <1>9, <1>10, <1>11 DEF Next

LEMMA TypeInit == Init => TypeOK
<1>1. <<>> \in Seq(Run)
  OBVIOUS
<1>2. Init => Approvals!TypeOK
  BY DEF Init, Approvals!Init, Approvals!TypeOK
<1>3. [pc |-> "idle", safety |-> "LOW", decision |-> "none", risk |-> "LOW",
       edited |-> FALSE, expires |-> 0] \in Call
  BY DEF Call, Levels
<1>4. Init => /\ call \in [Calls -> Call]
              /\ consumedAt \in [Calls -> Nat]
              /\ now \in Nat
  BY <1>3 DEF Init
<1>5. Init => runs \in Seq(Run) /\ pending = {} /\ stopped = {} /\ locked = FALSE
  BY <1>1 DEF Init
<1> QED
  BY <1>2, <1>4, <1>5 DEF TypeOK

(* Every variable keeps its type, for every value of the constants.        *)
THEOREM TypeCorrect == Spec => []TypeOK
  BY TypeInit, TypeStep, PTL DEF Spec

-----------------------------------------------------------------------------
(***************************************************************************)
(* The invariant is inductive                                              *)
(***************************************************************************)

LEMMA RunType ==
  ASSUME TypeOK, NEW i \in DOMAIN runs
  PROVE  /\ runs[i] \in Run
         /\ runs[i].call \in Calls
         /\ call[runs[i].call] \in Call
<1>1. runs[i] \in Run
  BY DEF TypeOK
<1> QED
  BY <1>1 DEF Run, TypeOK

(* What the gateway knows of its runs.                                     *)
RunFacts == TokenInv /\ RunInv /\ NoEarlyReplay /\ GovernedCallsRunOnce

(* A step that starts and finishes no tool, does not turn the clock back   *)
(* and leaves the calls alone that have run, leaves the run facts alone.   *)
LEMMA RunFrame ==
  ASSUME TypeOK, TypeOK', RunFacts, UNCHANGED <<runs, consumedAt>>, now <= now',
         \A i \in DOMAIN runs : call'[runs[i].call] = call[runs[i].call]
  PROVE  RunFacts'
<1>1. \A i \in DOMAIN runs : LET t == runs[i].call IN Expired(t) => Expired(t)'
  <2> SUFFICES ASSUME NEW i \in DOMAIN runs, Expired(runs[i].call)
               PROVE  Expired(runs[i].call)'
    OBVIOUS
  <2>1. runs[i].call \in Calls /\ runs'[i] = runs[i]
    BY RunType
  <2>2. call[runs[i].call].expires \in Nat /\ now \in Nat /\ now' \in Nat
    BY <2>1 DEF TypeOK, Call
  <2> QED
    BY <2>1, <2>2 DEF Expired
<1>2. TokenInv'
  BY <1>1 DEF RunFacts, TokenInv
<1>3. RunInv'
  BY DEF RunFacts, RunInv, RunRisk
<1>4. NoEarlyReplay' /\ GovernedCallsRunOnce'
  BY DEF RunFacts, NoEarlyReplay, GovernedCallsRunOnce
<1> QED
  BY <1>2, <1>3, <1>4 DEF RunFacts

(* The same for what is known of the calls: authorizations are not taken   *)
(* back, because people only add votes and answers are final.              *)
LEMMA AnswerFrame ==
  ASSUME NEW c \in Calls, level'[c] = level[c], votes'[c] = votes[c], answer'[c] = answer[c],
         Approvals!Justified(c, answer[c])
  PROVE  Approvals!Justified(c, answer[c])'
  BY DEF Approvals!Justified, Approvals!Quorum, Approvals!InFavour

LEMMA CallFrame ==
  ASSUME CallInv, NEW c \in Calls,
         level'[c] = level[c], votes'[c] = votes[c], answer'[c] = answer[c],
         call'[c] = call[c]
  PROVE  /\ call'[c].pc = "waiting" =>
              call'[c].decision = "REQUIRE_APPROVAL" /\ level'[c] = call'[c].risk
         /\ call'[c].pc \in {"held", "spent"} => Authorized(c)'
         /\ answer'[c] # "none" => level'[c] # "none" /\ Approvals!Justified(c, answer[c])'
  BY AnswerFrame DEF CallInv, Authorized

(* The step that starts a tool.  consumedTokens first holds the number of  *)
(* the new run for c and loses the tokens that have expired; then it may   *)
(* lose some of the oldest, which CutTokenIsOld accounts for.              *)
LEMMA StartStep ==
  ASSUME TypeOK, TypeOK', RunFacts, NEW c \in Calls, Start(c)
  PROVE  RunFacts'
<1> DEFINE n == Len(runs) + 1
           fresh == [t \in Calls |-> IF t = c THEN Len(runs) + 1
                                     ELSE IF Expired(t) THEN 0 ELSE consumedAt[t]]
           Cut(t) == t \in Oldest(fresh) /\ n - fresh[t] >= Cap + 1 - Drop
<1>1. /\ n \in Nat
      /\ DOMAIN runs' = DOMAIN runs \cup {n}
      /\ n \notin DOMAIN runs
      /\ Len(runs') = n
      /\ \A i \in DOMAIN runs : i \in 1 .. Len(runs) /\ runs'[i] = runs[i]
      /\ runs'[n] = [call |-> c, risk |-> RunRisk(c), at |-> now, outcome |-> "running"]
  BY DEF TypeOK, Start
<1>2. /\ fresh \in [Calls -> Nat]
      /\ fresh[c] = n
      /\ \A t \in Calls \ {c} : fresh[t] # 0 => fresh[t] = consumedAt[t]
  BY <1>1 DEF TypeOK
<1>3. \A t \in Calls : fresh[t] # 0 => fresh[t] \in DOMAIN runs' /\ runs'[fresh[t]].call = t
  BY <1>1, <1>2 DEF RunFacts, TokenInv
<1>4. \A t \in Calls : fresh[t] <= n
  BY <1>1, <1>2, <1>3
<1>5. \A t, u \in Held(fresh) : fresh[t] = fresh[u] => t = u
  BY <1>3 DEF Held
<1>6. Cap \in Nat /\ Drop \in Nat
  BY ConfigType
<1>7. \A t \in Calls : consumedAt'[t] = fresh[t] \/ (consumedAt'[t] = 0 /\ Cut(t))
  <2>1. consumedAt' = IF Cardinality(Held(fresh)) > Cap
                        THEN [t \in Calls |-> IF t \in Oldest(fresh) THEN 0 ELSE fresh[t]]
                        ELSE fresh
    BY DEF Start, Consume
  <2> HIDE DEF fresh, n
  <2>2. Cardinality(Held(fresh)) > Cap => \A t \in Oldest(fresh) : Cut(t)
    BY <1>1, <1>2, <1>4, <1>5, CutTokenIsOld
  <2> QED
    BY <2>1, <2>2
<1>8. ValidToken(c) /\ InHand(c)
  BY DEF Start
<1>9. /\ \A t \in Calls \ {c} : call'[t] = call[t]
      /\ call'[c] = [call[c] EXCEPT !.pc = IF PathOf[c] = "direct" THEN "held" ELSE "spent"]
      /\ now' = now
  BY DEF Start, TypeOK
<1>10. \A i \in DOMAIN runs : runs[i].call \in Calls /\ call[runs[i].call].expires \in Nat
  BY RunType DEF Call
<1> HIDE DEF n, fresh
<1>11. \A i \in DOMAIN runs : LET t == runs[i].call IN
         /\ fresh[t] # 0 => i <= fresh[t]
         /\ fresh[t] = 0 => Expired(t) \/ Len(runs) - i >= Cap + 1 - Drop
  <2> SUFFICES ASSUME NEW i \in DOMAIN runs, NEW t \in Calls, t = runs[i].call
               PROVE  /\ fresh[t] # 0 => i <= fresh[t]
                      /\ fresh[t] = 0 => Expired(t) \/ Len(runs) - i >= Cap + 1 - Drop
    BY <1>10
  <2>1. CASE t = c
    BY <1>1, <1>2, <2>1 DEF n
  <2>2. CASE t # c
    BY <1>1, <1>2, <2>2 DEF RunFacts, TokenInv, fresh
  <2> QED
    BY <2>1, <2>2
<1>12. TokenInv'
  <2>1. \A t \in Calls : consumedAt'[t] # 0 =>
          consumedAt'[t] \in DOMAIN runs' /\ runs'[consumedAt'[t]].call = t
    BY <1>3, <1>7
  <2>2. ASSUME NEW i \in DOMAIN runs', NEW t \in Calls, t = runs'[i].call
        PROVE  /\ consumedAt'[t] # 0 => i <= consumedAt'[t]
               /\ consumedAt'[t] = 0 => Expired(t)' \/ Len(runs') - i >= Cap + 1 - Drop
    <3>1. i \in Nat /\ i <= n /\ fresh[t] \in Nat
      BY <1>1, <1>2
    <3>2. fresh[t] # 0 => i <= fresh[t]
      BY <1>1, <1>2, <1>11, <2>2
    <3>3. fresh[t] = 0 => Expired(t) \/ n - i >= Cap + 1 - Drop
      <4>1. i = n => fresh[t] # 0
        BY <1>1, <1>2, <2>2, n # 0 DEF n
      <4>2. i # n /\ fresh[t] = 0 => Expired(t) \/ Len(runs) - i >= Cap + 1 - Drop
        BY <1>1, <1>11, <2>2
      <4>3. CASE i # n
        <5>1. Len(runs) \in Nat /\ n = Len(runs) + 1 /\ i \in Nat
          BY <1>1, <3>1 DEF n, TypeOK
        <5>2. Len(runs) - i >= Cap + 1 - Drop => n - i >= Cap + 1 - Drop
          BY <5>1, ConfigType
        <5> QED
          BY <4>2, <4>3, <5>2
      <4> QED
        BY <4>1, <4>3
    <3>4. Expired(t) /\ t # c => Expired(t)'
      BY <1>9 DEF Expired
    <3>5. fresh[t] = 0 => t # c
      BY <1>1, <1>2 DEF n
    <3>6. CASE consumedAt'[t] = fresh[t]
      BY <1>1, <3>2, <3>3, <3>4, <3>5, <3>6
    <3>7. CASE consumedAt'[t] = 0 /\ fresh[t] # 0 /\ n - fresh[t] >= Cap + 1 - Drop
      BY <1>1, <1>6, <3>1, <3>2, <3>7
    <3> QED
      BY <1>7, <3>6, <3>7
  <2>3. \A i \in DOMAIN runs' : runs'[i].call \in Calls
    BY <1>1, <1>10
  <2> QED
    BY <2>1, <2>2, <2>3 DEF TokenInv
<1>13. RunInv'
  <2> SUFFICES ASSUME NEW i \in DOMAIN runs', NEW t \in Calls, t = runs'[i].call
               PROVE  /\ call'[t].pc \in {"held", "spent"}
                      /\ PathOf[t] # "direct" => call'[t].pc = "spent"
                      /\ runs'[i].at <= call'[t].expires
                      /\ ~(PathOf[t] = "inline" /\ call'[t].edited)
                      /\ runs'[i].risk = RunRisk(t)'
                      /\ runs'[i].outcome = "unrecorded" => runs'[i].risk \notin HighRisk
    BY <1>1, <1>10 DEF RunInv
  <2>1. /\ call'[t].expires = call[t].expires
        /\ call'[t].edited = call[t].edited
        /\ call'[t].risk = call[t].risk
    <3>1. call[t] \in Call
      BY DEF TypeOK
    <3> QED
      BY <1>9, <3>1 DEF Call
  <2>5. RunRisk(t)' = RunRisk(t)
    BY <2>1 DEF RunRisk
  <2>2. t = c => /\ call'[t].pc \in {"held", "spent"}
                 /\ PathOf[t] # "direct" => call'[t].pc = "spent"
    BY <1>9 DEF TypeOK, Call
  <2>3. CASE i \in DOMAIN runs
    BY <1>1, <1>9, <2>1, <2>2, <2>3, <2>5 DEF RunFacts, RunInv
  <2>4. CASE i = n
    <3>1. now <= call[c].expires
      BY <1>8 DEF ValidToken, Expired, TypeOK, Call
    <3> QED
      BY <1>1, <1>8, <2>1, <2>2, <2>4, <2>5, <3>1 DEF ValidToken
  <2> QED
    BY <1>1, <2>3, <2>4
<1>14. NoEarlyReplay'
  <2> SUFFICES ASSUME NEW i \in DOMAIN runs', NEW j \in DOMAIN runs', i < j,
                      runs'[i].call = runs'[j].call
               PROVE  j - i > Cap + 1 - Drop
    BY DEF NoEarlyReplay
  <2>1. i \in DOMAIN runs
    BY <1>1 DEF n, TypeOK
  <2>2. CASE j \in DOMAIN runs
    BY <1>1, <2>1, <2>2 DEF RunFacts, NoEarlyReplay
  <2>3. CASE j = n
    <3>1. runs[i].call = c
      BY <1>1, <2>1, <2>3
    <3>2. Len(runs) - i >= Cap + 1 - Drop
      BY <1>8, <2>1, <3>1 DEF RunFacts, TokenInv, ValidToken
    <3> QED
      BY <1>1, <1>6, <2>1, <2>3, <3>2 DEF n, TypeOK
  <2> QED
    BY <1>1, <2>2, <2>3
<1>15. GovernedCallsRunOnce'
  <2>1. PathOf[c] # "direct" => \A i \in DOMAIN runs : runs[i].call # c
    BY <1>8 DEF InHand, RunFacts, RunInv
  <2> QED
    BY <1>1, <2>1 DEF RunFacts, GovernedCallsRunOnce
<1> QED
  BY <1>12, <1>13, <1>14, <1>15 DEF RunFacts

(* The end of a run sets its outcome; a high-risk one without its records  *)
(* counts as failed.                                                       *)
LEMMA FinishStep ==
  ASSUME TypeOK, TypeOK', RunFacts, NEW i \in DOMAIN runs, NEW x \in BOOLEAN, NEW e \in BOOLEAN,
         NEW a \in BOOLEAN, Finish(i, x, e, a)
  PROVE  RunFacts'
<1>1. /\ DOMAIN runs' = DOMAIN runs /\ Len(runs') = Len(runs)
      /\ \A j \in DOMAIN runs : runs'[j].call = runs[j].call /\ runs'[j].at = runs[j].at
                                /\ runs'[j].risk = runs[j].risk
      /\ \A j \in DOMAIN runs \ {i} : runs'[j].outcome = runs[j].outcome
      /\ runs'[i].outcome = OutcomeOf(runs[i].risk, x, e, a)
  <2>1. runs' = [runs EXCEPT ![i].outcome = OutcomeOf(runs[i].risk, x, e, a)]
    BY DEF Finish
  <2>2. \A j \in DOMAIN runs : runs[j] \in Run
    BY RunType
  <2>3. runs \in Seq(Run)
    BY DEF TypeOK
  <2> DEFINE r == [runs[i] EXCEPT !.outcome = OutcomeOf(runs[i].risk, x, e, a)]
  <2>4. /\ r.call = runs[i].call /\ r.at = runs[i].at /\ r.risk = runs[i].risk
        /\ r.outcome = OutcomeOf(runs[i].risk, x, e, a)
    BY <2>2 DEF Run
  <2>5. runs' = [runs EXCEPT ![i] = r]
    BY <2>1
  <2> HIDE DEF r
  <2> QED
    BY <2>3, <2>4, <2>5
<1>2. UNCHANGED <<call, consumedAt, now>>
  BY DEF Finish
<1>3. \A j \in DOMAIN runs' : runs'[j].outcome = "unrecorded" => runs'[j].risk \notin HighRisk
  <2>1. OutcomeOf(runs[i].risk, x, e, a) = "unrecorded" => runs[i].risk \notin HighRisk
    BY DEF OutcomeOf
  <2> QED
    BY <1>1, <2>1 DEF RunFacts, RunInv
<1>4. TokenInv'
  BY <1>1, <1>2 DEF RunFacts, TokenInv, Expired
<1>5. RunInv'
  BY <1>1, <1>2, <1>3 DEF RunFacts, RunInv, RunRisk
<1>6. NoEarlyReplay' /\ GovernedCallsRunOnce'
  BY <1>1 DEF RunFacts, NoEarlyReplay, GovernedCallsRunOnce
<1> QED
  BY <1>4, <1>5, <1>6 DEF RunFacts

LEMMA InvStep == IInv /\ [Next]_vars => IInv'
<1> SUFFICES ASSUME IInv, [Next]_vars PROVE IInv'
  OBVIOUS
<1>0. TypeOK /\ TypeOK' /\ RunFacts /\ CallInv
  BY TypeStep DEF IInv, RunFacts
<1>q. ASSUME RunFacts', CallInv' PROVE IInv'
  BY <1>0, <1>q DEF IInv, RunFacts
<1>a. \A i \in DOMAIN runs :
        /\ runs[i].call \in Calls
        /\ call[runs[i].call].pc \in {"held", "spent"}
        /\ PathOf[runs[i].call] # "direct" => call[runs[i].call].pc = "spent"
  BY <1>0, RunType DEF RunFacts, RunInv
<1>1. ASSUME NEW c \in Calls, NEW a \in Assessments, Evaluate(c, a) PROVE IInv'
  <2>1. \A d \in Calls \ {c} : /\ call'[d] = call[d]
                               /\ level'[d] = level[d]
                               /\ votes'[d] = votes[d]
                               /\ answer'[d] = answer[d]
    BY <1>0, <1>1 DEF Evaluate, Issue, TypeOK, Approvals!TypeOK, Approvals!Open, approvalVars
  <2>2. call[c].pc = "idle" /\ UNCHANGED <<runs, consumedAt, now>>
    BY <1>1 DEF Evaluate
  <2>3. RunFacts'
    <3>1. now <= now'
      BY <1>0, <2>2 DEF TypeOK
    <3> QED
      BY <1>0, <1>a, <2>1, <2>2, <3>1, RunFrame
  <2>4. /\ call'[c].pc = "waiting" =>
             call'[c].decision = "REQUIRE_APPROVAL" /\ level'[c] = call'[c].risk
        /\ call'[c].pc \in {"held", "spent"} => Authorized(c)'
        /\ answer'[c] # "none" => level'[c] # "none" /\ Approvals!Justified(c, answer[c])'
    <3> DEFINE v == Verdict(c, a)
    <3>1. v.decision \in Decisions /\ call[c] \in Call
      BY <1>0, VerdictType DEF TypeOK
    <3>2. CASE v.decision = "BLOCK"
      <4>1. call' = [call EXCEPT ![c].pc = "denied"] /\ UNCHANGED <<level, votes, answer>>
        BY <1>1, <3>2 DEF Evaluate, approvalVars
      <4>2. call'[c].pc = "denied"
        BY <1>0, <3>1, <4>1 DEF TypeOK, Call
      <4> QED
        BY <1>0, <4>1, <4>2, AnswerFrame DEF CallInv
    <3>3. CASE v.decision = "REQUIRE_APPROVAL"
      <4>1. /\ level[c] = "none"
            /\ level' = [level EXCEPT ![c] = v.risk]
            /\ answer' = answer
            /\ call' = [call EXCEPT ![c] =
                 [[call[c] EXCEPT !.safety = a.safety, !.decision = v.decision, !.risk = v.risk]
                    EXCEPT !.pc = "waiting"]]
        BY <1>1, <3>3 DEF Evaluate, Approvals!Open
      <4>2. /\ call'[c].pc = "waiting" /\ call'[c].decision = v.decision
            /\ call'[c].risk = v.risk
        BY <1>0, <3>1, <4>1 DEF TypeOK, Call
      <4>3. level'[c] = v.risk
        BY <1>0, <4>1 DEF TypeOK, Approvals!TypeOK
      <4> QED
        BY <1>0, <3>3, <4>1, <4>2, <4>3 DEF CallInv
    <3>4. CASE v.decision = "ALLOW"
      <4>1. /\ UNCHANGED <<level, votes, answer>>
            /\ call' = [call EXCEPT ![c] =
                 [[call[c] EXCEPT !.safety = a.safety, !.decision = v.decision, !.risk = v.risk]
                    EXCEPT !.pc = "held", !.expires = now + TTL]]
        BY <1>1, <3>4 DEF Evaluate, Issue, approvalVars
      <4>2. call'[c].pc = "held" /\ call'[c].decision = "ALLOW"
        BY <1>0, <3>1, <3>4, <4>1 DEF TypeOK, Call
      <4> QED
        BY <1>0, <4>1, <4>2, AnswerFrame DEF CallInv, Authorized
    <3> QED
      BY <3>1, <3>2, <3>3, <3>4 DEF Decisions
  <2>5. CallInv'
    <3>1. ASSUME NEW d \in Calls \ {c}
          PROVE  /\ call'[d].pc = "waiting" =>
                      call'[d].decision = "REQUIRE_APPROVAL" /\ level'[d] = call'[d].risk
                 /\ call'[d].pc \in {"held", "spent"} => Authorized(d)'
                 /\ answer'[d] # "none" =>
                      level'[d] # "none" /\ Approvals!Justified(d, answer[d])'
      BY <1>0, <2>1, CallFrame
    <3> QED
      BY <2>1, <2>4, <3>1 DEF CallInv
  <2> QED
    BY <1>q, <2>3, <2>5
<1>2. ASSUME NEW c \in Calls, NEW edited \in BOOLEAN, ResumeApproved(c, edited) PROVE IInv'
  <2>1. /\ call[c].pc = "waiting"
        /\ answer[c] \in {"approved", "auto_approved"}
        /\ UNCHANGED <<runs, consumedAt, now, level, votes, answer>>
        /\ call' = [call EXCEPT ![c] = [[call[c] EXCEPT !.edited = edited]
                                          EXCEPT !.pc = "held", !.expires = now + TTL]]
    BY <1>2 DEF ResumeApproved, Issue, approvalVars
  <2>2. \A d \in Calls \ {c} : call'[d] = call[d]
    BY <1>0, <2>1 DEF TypeOK
  <2>3. RunFacts'
    <3>1. now <= now'
      BY <1>0, <2>1 DEF TypeOK
    <3> QED
      BY <1>0, <1>a, <2>1, <2>2, <3>1, RunFrame
  <2>4. /\ call'[c].pc = "held"
        /\ call'[c].decision = call[c].decision
        /\ call'[c].risk = call[c].risk
    <3>1. call[c] \in Call
      BY <1>0 DEF TypeOK
    <3> QED
      BY <1>0, <2>1, <3>1 DEF Call, TypeOK
  <2>5. Authorized(c)' /\ level'[c] # "none" /\ Approvals!Justified(c, answer[c])'
    <3>1. /\ call[c].decision = "REQUIRE_APPROVAL" /\ level[c] = call[c].risk
          /\ level[c] # "none" /\ Approvals!Justified(c, answer[c])
      BY <1>0, <2>1 DEF CallInv
    <3>2. Approvals!Justified(c, answer[c])'
      BY <2>1, <3>1, AnswerFrame
    <3> QED
      BY <2>1, <2>4, <3>1, <3>2 DEF Authorized
  <2>6. CallInv'
    <3>1. ASSUME NEW d \in Calls \ {c}
          PROVE  /\ call'[d].pc = "waiting" =>
                      call'[d].decision = "REQUIRE_APPROVAL" /\ level'[d] = call'[d].risk
                 /\ call'[d].pc \in {"held", "spent"} => Authorized(d)'
                 /\ answer'[d] # "none" =>
                      level'[d] # "none" /\ Approvals!Justified(d, answer[d])'
      BY <1>0, <2>1, <2>2, CallFrame
    <3> QED
      BY <2>4, <2>5, <3>1 DEF CallInv
  <2> QED
    BY <1>q, <2>3, <2>6
<1>3. ASSUME NEW c \in Calls, ResumeDenied(c) \/ Refuse(c) PROVE IInv'
  <2>1. /\ call'[c].pc \in {"denied", "refused"}
        /\ \A d \in Calls \ {c} : call'[d] = call[d]
        /\ \A i \in DOMAIN runs : runs[i].call # c
        /\ UNCHANGED <<runs, consumedAt, now, level, votes, answer>>
    <3>1. call[c] \in Call
      BY <1>0 DEF TypeOK
    <3>2. CASE ResumeDenied(c)
      BY <1>0, <1>a, <3>1, <3>2 DEF ResumeDenied, approvalVars, TypeOK, Call
    <3>3. CASE Refuse(c)
      BY <1>0, <1>a, <3>1, <3>3 DEF Refuse, approvalVars, TypeOK, Call
    <3> QED
      BY <1>3, <3>2, <3>3
  <2>2. RunFacts'
    <3>1. now <= now'
      BY <1>0, <2>1 DEF TypeOK
    <3> QED
      BY <1>0, <1>a, <2>1, <3>1, RunFrame
  <2>3. CallInv'
    BY <1>0, <2>1, CallFrame, AnswerFrame DEF CallInv
  <2> QED
    BY <1>q, <2>2, <2>3
<1>4. ASSUME NEW c \in Calls, ApprovalStep(c) PROVE IInv'
  <2>1. answer[c] = "none" /\ UNCHANGED <<call, runs, consumedAt, now>>
    BY <1>4 DEF ApprovalStep
  <2>2. RunFacts'
    <3>1. now <= now'
      BY <1>0, <2>1 DEF TypeOK
    <3> QED
      BY <1>0, <2>1, <3>1, RunFrame
  <2>3. /\ level' = level
        /\ \A d \in Calls \ {c} : votes'[d] = votes[d] /\ answer'[d] = answer[d]
        /\ answer'[c] # "none" => level'[c] # "none" /\ Approvals!Justified(c, answer[c])'
    <3>1. CASE \E u \in Users, d \in Approvals!Verdicts : Approvals!CastVote(c, u, d)
      BY <1>0, <2>1, <3>1 DEF Approvals!CastVote, TypeOK, Approvals!TypeOK
    <3>2. CASE \E a \in Approvals!Answers : Approvals!Reply(c, a)
      <4>1. PICK a \in Approvals!Answers : Approvals!Reply(c, a)
        BY <3>2
      <4>2. /\ answer' = [answer EXCEPT ![c] = a]
            /\ answer'[c] = a
            /\ UNCHANGED <<level, votes>>
            /\ level[c] # "none"
        BY <1>0, <4>1 DEF Approvals!Reply, TypeOK, Approvals!TypeOK, Approvals!Levels
      <4>3. Approvals!Justified(c, answer[c])'
        BY <4>1, <4>2 DEF Approvals!Reply, Approvals!Justified, Approvals!Quorum,
                          Approvals!InFavour
      <4> QED
        BY <1>0, <4>2, <4>3 DEF TypeOK, Approvals!TypeOK
    <3> QED
      BY <1>4, <3>1, <3>2 DEF ApprovalStep
  <2>4. call[c].pc \in {"held", "spent"} => Authorized(c)'
    BY <1>0, <2>1 DEF CallInv, Authorized
  <2>5. CallInv'
    <3>1. ASSUME NEW d \in Calls \ {c}
          PROVE  /\ call'[d].pc = "waiting" =>
                      call'[d].decision = "REQUIRE_APPROVAL" /\ level'[d] = call'[d].risk
                 /\ call'[d].pc \in {"held", "spent"} => Authorized(d)'
                 /\ answer'[d] # "none" =>
                      level'[d] # "none" /\ Approvals!Justified(d, answer[d])'
      BY <1>0, <2>1, <2>3, CallFrame
    <3>2. call'[c].pc = "waiting" =>
            call'[c].decision = "REQUIRE_APPROVAL" /\ level'[c] = call'[c].risk
      BY <1>0, <2>1, <2>3 DEF CallInv
    <3> QED
      BY <2>1, <2>3, <2>4, <3>1, <3>2 DEF CallInv
  <2> QED
    BY <1>q, <2>2, <2>5
<1>5. ASSUME NEW c \in Calls, Start(c) PROVE IInv'
  <2>1. /\ UNCHANGED <<level, votes, answer>>
        /\ call[c].pc = "held"
        /\ call' = [call EXCEPT ![c].pc = IF PathOf[c] = "direct" THEN "held" ELSE "spent"]
    BY <1>5 DEF Start, InHand, approvalVars
  <2>2. /\ \A d \in Calls \ {c} : call'[d] = call[d]
        /\ call'[c].decision = call[c].decision
        /\ call'[c].risk = call[c].risk
        /\ call'[c].pc # "waiting"
    <3>1. call[c] \in Call
      BY <1>0 DEF TypeOK
    <3> QED
      BY <1>0, <2>1, <3>1 DEF TypeOK, Call
  <2>3. Authorized(c)' /\
        (answer'[c] # "none" => level'[c] # "none" /\ Approvals!Justified(c, answer[c])')
    BY <1>0, <2>1, <2>2, AnswerFrame DEF CallInv, Authorized
  <2>4. CallInv'
    <3>1. ASSUME NEW d \in Calls \ {c}
          PROVE  /\ call'[d].pc = "waiting" =>
                      call'[d].decision = "REQUIRE_APPROVAL" /\ level'[d] = call'[d].risk
                 /\ call'[d].pc \in {"held", "spent"} => Authorized(d)'
                 /\ answer'[d] # "none" =>
                      level'[d] # "none" /\ Approvals!Justified(d, answer[d])'
      BY <1>0, <2>1, <2>2, CallFrame
    <3> QED
      BY <2>2, <2>3, <3>1 DEF CallInv
  <2> QED
    BY <1>0, <1>5, <1>q, <2>4, StartStep
<1>6. ASSUME NEW i \in DOMAIN runs, NEW x \in BOOLEAN, NEW e \in BOOLEAN, NEW a \in BOOLEAN,
             Finish(i, x, e, a)
      PROVE  IInv'
  <2>1. UNCHANGED <<call, level, votes, answer>>
    BY <1>6 DEF Finish, approvalVars
  <2>2. CallInv'
    BY <1>0, <2>1, CallFrame DEF CallInv
  <2> QED
    BY <1>0, <1>6, <1>q, <2>2, FinishStep
<1>7. ASSUME UNCHANGED <<call, runs, consumedAt, level, votes, answer>>, now <= now' PROVE IInv'
  <2>1. RunFacts'
    BY <1>0, <1>7, RunFrame
  <2>2. CallInv'
    BY <1>0, <1>7, CallFrame DEF CallInv
  <2> QED
    BY <1>q, <2>1, <2>2
<1>8. ASSUME \/ \E s \in Sessions : StopSession(s)
             \/ LockWorkspace
             \/ UnlockWorkspace
             \/ Reset
             \/ Tick
             \/ UNCHANGED vars
      PROVE  IInv'
  <2>1. UNCHANGED <<call, runs, consumedAt, level, votes, answer>>
    BY <1>8 DEF StopSession, LockWorkspace, UnlockWorkspace, Reset, Tick, approvalVars, vars
  <2>2. now' = now \/ now' = now + 1
    BY <1>8 DEF StopSession, LockWorkspace, UnlockWorkspace, Reset, Tick, vars
  <2> QED
    BY <1>0, <1>7, <2>1, <2>2 DEF TypeOK
<1> QED
  BY <1>1, <1>2, <1>3, <1>4, <1>5, <1>6, <1>8 DEF Next

LEMMA InvInit == Init => IInv
<1> SUFFICES ASSUME Init PROVE IInv
  OBVIOUS
<1>1. /\ TypeOK
      /\ DOMAIN runs = {}
      /\ \A c \in Calls : call[c].pc = "idle" /\ consumedAt[c] = 0 /\ answer[c] = "none"
  BY TypeInit DEF Init, Approvals!Init
<1> QED
  BY <1>1 DEF IInv, TokenInv, CallInv, RunInv, NoEarlyReplay, GovernedCallsRunOnce

(* The inductive invariant holds for any calls, sessions and bounds.       *)
THEOREM InvHolds == Spec => []IInv
  BY InvInit, InvStep, PTL DEF Spec

(* No tool runs without the approval its assessment asked for, after its   *)
(* token has expired or, inline, with other arguments.                     *)
THEOREM RunsAuthorized == Spec => []RunsAreAuthorized
<1>1. IInv => RunsAreAuthorized
  <2> SUFFICES ASSUME IInv, NEW i \in DOMAIN runs, NEW c \in Calls, c = runs[i].call
               PROVE  /\ Authorized(c)
                      /\ runs[i].at <= call[c].expires
                      /\ ~(PathOf[c] = "inline" /\ call[c].edited)
    BY RunType DEF IInv, RunsAreAuthorized, Authorized
  <2> QED
    BY DEF IInv, RunInv, CallInv
<1> QED
  BY <1>1, InvHolds, PTL

(* Forgetting consumed tokens never lets an authorization be used twice    *)
(* within Cap + 1 - Drop tool executions, whatever the sizes.              *)
THEOREM ReplayIsLate == Spec => []NoEarlyReplay
<1>1. IInv => NoEarlyReplay
  BY DEF IInv
<1> QED
  BY <1>1, InvHolds, PTL

(* The Cline path and the inline path run a tool once per authorization.   *)
THEOREM GovernedRunOnce == Spec => []GovernedCallsRunOnce
<1>1. IInv => GovernedCallsRunOnce
  BY DEF IInv
<1> QED
  BY <1>1, InvHolds, PTL

(* A high-risk inline run that is reported as a success has its records.   *)
THEOREM HighRiskRecorded == Spec => []HighRiskIsRecorded
<1>1. IInv => HighRiskIsRecorded
  BY DEF IInv, RunInv, RunRisk, HighRiskIsRecorded
<1> QED
  BY <1>1, InvHolds, PTL
=============================================================================

---------------------------- MODULE ToolGateway ----------------------------
(***************************************************************************)
(* The tool gateway: packages/tool-gateway/src (ToolGateway and its        *)
(* SafetyPolicyPipeline), with the kill switch of packages/safety-engine   *)
(* that the pipeline consults and the map of pending calls in which        *)
(* packages/engine-adapter/src/ClineEngine.ts keeps the tokens.            *)
(*                                                                         *)
(* A tool call is evaluated; it is blocked, allowed, or sent to a human,   *)
(* in which case evaluateAndAuthorizeToolCall awaits the approval engine,  *)
(* modelled here by its contract.  An authorized call holds a token, with  *)
(* which executeTool starts the tool and which it consumes.  Calls reach   *)
(* executeTool in three ways:                                              *)
(*   inline - without a token (MCP server): executeTool authorizes itself; *)
(*   cline  - the Cline engine authorizes, keeps the token in its map of   *)
(*            pending calls and presents it when Cline runs the tool;      *)
(*   direct - a caller of the public interface keeps the token and may     *)
(*            present it as often as it likes.                             *)
(*                                                                         *)
(* callId, tool name, tenant, agent and session are bound to the token and *)
(* are not told apart here; of the arguments it only matters whether they  *)
(* are still those the token was issued for.                               *)
(***************************************************************************)
EXTENDS Naturals, Sequences, FiniteSets

CONSTANTS
  Calls,        \* tool calls, each with a callId and a token of its own
  PathOf,       \* how each call reaches executeTool
  Sessions,
  SessionOf,    \* session of each call
  Assessments,  \* what safety, policy and capability checks may say of a call
  TTL,          \* authorizationTokenTtlMs (30 s)
  Cap,          \* consumedTokens is cut back beyond this size (10 000)
  Drop,         \* and loses this many of its oldest entries (5 000)
  PendingCap,   \* pendingToolCalls is cleaned up beyond this size (1000)
  MaxTime,      \* bound on the clock
  MaxRuns,      \* bound on the number of tool executions
  Users, RoleOf, Requester, NoUser, TenantOf, MemberOf  \* see ApprovalPolicy

VARIABLES
  call,        \* what the gateway knows of each call
  consumedAt,  \* consumedTokens: 0 for a token it does not hold, else the
               \* number of the run that consumed it; Map order is this order
  runs,        \* tool executions, in the order they started
  pending,     \* ClineEngine.pendingToolCalls
  now,         \* Date.now()
  stopped,     \* sessions whose context the kill switch has stopped
  locked,      \* isWorkspaceLocked of the workspace
  level, votes, answer  \* the approval engine, see ApprovalContract

approvalVars == <<level, votes, answer>>
switchVars == <<stopped, locked>>
vars == <<call, consumedAt, runs, pending, now, stopped, locked, level, votes, answer>>

Approvals == INSTANCE ApprovalContract WITH Requests <- Calls

Levels == {"LOW", "MEDIUM", "HIGH", "CRITICAL"}
HighRisk == {"HIGH", "CRITICAL"}
Decisions == {"BLOCK", "REQUIRE_APPROVAL", "ALLOW"}
Paths == {"inline", "cline", "direct"}

Assessment == [inBounds : BOOLEAN,     \* tenant scope and path boundary checks
               safety : Levels,        \* SafetyEngine.analyzeRisk
               policy : Decisions,     \* PolicyEngine: decision
               policyRisk : Levels,    \* PolicyEngine: riskLevel
               capable : BOOLEAN]      \* CapabilityAuthorizer

ASSUME ConfigType ==
  /\ IsFiniteSet(Calls)
  /\ PathOf \in [Calls -> Paths]
  /\ SessionOf \in [Calls -> Sessions]
  /\ Assessments \subseteq Assessment
  /\ {TTL, Cap, Drop, PendingCap, MaxTime, MaxRuns} \subseteq Nat
  /\ Drop <= Cap

(* A run fails, or succeeds with or without both of its records. *)
Outcomes == {"running", "failed", "recorded", "unrecorded"}

Call == [pc : {"idle", "waiting", "held", "spent", "denied", "refused"},
         safety : Levels,
         decision : Decisions \cup {"none"},
         risk : Levels,
         edited : BOOLEAN,   \* the approved parameters are not the original ones
         expires : Nat]      \* expiresAt of its token

Run == [call : Calls, risk : Levels, at : Nat, outcome : Outcomes]

TypeOK ==
  /\ call \in [Calls -> Call]
  /\ consumedAt \in [Calls -> Nat]
  /\ runs \in Seq(Run)
  /\ pending \in SUBSET Calls
  /\ now \in Nat
  /\ stopped \in SUBSET Sessions
  /\ locked \in BOOLEAN
  /\ Approvals!TypeOK

Init ==
  /\ call = [c \in Calls |-> [pc |-> "idle", safety |-> "LOW", decision |-> "none",
                              risk |-> "LOW", edited |-> FALSE, expires |-> 0]]
  /\ consumedAt = [c \in Calls |-> 0]
  /\ runs = <<>>
  /\ pending = {}
  /\ now = 0
  /\ stopped = {}
  /\ locked = FALSE
  /\ Approvals!Init

(***************************************************************************)
(* SafetyPolicyPipeline.evaluate, in its order of precedence               *)
(***************************************************************************)

Verdict(c, a) ==
  IF ~a.inBounds \/ SessionOf[c] \in stopped \/ locked \/ a.safety = "CRITICAL"
    THEN [decision |-> "BLOCK", risk |-> "CRITICAL"]
  ELSE IF a.policy = "BLOCK"
    THEN [decision |-> "BLOCK", risk |-> a.policyRisk]
  ELSE IF ~a.capable
    THEN [decision |-> "BLOCK", risk |-> "HIGH"]
  ELSE IF a.policy = "REQUIRE_APPROVAL" \/ a.safety = "HIGH"
    THEN [decision |-> "REQUIRE_APPROVAL", risk |-> a.policyRisk]
  ELSE [decision |-> "ALLOW", risk |-> a.policyRisk]

(***************************************************************************)
(* evaluateAndAuthorizeToolCall                                            *)
(***************************************************************************)

Expired(c) == now > call[c].expires

(* The Cline engine keeps the token of an authorized call and, when it     *)
(* keeps too many, forgets the expired ones.                               *)
KeepPending(c) ==
  LET kept == pending \cup {c} IN
  pending' = IF PathOf[c] # "cline" THEN pending
             ELSE IF Cardinality(kept) > PendingCap
               THEN {k \in kept : k = c \/ ~Expired(k)}
             ELSE kept

(* generateAuthorizationToken: the token lives for TTL from now on. *)
Issue(c, record) ==
  /\ call' = [call EXCEPT ![c] = [record EXCEPT !.pc = "held", !.expires = now + TTL]]
  /\ KeepPending(c)

Evaluate(c, a) ==
  LET v == Verdict(c, a)
      judged == [call[c] EXCEPT !.safety = a.safety, !.decision = v.decision, !.risk = v.risk]
  IN
  /\ call[c].pc = "idle"
  /\ \/ /\ v.decision = "BLOCK"
        /\ call' = [call EXCEPT ![c].pc = "denied"]
        /\ UNCHANGED <<pending, approvalVars>>
     \/ /\ v.decision = "REQUIRE_APPROVAL"
        /\ Approvals!Open(c, v.risk)
        /\ call' = [call EXCEPT ![c] = [judged EXCEPT !.pc = "waiting"]]
        /\ UNCHANGED pending
     \/ /\ v.decision = "ALLOW"
        /\ Issue(c, judged)
        /\ UNCHANGED approvalVars
  /\ UNCHANGED <<consumedAt, runs, now, switchVars>>

(* The approval engine has answered.  An automatic approval returns the    *)
(* original parameters; a human one those of the request, in which secrets *)
(* are redacted, or those the approver wrote instead.                      *)
ResumeApproved(c, edited) ==
  /\ call[c].pc = "waiting"
  /\ answer[c] \in {"approved", "auto_approved"}
  /\ edited => answer[c] = "approved"
  /\ Issue(c, [call[c] EXCEPT !.edited = edited])
  /\ UNCHANGED <<consumedAt, runs, now, switchVars, approvalVars>>

ResumeDenied(c) ==
  /\ call[c].pc = "waiting"
  /\ answer[c] \in {"rejected", "timed_out"}
  /\ call' = [call EXCEPT ![c].pc = "denied"]
  /\ UNCHANGED <<consumedAt, runs, pending, now, switchVars, approvalVars>>

(* People vote and the engine answers.  What they do once it has answered  *)
(* is of no interest to the gateway.                                       *)
ApprovalStep(c) ==
  /\ answer[c] = "none"
  /\ \/ \E u \in Users, d \in Approvals!Verdicts : Approvals!CastVote(c, u, d)
     \/ \E a \in Approvals!Answers : Approvals!Reply(c, a)
  /\ UNCHANGED <<call, consumedAt, runs, pending, now, switchVars>>

(***************************************************************************)
(* executeTool                                                             *)
(***************************************************************************)

(* Faulty variant of ValidToken: expiresAt is not looked at. *)
UnusedToken(c) ==
  /\ consumedAt[c] = 0
  /\ ~(PathOf[c] = "inline" /\ call[c].edited)

(* validateAuthorizationToken.  Only the inline path applies the approved  *)
(* parameters before it compares them with those the token was issued for. *)
ValidToken(c) ==
  /\ consumedAt[c] = 0
  /\ ~Expired(c)
  /\ ~(PathOf[c] = "inline" /\ call[c].edited)

Held(tokens) == {t \in Calls : tokens[t] # 0}

(* Faulty variant of Oldest: one entry too many. *)
OldestAndNext(tokens) ==
  {t \in Held(tokens) : Cardinality({u \in Held(tokens) : tokens[u] < tokens[t]}) <= Drop}

Oldest(tokens) ==
  {t \in Held(tokens) : Cardinality({u \in Held(tokens) : tokens[u] < tokens[t]}) < Drop}

(* consumeAuthorizationToken: forget the tokens that have expired, keep    *)
(* this one, and cut the map back if it has grown too large.               *)
Consume(c) ==
  LET fresh == [t \in Calls |-> IF t = c THEN Len(runs) + 1
                                ELSE IF Expired(t) THEN 0 ELSE consumedAt[t]]
  IN  IF Cardinality(Held(fresh)) > Cap
        THEN [t \in Calls |-> IF t \in Oldest(fresh) THEN 0 ELSE fresh[t]]
        ELSE fresh

(* The risk level that executeTool knows: the assessed one when it ran the *)
(* authorization itself, otherwise its default.                            *)
RunRisk(c) == IF PathOf[c] = "inline" THEN call[c].risk ELSE "LOW"

(* The call presents its token.  The Cline engine takes it out of its map  *)
(* to do so; only a direct caller still has it afterwards.                 *)
InHand(c) == call[c].pc = "held" /\ (PathOf[c] = "cline" => c \in pending)

(* Faulty variant of Start: the Cline engine does not delete the token. *)
StartKeepingToken(c) ==
  /\ InHand(c)
  /\ ValidToken(c)
  /\ Len(runs) < MaxRuns
  /\ call' = [call EXCEPT ![c].pc = IF PathOf[c] = "inline" THEN "spent" ELSE "held"]
  /\ consumedAt' = Consume(c)
  /\ runs' = Append(runs, [call |-> c, risk |-> RunRisk(c), at |-> now, outcome |-> "running"])
  /\ UNCHANGED <<pending, now, switchVars, approvalVars>>

Start(c) ==
  /\ InHand(c)
  /\ ValidToken(c)
  /\ Len(runs) < MaxRuns
  /\ call' = [call EXCEPT ![c].pc = IF PathOf[c] = "direct" THEN "held" ELSE "spent"]
  /\ pending' = pending \ {c}
  /\ consumedAt' = Consume(c)
  /\ runs' = Append(runs, [call |-> c, risk |-> RunRisk(c), at |-> now, outcome |-> "running"])
  /\ UNCHANGED <<now, switchVars, approvalVars>>

(* The token is no longer there or not valid: the tool does not run.       *)
Refuse(c) ==
  /\ call[c].pc = "held"
  /\ PathOf[c] # "direct"
  /\ ~(InHand(c) /\ ValidToken(c))
  /\ call' = [call EXCEPT ![c].pc = "refused"]
  /\ pending' = pending \ {c}
  /\ UNCHANGED <<consumedAt, runs, now, switchVars, approvalVars>>

(* The executor returns or throws, then the evidence store and the audit   *)
(* engine take their records or fail; a failure discards the result of a   *)
(* high-risk run and is passed over otherwise.   Nothing else reads what    *)
(* happens in between, so the three awaits are one step.                   *)
OutcomeIfNotCritical(risk, executed, evidence, audited) ==  \* faulty variant: HIGH passes
  IF executed /\ evidence /\ audited THEN "recorded"
  ELSE IF executed /\ risk # "CRITICAL" THEN "unrecorded"
  ELSE "failed"

OutcomeOf(risk, executed, evidence, audited) ==
  IF executed /\ evidence /\ audited THEN "recorded"
  ELSE IF executed /\ risk \notin HighRisk THEN "unrecorded"
  ELSE "failed"

Finish(i, executed, evidence, audited) ==
  /\ runs[i].outcome = "running"
  /\ runs' = [runs EXCEPT ![i].outcome = OutcomeOf(runs[i].risk, executed, evidence, audited)]
  /\ UNCHANGED <<call, consumedAt, pending, now, switchVars, approvalVars>>

(***************************************************************************)
(* KillSwitch and time                                                     *)
(***************************************************************************)

(* triggerLevel2, or a granular stop that covers the session. *)
StopSession(s) ==
  /\ stopped' = stopped \cup {s}
  /\ UNCHANGED <<call, consumedAt, runs, pending, now, locked, approvalVars>>

(* triggerLevel3 stops the session and, after killing its processes, locks *)
(* the workspace.                                                          *)
LockWorkspace ==
  /\ stopped # {}
  /\ locked' = TRUE
  /\ UNCHANGED <<call, consumedAt, runs, pending, now, stopped, approvalVars>>

UnlockWorkspace ==
  /\ locked' = FALSE
  /\ UNCHANGED <<call, consumedAt, runs, pending, now, stopped, approvalVars>>

Reset ==
  /\ stopped' = {}
  /\ locked' = FALSE
  /\ UNCHANGED <<call, consumedAt, runs, pending, now, approvalVars>>

Tick ==
  /\ now < MaxTime
  /\ now' = now + 1
  /\ UNCHANGED <<call, consumedAt, runs, pending, switchVars, approvalVars>>

-----------------------------------------------------------------------------

Next ==
  \/ \E c \in Calls :
       \/ \E a \in Assessments : Evaluate(c, a)
       \/ \E edited \in BOOLEAN : ResumeApproved(c, edited)
       \/ ResumeDenied(c)
       \/ ApprovalStep(c)
       \/ Start(c)
       \/ Refuse(c)
  \/ \E i \in DOMAIN runs, x, e, a \in BOOLEAN : Finish(i, x, e, a)
  \/ \E s \in Sessions : StopSession(s)
  \/ LockWorkspace
  \/ UnlockWorkspace
  \/ Reset
  \/ Tick

Spec == Init /\ [][Next]_vars

-----------------------------------------------------------------------------
(***************************************************************************)
(* Properties                                                              *)
(***************************************************************************)

(* A tool that runs was allowed by the pipeline or approved: by policy at  *)
(* LOW risk, otherwise by enough people of the right role for the risk the *)
(* pipeline assessed; it starts within the life of its token and, on the   *)
(* inline path, with the arguments the token was issued for.               *)
RunsAreAuthorized ==
  \A i \in DOMAIN runs : LET c == runs[i].call IN
    /\ \/ call[c].decision = "ALLOW"
       \/ /\ call[c].decision = "REQUIRE_APPROVAL"
          /\ level[c] = call[c].risk
          /\ answer[c] \in {"approved", "auto_approved"}
          /\ Approvals!Justified(c, answer[c])
    /\ runs[i].at <= call[c].expires
    /\ ~(PathOf[c] = "inline" /\ call[c].edited)

(* An authorization that a direct caller presents again is accepted only   *)
(* after consumedTokens was cut back: at least Cap + 1 - Drop other tools  *)
(* ran in between.  (README.md:353 promises that tokens cannot be          *)
(* replayed at all.)                                                       *)
NoEarlyReplay ==
  \A i, j \in DOMAIN runs :
    i < j /\ runs[i].call = runs[j].call => j - i > Cap + 1 - Drop

(* On the two paths the system itself uses, one authorization is one run,  *)
(* whatever has been forgotten of the consumed tokens.                     *)
GovernedCallsRunOnce ==
  \A i, j \in DOMAIN runs :
    runs[i].call = runs[j].call /\ PathOf[runs[i].call] # "direct" => i = j

(* A high-risk inline run that reports success is in the evidence store    *)
(* and in the audit log.                                                   *)
HighRiskIsRecorded ==
  \A i \in DOMAIN runs : LET c == runs[i].call IN
    PathOf[c] = "inline" /\ call[c].risk \in HighRisk => runs[i].outcome # "unrecorded"

(* README.md:110: "Human Approval Gating" by the Needs You tray "for       *)
(* High/Critical Risk actions"; SafetyPolicyPipeline.ts:180: "Action       *)
(* requires human operator sign-off".                                      *)
HighRiskNeedsHuman ==
  \A i \in DOMAIN runs :
    call[runs[i].call].safety = "HIGH" => answer[runs[i].call] = "approved"

(* KillSwitch.ts:70: "Halts the active agent session, cancels pending tool *)
(* invocations, and marks session as stopped": no tool starts in a stopped *)
(* session.                                                                *)
HaltCancelsPending ==
  [][\A c \in Calls :
       runs' # runs /\ Len(runs') > Len(runs) /\ runs'[Len(runs')].call = c
         => SessionOf[c] \notin stopped]_vars

=============================================================================

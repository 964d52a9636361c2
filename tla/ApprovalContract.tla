-------------------------- MODULE ApprovalContract --------------------------
(***************************************************************************)
(* What the approval engine promises the caller of requestApproval:        *)
(* the request is opened once at one risk level, people vote on it, and    *)
(* the caller gets at most one answer.  An approval is backed by enough    *)
(* distinct people allowed to decide at that level, a rejection by one of  *)
(* them, and a time-out may come at any moment after the request opened.   *)
(*                                                                         *)
(* ApprovalEngine implements this specification; ToolGateway is built on   *)
(* it.                                                                     *)
(***************************************************************************)
EXTENDS ApprovalPolicy

VARIABLES
  level,   \* risk level the request was opened at, "none" before
  votes,   \* decisions recorded for the request
  answer   \* what the caller was told, "none" while it waits

contractVars == <<level, votes, answer>>

Verdicts == {"APPROVED", "REJECTED"}
Vote == [by : Users, verdict : Verdicts]
Answers == {"auto_approved", "approved", "rejected", "timed_out"}

InFavour(r) == {u \in Users : [by |-> u, verdict |-> "APPROVED"] \in votes[r]}

HasVoted(r, u) == \E v \in votes[r] : v.by = u

Quorum(r) == Cardinality(InFavour(r)) >= RequiredCount(level[r])

TypeOK ==
  /\ level \in [Requests -> Levels \cup {"none"}]
  /\ votes \in [Requests -> SUBSET Vote]
  /\ answer \in [Requests -> Answers \cup {"none"}]

Init ==
  /\ level = [r \in Requests |-> "none"]
  /\ votes = [r \in Requests |-> {}]
  /\ answer = [r \in Requests |-> "none"]

Open(r, l) ==
  /\ level[r] = "none"
  /\ level' = [level EXCEPT ![r] = l]
  /\ UNCHANGED <<votes, answer>>

CastVote(r, u, d) ==
  /\ level[r] \in Levels
  /\ ~AutoApproved(level[r])
  /\ MayDecide(r, level[r], u)
  /\ ~HasVoted(r, u)
  /\ votes' = [votes EXCEPT ![r] = @ \cup {[by |-> u, verdict |-> d]}]
  /\ UNCHANGED <<level, answer>>

(* What entitles the engine to give the answer a. *)
Justified(r, a) ==
  CASE a = "auto_approved" -> AutoApproved(level[r])
    [] a = "approved" -> ~AutoApproved(level[r]) /\ Quorum(r)
    [] a = "rejected" -> \E v \in votes[r] : v.verdict = "REJECTED"
    [] a = "timed_out" -> ~AutoApproved(level[r])

Reply(r, a) ==
  /\ level[r] \in Levels
  /\ answer[r] = "none"
  /\ Justified(r, a)
  /\ answer' = [answer EXCEPT ![r] = a]
  /\ UNCHANGED <<level, votes>>

Next ==
  \E r \in Requests :
    \/ \E l \in Levels : Open(r, l)
    \/ \E u \in Users, d \in Verdicts : CastVote(r, u, d)
    \/ \E a \in Answers : Reply(r, a)

Spec == Init /\ [][Next]_contractVars

(* Decisions are only ever added, so whatever justified an answer when it  *)
(* was given still does.                                                   *)
AnswerJustified ==
  \A r \in Requests : answer[r] # "none" => Justified(r, answer[r])

=============================================================================

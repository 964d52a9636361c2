--------------------------- MODULE ApprovalPolicy ---------------------------
(***************************************************************************)
(* Who may decide an approval request, and how many of them it takes.      *)
(* Translated from packages/approval-engine/src/ApprovalPolicy.ts (the     *)
(* default requirements) and from the checks of ApprovalResolver that read *)
(* them.  Pure: no state.                                                  *)
(***************************************************************************)
EXTENDS Naturals, FiniteSets

CONSTANTS
  Requests,   \* the approval requests
  Users,      \* the people who may submit decisions
  RoleOf,     \* role of each user
  Requester,  \* requesterUserId of each request; NoUser when the caller gave none
  NoUser,
  TenantOf,   \* tenant of each request
  MemberOf    \* tenant each user's decisions carry

Roles == {"developer", "operator", "admin", "owner"}

Levels == {"LOW", "MEDIUM", "HIGH", "CRITICAL"}

ASSUME UsersFinite == IsFiniteSet(Users)
ASSUME RoleOfType == RoleOf \in [Users -> Roles]
ASSUME RequesterType ==
  /\ NoUser \notin Users
  /\ Requester \in [Requests -> Users \cup {NoUser}]

(* DEFAULT_APPROVAL_REQUIREMENTS, level by level. *)
RequiredCount(l) ==
  CASE l = "LOW" -> 0
    [] l = "MEDIUM" -> 1
    [] l = "HIGH" -> 1
    [] l = "CRITICAL" -> 2

AllowedRoles(l) ==
  CASE l \in {"LOW", "MEDIUM"} -> Roles
    [] l = "HIGH" -> {"operator", "admin", "owner"}
    [] l = "CRITICAL" -> {"admin", "owner"}

AllowSelfApproval(l) == l \in {"LOW", "MEDIUM"}

AutoApproved(l) == l = "LOW"

(* The tenant check, the role check and the self-approval check of         *)
(* processDecision.                                                        *)
MayDecide(r, l, u) ==
  /\ TenantOf[r] = MemberOf[u]
  /\ RoleOf[u] \in AllowedRoles(l)
  /\ AllowSelfApproval(l) \/ Requester[r] # u

=============================================================================

-------------------------- MODULE MCApprovalEngine --------------------------
(***************************************************************************)
(* Small instances of ApprovalEngine.  Two administrators, so that a       *)
(* CRITICAL request can reach its quorum of two; an operator, who made the *)
(* request r1, so that the role rule (CRITICAL) and the self-approval rule *)
(* (HIGH) bite; and an owner of another tenant.                            *)
(***************************************************************************)
EXTENDS ApprovalEngine, TLC

CONSTANTS adm1, adm2, opr, alien

MCRoleOf ==
  [u \in Users |-> CASE u = opr -> "operator" [] u = alien -> "owner" [] OTHER -> "admin"]

MCRequester == [r \in Requests |-> IF opr \in Users THEN opr ELSE NoUser]

MCTenantOf == [r \in Requests |-> "here"]

MCMemberOf == [u \in Users |-> IF u = alien THEN "elsewhere" ELSE "here"]
=============================================================================

--------------------------- MODULE MCToolGateway ---------------------------
(***************************************************************************)
(* Small instances of ToolGateway: one call per path, one session, one     *)
(* operator, a consumed-token map of size one.                             *)
(***************************************************************************)
EXTENDS ToolGateway, TLC

CONSTANTS d1, k1, i1, s1, opr

MCPathOf == d1 :> "direct" @@ k1 :> "cline" @@ i1 :> "inline"

MCSessionOf == [c \in Calls |-> s1]

Assess(inBounds, safety, policy, policyRisk, capable) ==
  [inBounds |-> inBounds, safety |-> safety, policy |-> policy,
   policyRisk |-> policyRisk, capable |-> capable]

(* Allowed; a shell command under the default policy (safety HIGH, policy  *)
(* ALLOW at LOW); a policy that asks for approval at HIGH; an agent        *)
(* without the capability.                                                 *)
MCAssessments ==
  { Assess(TRUE, "LOW", "ALLOW", "LOW", TRUE),
    Assess(TRUE, "HIGH", "ALLOW", "LOW", TRUE),
    Assess(TRUE, "HIGH", "REQUIRE_APPROVAL", "HIGH", TRUE),
    Assess(TRUE, "LOW", "ALLOW", "LOW", FALSE) }

MCRoleOf == [u \in Users |-> "operator"]
MCRequester == [c \in Calls |-> NoUser]
MCTenantOf == [c \in Calls |-> "here"]
MCMemberOf == [u \in Users |-> "here"]
=============================================================================

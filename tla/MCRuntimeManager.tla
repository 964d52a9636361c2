-------------------------- MODULE MCRuntimeManager --------------------------
(***************************************************************************)
(* Small instances of RuntimeManager: two tenants, three agents, calls of  *)
(* two priorities.                                                         *)
(***************************************************************************)
EXTENDS RuntimeManager, TLC

CONSTANTS c1, c2, c3, c4, t1, t2, a1, a2, a3

MCTenantOf == c1 :> t1 @@ c2 :> t1 @@ c3 :> t2 @@ c4 :> t1
MCAgentOf == c1 :> a1 @@ c2 :> a2 @@ c3 :> a3 @@ c4 :> a1
MCPriorityOf == c1 :> 2 @@ c2 :> 2 @@ c3 :> 2 @@ c4 :> 3
=============================================================================

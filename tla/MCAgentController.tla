-------------------------- MODULE MCAgentController --------------------------
(***************************************************************************)
(* AgentController with one agent and two sessions, with two agents that   *)
(* are started in the same session, and with two in sessions of their own. *)
(***************************************************************************)
EXTENDS AgentController, TLC

CONSTANTS a1, a2, s1, s2

MCAskings == {a1 :> {s1, s2} @@ a2 :> {}, a1 :> {s1} @@ a2 :> {s1}, a1 :> {s1} @@ a2 :> {s2}}
=============================================================================

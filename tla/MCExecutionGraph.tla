-------------------------- MODULE MCExecutionGraph --------------------------
(***************************************************************************)
(* Small instances of ExecutionGraph: a chain of two nodes; a plan that    *)
(* redoes the second one, and a plan that hangs a third one onto it, which *)
(* does not fit once the second one has been terminated and dropped.       *)
(***************************************************************************)
EXTENDS ExecutionGraph, TLC

CONSTANTS n1, n2, n3

MCChain == [nodes |-> (n1 :> "CREATED" @@ n2 :> "CREATED"), edges |-> {<<n1, n2>>}]

MCRedo == [nodes |-> (n2 :> "QUEUED"), edges |-> {}]

MCAppend == [nodes |-> (n3 :> "CREATED"), edges |-> {<<n2, n3>>}]

MCInitialGraphs == {MCChain}

MCPlans == {MCRedo, MCAppend}
=============================================================================

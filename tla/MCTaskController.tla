--------------------------- MODULE MCTaskController --------------------------
(***************************************************************************)
(* TaskController with three tasks: a prerequisite with two dependents, a  *)
(* chain of three, and everything addDependency makes of them.             *)
(***************************************************************************)
EXTENDS TaskController
=============================================================================

--------------------------- MODULE MCRunLifecycle ---------------------------
(***************************************************************************)
(* Instances of RunLifecycle: one command line process beside the service, *)
(* a strategy that asks for an approval of the plan and of the result.     *)
(***************************************************************************)
EXTENDS RunLifecycle

CONSTANT c1
=============================================================================

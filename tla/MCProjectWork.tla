---------------------------- MODULE MCProjectWork ----------------------------
(***************************************************************************)
(* What a service works on for its project: the tasks of a run, and the    *)
(* catalog of proposals.  The two share no state: a behaviour is about one *)
(* of them, and the other stands still.                                    *)
(***************************************************************************)
EXTENDS MCRunWorkflow, MCProposalCatalog

VARIABLE work   \* the one this behaviour is about

workVars == <<work, vars, catalogVars>>

WorkInit == work \in {"run", "catalog"} /\ Init /\ CatalogInit

WorkNext ==
  \/ work = "run" /\ Next /\ UNCHANGED <<work, catalogVars>>
  \/ work = "catalog" /\ CatalogNext /\ UNCHANGED <<work, vars>>

WorkSpec == WorkInit /\ [][WorkNext]_workVars /\ WF_vars(work = "run" /\ StartedStep)

(* Both keep the types of their state. *)
WorkTypeOK == TypeOK /\ CatalogTypeOK

(* Every run settles: Settles, of a behaviour that is about a run. *)
EveryRunSettles == work = "run" => Settles
=============================================================================

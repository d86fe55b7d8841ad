---------------------------- MODULE MCStateRoot ----------------------------
(***************************************************************************)
(* What a service finds in the state root and the repository of a project, *)
(* and has to come to terms with: the control lease of earlier services,   *)
(* and the applications of proposals.  The two share no state: a behaviour *)
(* is about one of them, and the other stands still.                       *)
(*                                                                         *)
(* Two services claim a lock among the remains of two dead ones, one of    *)
(* them with a recycled process id.  Two strategies and a role prompt are  *)
(* applied over a catalog of an earlier version.                           *)
(***************************************************************************)
EXTENDS EvolutionApplication, ControlLease, TLC

CONSTANTS s1, s2, r1, x, y, p1, p2, old1, old2

MCProposal == {s1, s2, r1}
MCDefinition == s1 :> x @@ s2 :> y @@ r1 :> x
MCLegacy ==
  {[revision |-> 7, promoted |-> <<>>, passed |-> {r1}, strategy |-> Absent, prompt |-> y],
   [revision |-> 8, promoted |-> <<>>, passed |-> {s1}, strategy |-> Absent, prompt |-> x],
   [revision |-> 8, promoted |-> <<s1>>, passed |-> {s2}, strategy |-> x, prompt |-> x],
   [revision |-> 8, promoted |-> <<s2, s1>>, passed |-> {}, strategy |-> x, prompt |-> x]}

VARIABLE part   \* the one this behaviour is about

RootVars == <<part, vars, leaseVars>>

\* The one that stands still starts in one of its initial states only.
RootInit ==
  /\ part \in {"lease", "application"}
  /\ Init /\ LeaseInit
  /\ part # "lease" => lock = Nobody /\ marker = NoMarker
  /\ part # "application" => catalog.revision = 7

RootNext ==
  \/ part = "lease" /\ LeaseNext /\ UNCHANGED <<part, vars>>
  \/ part = "application" /\ Next /\ UNCHANGED <<part, leaseVars>>

\* Each part is scheduled as its own specification says.
RootSpec ==
  /\ RootInit /\ [][RootNext]_RootVars
  /\ WF_vars(part = "application" /\ Executing)
  /\ WF_vars(part = "application" /\ Opening)
  /\ WF_vars(part = "application" /\ Restart)
  /\ \A p \in Service \ Remains : WF_leaseVars(part = "lease" /\ ClaimStep(p))

(* Both parts keep the types of their state. *)
RootTypeOK == TypeOK /\ LeaseTypeOK
=============================================================================

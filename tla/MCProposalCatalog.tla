-------------------------- MODULE MCProposalCatalog --------------------------
(***************************************************************************)
(* Two proposals for one target, with evidence that passes and evidence    *)
(* that an advisor vetoes.                                                 *)
(***************************************************************************)
EXTENDS ProposalCatalog, TLC

CONSTANTS q1, q2, target

MCTargetKeyOf == q1 :> target @@ q2 :> target
=============================================================================

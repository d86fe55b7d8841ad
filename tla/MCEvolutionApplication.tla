----------------------- MODULE MCEvolutionApplication ------------------------
(***************************************************************************)
(* Three strategies on a catalog that is older than the journal: the       *)
(* second was promoted over the first, and the third passed its            *)
(* evaluation.  No write fails and nobody interferes.                      *)
(***************************************************************************)
EXTENDS EvolutionApplication, TLC

CONSTANTS s1, s2, s3, x, y

MCProposal == {s1, s2, s3}
MCDefinition == s1 :> x @@ s2 :> y @@ s3 :> x
MCLegacy ==
  {[revision |-> 8, promoted |-> <<s2, s1>>, passed |-> {s3}, strategy |-> x, prompt |-> x]}

(* ADR 0015 says that a reconciliation captures one baseline layer of a    *)
(* legacy predecessor and preserves that chain, and that restart recovery  *)
(* needs nothing from a caller: what the coordinator wrote opens again,    *)
(* whatever was rolled back to the baseline and promoted over it.          *)
CapturedLayerReopens == Loadable(journal, catalog) \/ Forgotten(journal, catalog)
=============================================================================

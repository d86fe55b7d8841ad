--------------------------- MODULE IntegrationLog ---------------------------
(***************************************************************************)
(* What a run promises its owner about the integration branch: every task  *)
(* is merged at most once, after the tasks it depends on, and the result   *)
(* offered for approval is the whole branch, which no longer moves.        *)
(***************************************************************************)
EXTENDS Naturals, Sequences

CONSTANTS
  Task,
  DependsOn \* the tasks each task depends on

VARIABLES
  merged,   \* the tasks on the integration branch, in the order of their merges
  offered   \* the number of merges in the result offered for approval, 0 before

vars == <<merged, offered>>

On(branch) == {branch[i] : i \in 1 .. Len(branch)}

Init == merged = <<>> /\ offered = 0

Integrate(t) ==
  /\ offered = 0
  /\ t \notin On(merged)
  /\ DependsOn[t] \subseteq On(merged)
  /\ merged' = Append(merged, t)
  /\ UNCHANGED offered

Offer ==
  /\ offered = 0 /\ merged # <<>>
  /\ offered' = Len(merged)
  /\ UNCHANGED merged

Next == (\E t \in Task : Integrate(t)) \/ Offer

Spec == Init /\ [][Next]_vars
=============================================================================

-------------------------- MODULE MCProjectControl --------------------------
(***************************************************************************)
(* One run of a project, and the loop that improves the project's strategy *)
(* while it owns the project, beside each other: a behaviour is about one, *)
(* and the other stands still.                                             *)
(*                                                                         *)
(* The run has one command line process beside the service, and a strategy *)
(* that asks for an approval of the plan and of the result.  The loop has  *)
(* two runs for a measurement; it has two cycles beside one thing people   *)
(* begin, in a new project or in one where a loop or a person promoted a   *)
(* strategy before, or one cycle beside two such things in a new project.  *)
(***************************************************************************)
EXTENDS RunLifecycle, AutomaticEvolution, TLC

CONSTANTS c1, strategy1, strategy2, old, hand

MCOutcome ==
  {[passed |-> FALSE, score |-> 0], [passed |-> TRUE, score |-> 1], [passed |-> TRUE, score |-> 2]}
MCEntry(status, source, definition) ==
  [status |-> status, source |-> source, definition |-> definition]
MCNew ==
  [target |-> Unset, layers |-> <<>>,
   proposals |-> [p \in EvolutionProposal |-> MCEntry("absent", "none", Unset)]]
MCPromoted(source) ==
  [target |-> strategy1, layers |-> <<[proposal |-> old, covered |-> Unset]>>,
   proposals |-> [MCNew.proposals EXCEPT ![old] = MCEntry("promoted", source, strategy1),
                                         ![hand] = MCEntry("passed", "preflight", strategy2)]]
MCPast == {MCNew, MCPromoted("runs"), MCPromoted("preflight")}

VARIABLE about   \* "run", "loop", or a "brief" loop

Loops == about # "run"
MCInit ==
  /\ about \in {"run", "loop", "brief"} /\ Init /\ AutomationInit
  /\ about # "loop" => target = Unset

\* Beside a brief loop people begin one thing more.
Moves == IF about = "loop" THEN MaxMoves - 1 ELSE MaxMoves
Cycles == IF about = "brief" THEN MaxCycles - 1 ELSE MaxCycles
Bounded == moves' <= Moves /\ loop'.limit <= Cycles
\* Nobody does anything any more: the bound of the instance.
Rest == moves = Moves /\ At("idle") /\ UNCHANGED automationVars

MCNext ==
  \/ about = "run" /\ Next /\ UNCHANGED <<about, automationVars>>
  \/ Loops /\ AutomationNext /\ Bounded /\ UNCHANGED <<about, vars>>
  \/ Loops /\ Rest /\ UNCHANGED <<about, vars>>

MCSpec ==
  /\ MCInit /\ [][MCNext]_<<about, vars, automationVars>>
  /\ WF_vars(about = "run" /\ ActionStep) /\ WF_vars(about = "run" /\ WorkflowStep)
  /\ WF_vars(about = "run" /\ EndMutation) /\ WF_vars(about = "run" /\ (CloseAborts \/ Closed))
  /\ WF_automationVars(Loops /\ LoopStep)

(* Both keep the types of their state. *)
BothTypeOK == TypeOK /\ AutomationTypeOK
=============================================================================

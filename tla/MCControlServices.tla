-------------------------- MODULE MCControlServices --------------------------
(***************************************************************************)
(* Three services that share no state, checked beside each other: a        *)
(* behaviour is one invocation of a role in its live session, or the       *)
(* budget of one run, or the intake of work, and the others stand still.   *)
(* Three agents share a budget of three invocations; two triggers come on  *)
(* one thread, with a start and a retry command; an invocation has two     *)
(* profiles, one redirect and one recovery.                                *)
(***************************************************************************)
EXTENDS RunBudget, RunIntake, LiveTurn, TLC

CONSTANTS t1, t2, th1, k, op1, op2

MCThreadOf == t1 :> th1 @@ t2 :> th1
MCInterventionsIn == "claude" :> {op1, op2} @@ "codex" :> {op1}

VARIABLE service   \* the one this behaviour is about

vars == <<service, budgetVars, intakeVars, turnVars>>

Init ==
  /\ service \in {"budget", "intake", "turn"}
  /\ BudgetInit /\ IntakeInit /\ TurnInit
  /\ service # "turn" => kind = "codex"

Next ==
  \/ service = "budget" /\ BudgetNext /\ UNCHANGED <<service, intakeVars, turnVars>>
  \/ service = "intake" /\ IntakeNext /\ UNCHANGED <<service, budgetVars, turnVars>>
  \/ service = "turn" /\ TurnNext /\ UNCHANGED <<service, budgetVars, intakeVars>>

FairSpec == Init /\ [][Next]_vars /\ WF_turnVars(service = "turn" /\ ServiceStep)

(* Every service keeps the types of its state. *)
TypeOK == BudgetTypeOK /\ IntakeTypeOK /\ TurnTypeOK

(* An invocation always comes to its end: InvocationEnds, of a behaviour *)
(* that is about one.                                                    *)
EveryInvocationEnds == service = "turn" => InvocationEnds
=============================================================================

------------------------------ MODULE RunBudget ------------------------------
(***************************************************************************)
(* The budget of agent invocations of one run (observability/budget.ts).   *)
(* Workers, reviewers and testers of a wave ask for their next invocation  *)
(* at the same time.  The tracker counts in the run object, saves the run  *)
(* through the queue of the store and announces the invocation only then.  *)
(* The service can die between any two of these, and the resumed run       *)
(* counts on from what was saved.                                          *)
(***************************************************************************)
EXTENDS Integers, Sequences

CONSTANTS
  Caller,              \* agents of the run that ask for invocations beside each other
  Workflow,            \* the workflow itself, which saves the run for reasons of its own
  MaxAgentInvocations, \* the limit of the run's strategy
  MaxBudgetFailures    \* bound on failed saves and deaths of the service

ASSUME CallerAssumption == Workflow \notin Caller
ASSUME BudgetAssumption == MaxAgentInvocations \in Nat /\ MaxBudgetFailures \in Nat

VARIABLES
  agentInvocations, \* usage.agentInvocations of the run object
  saved,            \* the same in state.json
  saveQueue,        \* saves under way, each with the run as it was when save was called
  incrementChain,   \* the callers whose claims wait for each other, in order
  caller,           \* where each caller is
  announced,        \* the numbers of the agent.invocation.started events
  tracking,         \* the service is up and has a tracker for the run
  budgetFailures

budgetVars == <<agentInvocations, saved, saveQueue, incrementChain, caller, announced,
                tracking, budgetFailures>>

CallerPlace == {"idle", "claiming", "saving", "saved", "invoking", "reporting"}

BudgetTypeOK ==
  /\ agentInvocations \in 0..MaxAgentInvocations
  /\ saved \in 0..MaxAgentInvocations
  /\ saveQueue \in Seq([invocations : 0..MaxAgentInvocations, by : Caller \union {Workflow}])
  /\ incrementChain \in Seq(Caller)
  /\ caller \in [Caller -> CallerPlace]
  /\ announced \in Seq(1..MaxAgentInvocations)
  /\ tracking \in BOOLEAN
  /\ budgetFailures \in 0..MaxBudgetFailures

BudgetInit ==
  /\ agentInvocations = 0 /\ saved = 0
  /\ saveQueue = <<>> /\ incrementChain = <<>>
  /\ caller = [c \in Caller |-> "idle"]
  /\ announced = <<>>
  /\ tracking = TRUE
  /\ budgetFailures = 0

-----------------------------------------------------------------------------
(* RunStateStore.save serialises the run when it is called, writes in order. *)
Save(invocations, by) ==
  saveQueue' = Append(saveQueue, [invocations |-> invocations, by |-> by])

IsFirst(c) == incrementChain # <<>> /\ Head(incrementChain) = c
LeaveChain == incrementChain' = Tail(incrementChain)
Moves(c, from, to) == caller[c] = from /\ caller' = [caller EXCEPT ![c] = to]

(* beforeInvocation, once the artifacts of the run are within their budget; *)
(* otherwise the call throws and nothing has changed.                       *)
BeforeInvocation(c) ==
  /\ tracking
  /\ Moves(c, "idle", "claiming")
  /\ incrementChain' = Append(incrementChain, c)
  /\ UNCHANGED <<agentInvocations, saved, saveQueue, announced, tracking, budgetFailures>>

\* Mutant of Claim: the claims do not wait for each other.
ClaimBesideOthers(c) ==
  /\ agentInvocations < MaxAgentInvocations
  /\ Moves(c, "claiming", "saving")
  /\ agentInvocations' = agentInvocations + 1
  /\ Save(agentInvocations + 1, c)
  /\ UNCHANGED <<saved, incrementChain, announced, tracking, budgetFailures>>

\* Mutant of Claim: the limit itself is taken for free.
ClaimOneMore(c) ==
  /\ IsFirst(c)
  /\ agentInvocations <= MaxAgentInvocations
  /\ Moves(c, "claiming", "saving")
  /\ agentInvocations' = agentInvocations + 1
  /\ Save(agentInvocations + 1, c)
  /\ UNCHANGED <<saved, incrementChain, announced, tracking, budgetFailures>>

(* The claim of the caller whose turn it is: counted and given to the store. *)
Claim(c) ==
  /\ IsFirst(c)
  /\ agentInvocations < MaxAgentInvocations
  /\ Moves(c, "claiming", "saving")
  /\ agentInvocations' = agentInvocations + 1
  /\ Save(agentInvocations + 1, c)
  /\ UNCHANGED <<saved, incrementChain, announced, tracking, budgetFailures>>

(* The budget is exhausted: this claim is rejected, the next one is tried. *)
RejectClaim(c) ==
  /\ IsFirst(c)
  /\ agentInvocations >= MaxAgentInvocations
  /\ Moves(c, "claiming", "idle")
  /\ LeaveChain
  /\ UNCHANGED <<agentInvocations, saved, saveQueue, announced, tracking, budgetFailures>>

(* The saved claim is announced, and the agent is invoked. *)
AnnounceInvocation(c) ==
  /\ Moves(c, "saved", "invoking")
  /\ announced' = Append(announced, agentInvocations)
  /\ LeaveChain
  /\ UNCHANGED <<agentInvocations, saved, saveQueue, tracking, budgetFailures>>

(* afterInvocation adds up what was used and saves. *)
AfterInvocation(c) ==
  /\ Moves(c, "invoking", "reporting")
  /\ Save(agentInvocations, c)
  /\ UNCHANGED <<agentInvocations, saved, incrementChain, announced, tracking, budgetFailures>>

(* A transition, a checkpoint or a quality report of the workflow. *)
WorkflowSaves ==
  /\ tracking
  /\ \A i \in DOMAIN saveQueue : saveQueue[i].by # Workflow
  /\ Save(agentInvocations, Workflow)
  /\ UNCHANGED <<agentInvocations, saved, incrementChain, caller, announced, tracking,
                 budgetFailures>>

-----------------------------------------------------------------------------
(* The first save of the queue is renamed into place. *)
WriteState ==
  /\ saveQueue # <<>>
  /\ saved' = Head(saveQueue).invocations
  /\ saveQueue' = Tail(saveQueue)
  /\ caller' = [c \in Caller |->
                 IF c = Head(saveQueue).by
                   THEN IF caller[c] = "saving" THEN "saved" ELSE "idle"
                   ELSE caller[c]]
  /\ UNCHANGED <<agentInvocations, incrementChain, announced, tracking, budgetFailures>>

(* It fails, before the new file is in place or after: whoever waits for it *)
(* throws, and the later saves are tried.  A rejected claim leaves the count *)
(* as it is and lets the next claim go on.                                  *)
FailSave ==
  /\ saveQueue # <<>>
  /\ budgetFailures < MaxBudgetFailures
  /\ budgetFailures' = budgetFailures + 1
  /\ saved' \in {saved, Head(saveQueue).invocations}
  /\ saveQueue' = Tail(saveQueue)
  /\ caller' = [c \in Caller |-> IF c = Head(saveQueue).by THEN "idle" ELSE caller[c]]
  /\ incrementChain' = IF \E c \in Caller : c = Head(saveQueue).by /\ caller[c] = "saving"
                         THEN Tail(incrementChain) ELSE incrementChain
  /\ UNCHANGED <<agentInvocations, announced, tracking>>

(* The service dies: what was in memory is gone, agents are killed. *)
LoseTracker ==
  /\ tracking
  /\ budgetFailures < MaxBudgetFailures
  /\ budgetFailures' = budgetFailures + 1
  /\ tracking' = FALSE
  /\ saveQueue' = <<>> /\ incrementChain' = <<>>
  /\ caller' = [c \in Caller |-> "idle"]
  /\ agentInvocations' = 0
  /\ UNCHANGED <<saved, announced>>

(* The run is resumed with a new tracker over what was saved. *)
ResumeTracking ==
  /\ ~tracking
  /\ tracking' = TRUE
  /\ agentInvocations' = saved
  /\ UNCHANGED <<saved, saveQueue, incrementChain, caller, announced, budgetFailures>>

BudgetNext ==
  \/ \E c \in Caller : \/ BeforeInvocation(c)
                       \/ Claim(c)
                       \/ RejectClaim(c)
                       \/ AnnounceInvocation(c)
                       \/ AfterInvocation(c)
  \/ WorkflowSaves
  \/ WriteState
  \/ FailSave
  \/ LoseTracker
  \/ ResumeTracking

BudgetSpec == BudgetInit /\ [][BudgetNext]_budgetVars

-----------------------------------------------------------------------------
(* However the invocations of a run overlap, and wherever saves fail and the *)
(* service dies and resumes the run, no two invocations are announced with   *)
(* one number, none lies beyond the limit, and none is missing from the      *)
(* count that a resume would start from.                                     *)
WithinBudget ==
  /\ \A i, j \in DOMAIN announced : i < j => announced[i] < announced[j]
  /\ Len(announced) <= MaxAgentInvocations
  /\ \A i \in DOMAIN announced : announced[i] <= saved
=============================================================================

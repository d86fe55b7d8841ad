---------------------------- MODULE RunLifecycle ----------------------------
(***************************************************************************)
(* The life of one run under the control service: its workflow, the        *)
(* answers to its approvals, its other actions, its publication by the     *)
(* service or by the command line, the death and the restart of the        *)
(* service (src/src/server, src/src/github, src/src/workflow/runner.ts).   *)
(*                                                                         *)
(* A workflow, an action and a command line process each load the run into *)
(* an object of their own, and save the whole object.  The actions of a    *)
(* run wait for each other in a queue; a workflow and a command line       *)
(* process do not.  The statuses during which a workflow executes are one  *)
(* value, "working".                                                       *)
(***************************************************************************)
EXTENDS Naturals, Sequences

CONSTANTS
  Cli,       \* command line processes: agent-team publish, checks, repair, complete
  PlanGate,  \* approvalGates of the strategy has "plan"
  MaxQueued  \* bound on the actions of the run in its queue

ASSUME GateAssumption == PlanGate \in BOOLEAN
ASSUME QueueAssumption == MaxQueued \in Nat \ {0}

VARIABLES
  disk,     \* state.json of the run
  svc,      \* the control service: "up", "closing", "stopping", "down"
  mutation, \* evolutionMutationActive
  wf,       \* where the workflow of the run is: "new" before the start, "off" when it is over
  object,   \* the run as the workflow has it
  abort,    \* why the workflow was aborted, "none" if it was not
  ticketed, \* the workflow is that of a start, which has a ticket to settle
  queue,    \* the actions of the run; the first one executes
  step,     \* where the first action is
  own,      \* the run as the first action has it
  cli       \* the command line processes: command, step, run

service == <<svc, mutation>>
workflow == <<wf, object, abort, ticketed>>
action == <<queue, step, own>>
vars == <<disk, service, workflow, action, cli>>

-----------------------------------------------------------------------------
\* What the gates "plan" and "final" have been answered; a run asks each once.
Answer == {"none", "pending", "approved", "rejected"}
Gate == {"plan", "final"}
PublicationStatus ==
  {"ready-to-merge", "publishing", "waiting-ci", "ci-failed", "repairing", "completed"}
RunStatus ==
  {"working", "awaiting-human", "interrupted", "blocked", "cancelled"} \union PublicationStatus
Stage == {"none", "plan-ready", "task-wave-integrated", "tasks-complete", "local-gates-passed"}
Run ==
  [status : RunStatus, stage : Stage,   \* the latest checkpoint
   plan : Answer, final : Answer,
   published : BOOLEAN]                 \* pullRequestUrl is known
Absent == [status |-> "absent", stage |-> "none", plan |-> "none", final |-> "none",
           published |-> FALSE]

Request ==
  [op : {"approve", "reject"}, gate : Gate]
    \union [op : {"edit", "resume", "publish", "cancel", "delete"}, gate : {"none"}]
Command == {"publish", "checks", "repair", "complete"}
Idle == [command |-> "none", step |-> "off", run |-> Absent]

WorkflowPc ==
  {"new", "create", "plan", "gate", "execute", "final", "approve", "failed", "validateRecovery",
   "validateApproval", "segment", "settle", "remember", "off"}

TypeOK ==
  /\ disk \in Run \union {Absent}
  /\ svc \in {"up", "closing", "stopping", "down"} /\ mutation \in BOOLEAN
  /\ wf \in WorkflowPc /\ object \in Run \union {Absent}
  /\ abort \in {"none", "pause", "cancel", "other"} /\ ticketed \in BOOLEAN
  /\ queue \in Seq(Request) /\ Len(queue) <= MaxQueued
  /\ step \in {"wait", "edit", "record", "settle", "launch", "withdraw", "announce", "push",
               "cancel"}
  /\ own \in Run \union {Absent}
  /\ cli \in [Cli -> [command : Command \union {"none"},
                      step : {"off", "begin", "work", "checks"}, run : Run \union {Absent}]]

Init ==
  /\ disk = Absent
  /\ svc = "up" /\ mutation = FALSE
  /\ wf = "new" /\ object = Absent /\ abort = "none" /\ ticketed = FALSE
  /\ queue = <<>> /\ step = "wait" /\ own = Absent
  /\ cli = [c \in Cli |-> Idle]

\* Mutant of Active: the run leaves the active map before its ticket is settled.
ActiveUntilParked == wf \notin {"new", "off", "settle", "remember"}

\* this.active.has(runId)
Active == wf \notin {"new", "off"}

Save(r) == disk' = r

-----------------------------------------------------------------------------
(***************************************************************************)
(* The workflow, from one save to the next.                                *)
(***************************************************************************)
Work(from, to) ==
  /\ wf = from /\ wf' = to
  /\ UNCHANGED <<service, action, cli, abort, ticketed>>
WorkSaves(r) == object' = r /\ Save(r)
Leave == wf' = "off" /\ object' = Absent /\ abort' = "none" /\ ticketed' = FALSE

\* launch, assertRunStartAllowed
Start ==
  /\ wf = "new" /\ svc = "up" /\ ~ mutation
  /\ wf' = "create" /\ ticketed' = TRUE
  /\ UNCHANGED <<disk, service, object, abort, action, cli>>

\* terminalStatusAfterFailure; the abort reason need not be what is thrown
FailedStatus ==
  CASE abort = "none" -> {"blocked"}
    [] abort = "cancel" -> {"cancelled", "interrupted"}
    [] OTHER -> {"interrupted"}

\* A failure before the first save is saved too.
Create ==
  LET created == [Absent EXCEPT !.status = "working"]
  IN  \/ Work("create", "plan") /\ WorkSaves(created)
      \/ /\ Work("create", "settle")
         /\ \E s \in FailedStatus : WorkSaves([created EXCEPT !.status = s])

\* withNamedTicket: the ticket the start names refuses the run, which leaves no record.
RefuseTicket ==
  /\ Work("create", "settle")
  /\ UNCHANGED <<disk, object>>

Plan ==
  /\ Work("plan", IF PlanGate THEN "gate" ELSE "execute")
  /\ WorkSaves([object EXCEPT !.stage = "plan-ready"])

\* requestApproval
RequestPlanApproval ==
  /\ Work("gate", "segment")
  /\ WorkSaves([object EXCEPT !.plan = "pending", !.status = "awaiting-human"])

\* executeTasks: a checkpoint after each wave, and one when all tasks are complete
Execute ==
  \/ /\ Work("execute", "execute")
     /\ WorkSaves([object EXCEPT !.stage = "task-wave-integrated"])
  \/ /\ Work("execute", "final")
     /\ WorkSaves([object EXCEPT !.stage = "tasks-complete"])

FinalChecks ==
  /\ Work("final", "approve")
  /\ WorkSaves([object EXCEPT !.stage = "local-gates-passed"])

\* approve-final asks once for a checkpoint, of a run that people start: an
\* evaluation run of AutomaticEvolution completes here and is never published.
RequestFinalApproval ==
  /\ Work("approve", "segment")
  /\ WorkSaves(IF object.final # "none" THEN object
               ELSE [object EXCEPT !.final = "pending", !.status = "awaiting-human"])

\* The catch blocks of run and resume.
WorkFails ==
  /\ \E from \in {"plan", "execute", "final"} : Work(from, "failed")
  /\ \E s \in FailedStatus : WorkSaves([object EXCEPT !.status = s])

\* Lessons are extracted and worktrees cleaned, then the object is saved again.
WorkCleans ==
  /\ Work("failed", "segment")
  /\ WorkSaves(object)

\* resume: a refused continuation keeps its status; an exhausted time budget blocks the run.
Validate ==
  /\ wf \in {"validateRecovery", "validateApproval"}
  /\ LET next == CASE object.stage = "local-gates-passed" -> "approve"
                   [] object.stage = "tasks-complete" -> "final"
                   [] OTHER -> "execute"
     IN  \/ /\ wf = "validateApproval" => object.plan = "approved" /\ object.stage = "plan-ready"
            /\ Work(wf, next) /\ WorkSaves([object EXCEPT !.status = "working"])
         \/ Work(wf, "segment") /\ WorkSaves(object)
         \/ /\ Save([object EXCEPT !.status = "blocked"])
            /\ Leave /\ UNCHANGED <<service, action, cli>>

\* recordExecutionSegment: no time to record and a failed save are passed over.
RecordSegment ==
  /\ wf = "segment"
  /\ Save(object) \/ UNCHANGED disk
  /\ IF ticketed THEN wf' = "settle" /\ UNCHANGED <<object, abort, ticketed>> ELSE Leave
  /\ UNCHANGED <<service, action, cli>>

\* settleTicketAssignment loads the run again, waits for the ticket store, and saves it.
SettleTicket ==
  /\ Work("settle", "remember")
  /\ object' = disk /\ UNCHANGED disk

RememberTicket ==
  /\ wf = "remember"
  /\ IF object = Absent THEN UNCHANGED disk ELSE Save(object)
  /\ Leave
  /\ UNCHANGED <<service, action, cli>>

WorkflowStep ==
  \/ Create \/ RefuseTicket \/ Plan \/ RequestPlanApproval \/ Execute \/ FinalChecks \/ RequestFinalApproval
  \/ WorkFails \/ WorkCleans \/ Validate \/ RecordSegment \/ SettleTicket \/ RememberTicket

\* pause and cancel of an active run; the execution deadline
Abort ==
  /\ Active /\ abort = "none"
  /\ abort' \in {"pause", "cancel", "other"}
  /\ UNCHANGED <<disk, service, wf, object, ticketed, action, cli>>

-----------------------------------------------------------------------------
(***************************************************************************)
(* The actions of the run: queueRunAction lets them execute one after the  *)
(* other.  What they check on their first step was not checked when they   *)
(* were queued, except for the state of the service.                       *)
(***************************************************************************)
InactiveCancellable == {"awaiting-human", "interrupted"}
Deletable == {"completed", "cancelled", "blocked", "interrupted"}

\* serializeActions; cancelOwned goes to queueRunAction directly.
Enqueue(r) ==
  /\ IF r.op = "cancel"
     THEN svc # "down" /\ ~ Active /\ disk.status \in InactiveCancellable
     ELSE svc = "up" /\ ~ mutation
  /\ r.gate # "none" => disk[r.gate] # "none"
  /\ Len(queue) < MaxQueued
  /\ queue' = Append(queue, r)
  /\ UNCHANGED <<disk, service, workflow, step, own, cli>>

LatestGate(s) == IF s.final # "none" THEN "final" ELSE "plan"

\* Mutant of CanAnswer: an answered approval is answered again.
CanAnswerAgain(s, gate) == LatestGate(s) = gate /\ ~ Active

\* pendingApproval, approvalReplay; a replay changes nothing.
CanAnswer(s, gate) == LatestGate(s) = gate /\ s[gate] = "pending" /\ ~ Active

CanEdit(s) == LatestGate(s) = "plan" /\ s.plan = "pending" /\ ~ Active

\* Mutant of CanResume: a checkpoint of the plan is recovered without its approval.
CanResumeUnapproved(s) == ~ Active /\ s.status = "interrupted" /\ s.stage # "none"

\* recoverable, assertPlanCheckpointApproved
CanResume(s) ==
  /\ ~ Active
  /\ s.status = "interrupted" /\ s.stage # "none"
  /\ s.stage = "plan-ready" /\ PlanGate => s.plan = "approved"

\* assertPublishable
CanPublish(s) == s.final = "approved" /\ s.status \in {"waiting-ci", "ci-failed", "ready-to-merge"}

CanCancel(s) == s.status \in InactiveCancellable
CanDelete(s) == ~ Active /\ s.status \in Deletable

FirstStep(r) ==
  CASE r.op \in {"approve", "reject"} /\ CanAnswer(disk, r.gate) -> "record"
    [] r.op = "edit" /\ CanEdit(disk) -> "edit"
    [] r.op = "resume" /\ CanResume(disk) -> "launch"
    [] r.op = "publish" /\ CanPublish(disk) -> "announce"
    [] r.op = "cancel" /\ ~ Active /\ CanCancel(disk) -> "cancel"
    [] OTHER -> "wait"

First == Head(queue)
Executes(s) == queue # <<>> /\ step = s
Finish == queue' = Tail(queue) /\ step' = "wait" /\ own' = Absent
Goes(s, r) == step' = s /\ own' = r /\ UNCHANGED queue

\* The action loads the run; a refused one ends here.
BeginAction ==
  /\ Executes("wait")
  /\ First.op = "delete" => ~ CanDelete(disk)
  /\ First.op = "cancel" => ~ Active
  /\ IF FirstStep(First) = "wait" THEN Finish ELSE Goes(FirstStep(First), disk)
  /\ UNCHANGED <<disk, service, workflow, cli>>

\* cancelOwned finds the run active again.
CancelRacing ==
  /\ Executes("wait") /\ First.op = "cancel" /\ Active
  /\ abort' = IF abort = "none" THEN "cancel" ELSE abort
  /\ Finish
  /\ UNCHANGED <<disk, service, wf, object, ticketed, cli>>

\* deleteRun: the directory is renamed away, and back when its events cannot be deleted.
DeleteRun ==
  /\ Executes("wait") /\ First.op = "delete" /\ CanDelete(disk)
  /\ disk' \in {disk, Absent}
  /\ Finish
  /\ UNCHANGED <<service, workflow, cli>>

EditPlan ==
  /\ Executes("edit")
  /\ Save(own) /\ Finish
  /\ UNCHANGED <<service, workflow, cli>>

CancelParked ==
  /\ Executes("cancel")
  /\ Save([own EXCEPT !.status = "cancelled"]) /\ Finish
  /\ UNCHANGED <<service, workflow, cli>>

\* recordApprovalResponse; an answer that comes too late is a rejection by the system.
RecordAnswer ==
  /\ Executes("record")
  /\ LET answers == IF First.op = "approve" THEN {"approved", "rejected"} ELSE {"rejected"}
     IN  \E a \in answers : LET r == [own EXCEPT ![First.gate] = a] IN Save(r) /\ Goes("settle", r)
  /\ UNCHANGED <<service, workflow, cli>>

\* Mutant of SettleAnswer: a rejection is recorded and nothing else.
SettleApproval ==
  /\ Executes("settle")
  /\ LET r == [own EXCEPT !.status = IF own[First.gate] = "rejected" THEN @
                                     ELSE IF First.gate = "final" THEN "ready-to-merge"
                                     ELSE "working"]
     IN  /\ Save(r)
         /\ IF r.status = "working" THEN Goes("launch", r) ELSE Finish
  /\ UNCHANGED <<service, workflow, cli>>

\* settleApproval
SettleAnswer ==
  /\ Executes("settle")
  /\ LET r == [own EXCEPT !.status = IF own[First.gate] = "rejected" THEN "blocked"
                                     ELSE IF First.gate = "final" THEN "ready-to-merge"
                                     ELSE "working"]
     IN  /\ Save(r)
         /\ IF r.status = "working" THEN Goes("launch", r) ELSE Finish
  /\ UNCHANGED <<service, workflow, cli>>

\* assertMandateFor, startContinuation; what it throws interrupts an approved plan again.
Launch ==
  /\ Executes("launch")
  /\ \/ /\ svc = "up" /\ ~ mutation
        /\ wf' = IF First.op = "resume" THEN "validateRecovery" ELSE "validateApproval"
        /\ object' = own /\ abort' = "none" /\ ticketed' = FALSE
        /\ Finish
     \/ /\ IF First.op = "resume" THEN Finish ELSE Goes("withdraw", own)
        /\ UNCHANGED workflow
  /\ UNCHANGED <<disk, service, cli>>

WithdrawContinuation ==
  /\ Executes("withdraw")
  /\ Save([own EXCEPT !.status = "interrupted"]) /\ Finish
  /\ UNCHANGED <<service, workflow, cli>>

-----------------------------------------------------------------------------
(***************************************************************************)
(* Publication and CI, by an action of the service or by the command line, *)
(* whose processes take no lease and no place in the queue.                *)
(***************************************************************************)
Announced(s) == [s EXCEPT !.status = "publishing"]

\* GithubPublisher.publish: a pull request, or a failure before or after it was created.
Pushed(s) ==
  {[s EXCEPT !.published = TRUE, !.status = x] : x \in {"waiting-ci", "ready-to-merge"}}
    \union {[s EXCEPT !.status = "ready-to-merge"]}

\* Mutant of Checked: the summary of the checks is saved as it is.
CheckedVerbatim(s) == {[s EXCEPT !.status = x] : x \in {"pass", "fail", "pending"}}

\* refreshChecks does not look at the status it replaces.
Checked(s) == {[s EXCEPT !.status = x] : x \in {"ready-to-merge", "ci-failed", "waiting-ci"}}

AnnouncePublication ==
  /\ Executes("announce")
  /\ Save(Announced(own)) /\ Goes("push", Announced(own))
  /\ UNCHANGED <<service, workflow, cli>>

PushPublication ==
  /\ Executes("push")
  /\ \E r \in Pushed(own) : Save(r)
  /\ Finish
  /\ UNCHANGED <<service, workflow, cli>>

CliGoes(c, s, r) == cli' = [cli EXCEPT ![c] = [@ EXCEPT !.step = s, !.run = r]]
CliEnds(c) == cli' = [cli EXCEPT ![c] = Idle]
CliAt(c, command, s) == cli[c].command = command /\ cli[c].step = s
SameService == UNCHANGED <<service, workflow, action>>

\* The process loads the run and checks it; what it refuses it does not touch.
CliStart(c) ==
  /\ cli[c] = Idle /\ disk # Absent
  /\ \E command \in Command :
       /\ CASE command = "publish" -> CanPublish(disk)
            [] command = "repair" -> disk.status = "ci-failed" /\ disk.published
            [] OTHER -> disk.published
       /\ cli' = [cli EXCEPT ![c] = [command |-> command, step |-> "begin", run |-> disk]]
  /\ UNCHANGED disk /\ SameService

\* publish, which may go on to wait for the checks
CliPublish(c) ==
  /\ SameService
  /\ \/ /\ CliAt(c, "publish", "begin")
        /\ Save(Announced(cli[c].run)) /\ CliGoes(c, "work", Announced(cli[c].run))
     \/ /\ CliAt(c, "publish", "work")
        /\ \E r \in Pushed(cli[c].run) :
             /\ Save(r)
             /\ \/ CliEnds(c)
                \/ r.status = "waiting-ci" /\ CliGoes(c, "checks", r)

\* refreshChecks, at once or after hours of waiting
CliChecks(c) ==
  /\ CliAt(c, "checks", "begin") \/ CliAt(c, "publish", "checks")
  /\ \E r \in Checked(cli[c].run) : Save(r)
  /\ CliEnds(c) /\ SameService

\* repair; before its try block a failed command leaves the run in repairing
CliRepair(c) ==
  /\ SameService
  /\ LET r == cli[c].run
     IN  \/ /\ CliAt(c, "repair", "begin")
            /\ Save([r EXCEPT !.status = "repairing"])
            /\ \/ CliGoes(c, "work", [r EXCEPT !.status = "repairing"])
               \/ CliEnds(c)
         \/ /\ CliAt(c, "repair", "work")
            /\ \E s \in {"waiting-ci", "ci-failed"} : Save([r EXCEPT !.status = s])
            /\ CliEnds(c)

\* markCompletedIfMerged
CliComplete(c) ==
  /\ CliAt(c, "complete", "begin")
  /\ \/ Save([cli[c].run EXCEPT !.status = "completed"])
     \/ UNCHANGED disk
  /\ CliEnds(c) /\ SameService

\* The process is stopped, or a command it waits for fails.
CliDies(c) ==
  /\ cli[c] # Idle
  /\ CliEnds(c) /\ UNCHANGED disk /\ SameService

-----------------------------------------------------------------------------
(***************************************************************************)
(* The service: mutations of the project, its end, its death, its restart. *)
(***************************************************************************)
\* Mutant of BeginMutation: only workflows are in the way.
BeginMutationBesideActions ==
  /\ svc = "up" /\ ~ mutation
  /\ ~ Active
  /\ mutation' = TRUE
  /\ UNCHANGED <<disk, svc, workflow, action, cli>>

\* beginEvolutionMutation, assertEvolutionQuiescent
BeginMutation ==
  /\ svc = "up" /\ ~ mutation
  /\ ~ Active /\ queue = <<>>
  /\ mutation' = TRUE
  /\ UNCHANGED <<disk, svc, workflow, action, cli>>

EndMutation ==
  /\ mutation
  /\ mutation' = FALSE
  /\ UNCHANGED <<disk, svc, workflow, action, cli>>

\* close: nothing is started any more.
Close ==
  /\ svc = "up" /\ svc' = "closing"
  /\ UNCHANGED <<disk, mutation, workflow, action, cli>>

\* After the mutation and the actions close knew of, the workflow is aborted.
CloseAborts ==
  /\ svc = "closing" /\ ~ mutation
  /\ \A i \in DOMAIN queue : queue[i].op = "cancel"
  /\ svc' = "stopping"
  /\ abort' = IF Active /\ abort = "none" THEN "other" ELSE abort
  /\ UNCHANGED <<disk, mutation, wf, object, ticketed, action, cli>>

Stopped ==
  /\ svc' = "down" /\ mutation' = FALSE
  /\ wf' = (IF wf = "new" THEN "new" ELSE "off") /\ object' = Absent /\ abort' = "none"
  /\ ticketed' = FALSE
  /\ queue' = <<>> /\ step' = "wait" /\ own' = Absent
  /\ UNCHANGED <<disk, cli>>

\* close has waited for the workflows and for nothing else.
Closed == svc = "stopping" /\ ~ Active /\ Stopped

Crash == svc # "down" /\ Stopped

\* Mutant of RecoveredApproved: an approved plan that was not continued is forgotten.
RecoveredFinalOnly(s) ==
  IF LatestGate(s) = "final" THEN [s EXCEPT !.status = "ready-to-merge"] ELSE s

\* Mutant of RecoveredApproved: it does not ask which gate was approved.
RecoveredAnyGate(s) == [s EXCEPT !.status = "ready-to-merge"]

\* reconcileApprovedApproval
RecoveredApproved(s) ==
  CASE LatestGate(s) = "final" -> [s EXCEPT !.status = "ready-to-merge"]
    [] LatestGate(s) = "plan" /\ s.status = "awaiting-human" -> [s EXCEPT !.status = "interrupted"]
    [] OTHER -> s

\* restoreMissingApprovalRequest, if the integration worktree is still that of the checkpoint
MissingGate(s) ==
  CASE s.stage = "plan-ready" /\ PlanGate /\ s.plan = "none" -> "plan"
    [] s.stage = "local-gates-passed" /\ s.final = "none" -> "final"
    [] OTHER -> "none"

(***************************************************************************)
(* reconcileApprovalBoundary: the outcomes for a run found at the start.   *)
(* A pending approval may have expired.  A run is handled there when it    *)
(* was changed; otherwise an active status becomes interrupted.            *)
(***************************************************************************)
AtBoundary(s) ==
  LET gate == MissingGate(s)
      latest == s[LatestGate(s)]
  IN  CASE gate # "none" ->
             {[s EXCEPT ![gate] = "pending", !.status = "awaiting-human"], s}
        [] gate = "none" /\ latest = "pending" ->
             {[s EXCEPT !.status = "awaiting-human"],
              [s EXCEPT ![LatestGate(s)] = "rejected", !.status = "blocked"]}
        [] gate = "none" /\ latest = "rejected" -> {[s EXCEPT !.status = "blocked"]}
        [] gate = "none" /\ latest = "approved" -> {RecoveredApproved(s)}
        [] OTHER -> {s}

ActiveStatus == {"working", "publishing", "waiting-ci", "repairing"}

\* reconcileInterruptedRuns
Reconciled(s) ==
  {IF r = s /\ s.status \in ActiveStatus THEN [s EXCEPT !.status = "interrupted"] ELSE r :
     r \in AtBoundary(s)}

Restart ==
  /\ svc = "down" /\ svc' = "up"
  /\ IF disk = Absent THEN UNCHANGED disk ELSE disk' \in Reconciled(disk)
  /\ UNCHANGED <<mutation, workflow, action, cli>>

-----------------------------------------------------------------------------
ActionStep ==
  \/ BeginAction \/ CancelRacing \/ DeleteRun \/ EditPlan \/ CancelParked \/ RecordAnswer
  \/ SettleAnswer \/ Launch \/ WithdrawContinuation \/ AnnouncePublication \/ PushPublication

CliStep(c) ==
  CliStart(c) \/ CliPublish(c) \/ CliChecks(c) \/ CliRepair(c) \/ CliComplete(c) \/ CliDies(c)

Next ==
  \/ Start \/ WorkflowStep \/ Abort
  \/ \E r \in Request : Enqueue(r)
  \/ ActionStep
  \/ \E c \in Cli : CliStep(c)
  \/ BeginMutation \/ EndMutation \/ Close \/ CloseAborts \/ Closed \/ Crash \/ Restart

Spec == Init /\ [][Next]_vars

(***************************************************************************)
(* The steps of an action that has begun, and of a workflow, end: they run *)
(* under timeouts.  So does the close of the service.  Nothing makes the   *)
(* service start again, or anybody ask for something.                      *)
(***************************************************************************)
FairSpec ==
  /\ Spec
  /\ WF_vars(ActionStep) /\ WF_vars(WorkflowStep)
  /\ WF_vars(EndMutation) /\ WF_vars(CloseAborts \/ Closed)

-----------------------------------------------------------------------------
(***************************************************************************)
(* While an action holds a run it is going to save, no workflow of the run *)
(* executes, nor does one that has ended still have a save to make.        *)
(***************************************************************************)
SingleWriter == step # "wait" => wf \in {"new", "off"}

(***************************************************************************)
(* An answer to an approval stands: no stale save, no second answer and no *)
(* restart takes it back or turns it round.                                *)
(***************************************************************************)
AnswersStand ==
  [][\A gate \in Gate : disk[gate] \in {"approved", "rejected"} =>
       disk'[gate] = disk[gate] \/ disk' = Absent]_vars

\* With a plan gate, tasks execute only under an approved plan, whatever was resumed.
WorkIsApproved ==
  wf \in {"execute", "final", "approve"} /\ PlanGate => object.plan = "approved"

\* What is published, or may be, passed the gates of the run and was approved by a person.
PublishedWasApproved ==
  \A s \in {disk} \union {cli[c].run : c \in Cli} :
    s.published \/ s.status \in PublicationStatus =>
      s.final = "approved" /\ s.stage = "local-gates-passed"

(***************************************************************************)
(* A run that waits for a person can be answered: when nothing is going    *)
(* on, its latest approval is pending.                                     *)
(***************************************************************************)
ParkedIsAnswerable ==
  svc = "up" /\ queue = <<>> /\ ~ Active /\ disk.status = "awaiting-human" =>
    disk[LatestGate(disk)] = "pending"

\* While the project is mutated no workflow executes, and at most a cancel is under way.
NoWorkDuringMutation ==
  mutation => wf \in {"new", "off"} /\ \A i \in DOMAIN queue : queue[i].op = "cancel"

(***************************************************************************)
(* An answer takes effect, across crashes, if the service keeps coming     *)
(* back: the run does not wait for a person for ever.                      *)
(***************************************************************************)
AnswerTakesEffect ==
  []<>(svc = "up") =>
    (disk.status = "awaiting-human" /\ disk[LatestGate(disk)] \in {"approved", "rejected"}
       ~> disk.status # "awaiting-human")

-----------------------------------------------------------------------------
(***************************************************************************)
(* Statements of the repository that the code does not keep.               *)
(***************************************************************************)
(***************************************************************************)
(* docs/configuration.md:457: a parked run that is cancelled moves to the  *)
(* terminal cancelled state.  This is about a service that is running; a   *)
(* restart is the next statement.                                          *)
(***************************************************************************)
CancelledIsTerminal ==
  [][svc = "up" /\ disk.status = "cancelled" => disk'.status \in {"cancelled", "absent"}]_vars

(***************************************************************************)
(* docs/architecture.md:226: a new service instance changes the            *)
(* non-terminal runs of a previous one; a completed run is terminal        *)
(* (run-retention.ts:221).                                                 *)
(***************************************************************************)
RestartKeepsCompleted ==
  [][svc = "down" /\ svc' = "up" /\ disk.status = "completed" => disk'.status = "completed"]_vars
=============================================================================

------------------------------ MODULE RunIntake ------------------------------
(***************************************************************************)
(* How work comes into the control service: triggers of a webhook, start   *)
(* and retry commands that may be delivered twice, the tickets the runs    *)
(* work for and their assignments (authority/, events/store.ts, and the    *)
(* starting half of server/supervisor.ts).  Tickets, claims of commands    *)
(* and run records survive the service; who is active, and what was        *)
(* admitted but not started yet, does not.                                 *)
(*                                                                         *)
(* Nothing in the service ends a ticket, so that a thread has at most the  *)
(* one ticket opened on it, and the thread is its name.                    *)
(***************************************************************************)
EXTENDS Integers, FiniteSets

CONSTANTS
  Trigger, Thread,
  ThreadOf,   \* the primary thread of a trigger
  StartKey, RetryKey, \* idempotency keys such commands come with, or Nothing
  Rest,       \* the statuses a workflow ends with here
  Nothing,
  MaxRuns, MaxDeaths

ASSUME ThreadAssumption == ThreadOf \in [Trigger -> Thread]
ASSUME IntakeAssumption ==
  /\ MaxRuns \in Nat /\ MaxDeaths \in Nat
  /\ Rest \subseteq {"parked", "completed", "blocked", "cancelled", "interrupted"}

Key == (StartKey \union RetryKey) \ {Nothing}

Run == 1..MaxRuns    \* in the order of their start
Ticket == Thread \union Run   \* those of a thread, and those runs open for themselves

Status == {"executing", "interrupted"} \union Rest
StartRequest == [ticketId : Ticket \union {Nothing}, parentRunId : Run \union {Nothing}]
TicketRecord == [triggerIds : SUBSET Trigger, assignments : [Run -> {"none", "running", "ended"}]]
CommandClaim == [hash : Run \union {Nothing}, run : Run]
RunRecord == [status : Status, ticketId : Ticket \union {Nothing}, parentRunId : Run \union {Nothing}]
StartedRun == [start : StartRequest, key : Key \union {Nothing}, trigger : Trigger \union {Nothing}]

ASSUME NothingAssumption ==
  /\ Nothing \notin Trigger \union Thread \union Run
  /\ Nothing \notin TicketRecord \union CommandClaim \union RunRecord \union StartedRun
  /\ Thread \intersect Run = {}

VARIABLES
  tickets,    \* tickets.json
  claims,     \* the table command_idempotency
  record,     \* state.json of each run
  request,    \* what each run was started with; Nothing before that
  workflow,   \* what the service does for each run
  bookkeeping,\* how far the ticket a run opened for itself is recorded
  admitted,   \* triggers that were accepted and whose run is not started yet
  serving,
  deaths

intakeVars == <<tickets, claims, record, request, workflow, bookkeeping, admitted, serving, deaths>>

Retriable == {"blocked", "cancelled", "interrupted"}
Place == {"none", "binding", "executing", "settling", "failing", "settled", "failed", "continuing"}

IntakeTypeOK ==
  /\ tickets \in [Ticket -> {Nothing} \union TicketRecord]
  /\ claims \in [Key -> {Nothing} \union CommandClaim]
  /\ record \in [Run -> {Nothing} \union RunRecord]
  /\ request \in [Run -> {Nothing} \union StartedRun]
  /\ workflow \in [Run -> Place]
  /\ bookkeeping \in [Run -> {"none", "ensure", "attach", "done"}]
  /\ admitted \subseteq Trigger
  /\ serving \in BOOLEAN
  /\ deaths \in 0..MaxDeaths

IntakeInit ==
  /\ tickets = [t \in Ticket |-> Nothing]
  /\ claims = [k \in Key |-> Nothing]
  /\ record = [r \in Run |-> Nothing]
  /\ request = [r \in Run |-> Nothing]
  /\ workflow = [r \in Run |-> "none"]
  /\ bookkeeping = [r \in Run |-> "none"]
  /\ admitted = {}
  /\ serving = TRUE
  /\ deaths = 0

-----------------------------------------------------------------------------
NewTicket(triggers) ==
  [triggerIds |-> triggers, assignments |-> [r \in Run |-> "none"]]

(* acceptTrigger: a trigger joins the ticket of its thread. *)
Accepted(ticket, t) == [ticket EXCEPT !.triggerIds = @ \union {t}]

RunningAssignment(t) == {r \in Run : tickets[t].assignments[r] = "running"}

(* startAssignment and endAssignment. *)
Assigned(t, r) == [tickets EXCEPT ![t].assignments[r] = "running"]
Ended(t, runs) ==
  [tickets EXCEPT ![t].assignments =
     [r \in Run |-> IF r \in runs /\ @[r] = "running" THEN "ended" ELSE @[r]]]

(* The ticket a run works for: the one it was started with, or its own. *)
TicketOf(r) == IF request[r].start.ticketId = Nothing THEN r ELSE request[r].start.ticketId

Active(r) == workflow[r] # "none"

NextRun(r) == r \in Run /\ \A s \in Run : request[s] = Nothing <=> s >= r

(* launch: a run with a ticket binds to it first, another one executes at once *)
(* and has its own ticket recorded beside that.                                *)
Launch(r, start, key, trigger) ==
  /\ NextRun(r)
  /\ request' = [request EXCEPT ![r] = [start |-> start, key |-> key, trigger |-> trigger]]
  /\ workflow' = [workflow EXCEPT ![r] = IF start.ticketId = Nothing THEN "executing" ELSE "binding"]
  /\ bookkeeping' = [bookkeeping EXCEPT ![r] = IF start.ticketId = Nothing THEN "ensure" ELSE "none"]

(* requestHash leaves the ticket out. *)
Hash(start) == start.parentRunId

(* claimStart.  A claimed key replays the answer or refuses the command, and *)
(* a start that throws gives the key back: neither changes anything.         *)
Claimed(key, start, r) ==
  IF key = Nothing
    THEN UNCHANGED claims
    ELSE /\ claims[key] = Nothing
         /\ claims' = [claims EXCEPT ![key] = [hash |-> Hash(start), run |-> r]]

-----------------------------------------------------------------------------
\* Mutant of Admit: a trigger that joins a ticket is not asked whether it is a duplicate.
AdmitDuplicates(t) ==
  LET thread == ThreadOf[t] IN
  /\ serving
  /\ tickets' = [tickets EXCEPT ![thread] =
       IF @ = Nothing THEN NewTicket({t}) ELSE Accepted(@, t)]
  /\ admitted' = admitted \union {t}
  /\ UNCHANGED <<claims, record, request, workflow, bookkeeping, serving, deaths>>

(* TicketService.admit, for a trigger the policy lets through: it joins the *)
(* ticket of its thread or opens one, unless it is a duplicate.             *)
Admit(t) ==
  LET thread == ThreadOf[t] IN
  /\ serving
  /\ tickets[thread] # Nothing => t \notin tickets[thread].triggerIds
  /\ tickets' = [tickets EXCEPT ![thread] =
       IF @ = Nothing THEN NewTicket({t}) ELSE Accepted(@, t)]
  /\ admitted' = admitted \union {t}
  /\ UNCHANGED <<claims, record, request, workflow, bookkeeping, serving, deaths>>

(* admitOne starts a run for the accepted trigger; the start can throw, and *)
(* the trigger is then accepted and has no run.                             *)
StartAdmitted(t, r) ==
  /\ t \in admitted
  /\ admitted' = admitted \ {t}
  /\ Launch(r, [ticketId |-> ThreadOf[t], parentRunId |-> Nothing], Nothing, t)
  /\ UNCHANGED <<tickets, claims, record, serving, deaths>>

StartAdmittedThrows(t) ==
  /\ t \in admitted
  /\ admitted' = admitted \ {t}
  /\ UNCHANGED <<tickets, claims, record, request, workflow, bookkeeping, serving, deaths>>

(* A start command, for a ticket or for none. *)
StartRun(r, key, ticketId) ==
  LET start == [ticketId |-> ticketId, parentRunId |-> Nothing] IN
  /\ serving
  /\ Launch(r, start, key, Nothing)
  /\ Claimed(key, start, r)
  /\ UNCHANGED <<tickets, record, admitted, serving, deaths>>

(* retry: of a run that stopped, for the ticket its record names. *)
RetryRun(source, r, key) ==
  /\ serving
  /\ record[source] # Nothing
  /\ record[source].status \in Retriable
  /\ LET start == [ticketId |-> record[source].ticketId, parentRunId |-> source] IN
       /\ Launch(r, start, key, Nothing)
       /\ Claimed(key, start, r)
  /\ UNCHANGED <<tickets, record, admitted, serving, deaths>>

-----------------------------------------------------------------------------
(* attachRun: the run becomes the assignment of its ticket, and its workflow *)
(* starts; a ticket that is unknown or has a running assignment refuses it.  *)
AttachRun(r) ==
  LET t == request[r].start.ticketId IN
  /\ workflow[r] = "binding"
  /\ tickets[t] # Nothing
  /\ RunningAssignment(t) = {}
  /\ tickets' = Assigned(t, r)
  /\ workflow' = [workflow EXCEPT ![r] = "executing"]
  /\ UNCHANGED <<claims, record, request, bookkeeping, admitted, serving, deaths>>

RefuseRun(r) ==
  LET t == request[r].start.ticketId IN
  /\ workflow[r] = "binding"
  /\ tickets[t] # Nothing => RunningAssignment(t) # {}
  /\ workflow' = [workflow EXCEPT ![r] = "failing"]
  /\ UNCHANGED <<tickets, claims, record, request, bookkeeping, admitted, serving, deaths>>

(* recordLocalTicket: the ticket, then its assignment; an error of either is *)
(* swallowed, and nothing more is recorded.                                  *)
EnsureTicket(r) ==
  /\ bookkeeping[r] = "ensure"
  /\ tickets' = [tickets EXCEPT ![r] = IF @ = Nothing THEN NewTicket({}) ELSE @]
  /\ bookkeeping' = [bookkeeping EXCEPT ![r] = "attach"]
  /\ UNCHANGED <<claims, record, request, workflow, admitted, serving, deaths>>

AttachLocalRun(r) ==
  /\ bookkeeping[r] = "attach"
  /\ tickets' = IF RunningAssignment(r) = {} THEN Assigned(r, r) ELSE tickets
  /\ bookkeeping' = [bookkeeping EXCEPT ![r] = "done"]
  /\ UNCHANGED <<claims, record, request, workflow, admitted, serving, deaths>>

BookkeepingFails(r) ==
  /\ bookkeeping[r] \in {"ensure", "attach"}
  /\ bookkeeping' = [bookkeeping EXCEPT ![r] = "done"]
  /\ UNCHANGED <<tickets, claims, record, request, workflow, admitted, serving, deaths>>

-----------------------------------------------------------------------------
(* The first save of the workflow, its end, and a save that fails: the *)
(* workflow then throws, whether or not it had been saved before.      *)
PersistRun(r) ==
  /\ workflow[r] = "executing"
  /\ record[r] = Nothing
  /\ record' = [record EXCEPT ![r] = [status |-> "executing", ticketId |-> Nothing,
                                      parentRunId |-> request[r].start.parentRunId]]
  /\ UNCHANGED <<tickets, claims, request, workflow, bookkeeping, admitted, serving, deaths>>

EndWorkflow(r, status) ==
  /\ workflow[r] \in {"executing", "continuing"}
  /\ record[r] # Nothing
  /\ record' = [record EXCEPT ![r].status = status]
  /\ workflow' = [workflow EXCEPT ![r] = IF @ = "continuing" THEN "none" ELSE "settling"]
  /\ UNCHANGED <<tickets, claims, request, bookkeeping, admitted, serving, deaths>>

WorkflowThrows(r) ==
  /\ workflow[r] \in {"executing", "continuing"}
  /\ workflow' = [workflow EXCEPT ![r] = IF @ = "continuing" THEN "none" ELSE "failing"]
  /\ UNCHANGED <<tickets, claims, record, request, bookkeeping, admitted, serving, deaths>>

\* Mutant of SettleRun: the running assignment is ended, whichever run it carries.
SettleRunning(r) ==
  /\ workflow[r] \in {"settling", "failing"}
  /\ bookkeeping[r] \in {"none", "done"}
  /\ tickets' = IF tickets[TicketOf(r)] = Nothing THEN tickets ELSE Ended(TicketOf(r), Run)
  /\ workflow' = [workflow EXCEPT ![r] = IF @ = "settling" THEN "settled" ELSE "failed"]
  /\ UNCHANGED <<claims, record, request, bookkeeping, admitted, serving, deaths>>

(* settleRun ends the running assignment of this run, if there is one; the *)
(* ticket a run opened for itself is waited for.  An error of it is        *)
(* swallowed, and the assignment stays running.                            *)
SettleRun(r) ==
  /\ workflow[r] \in {"settling", "failing"}
  /\ bookkeeping[r] \in {"none", "done"}
  /\ \/ tickets[TicketOf(r)] # Nothing /\ tickets' = Ended(TicketOf(r), {r})
     \/ UNCHANGED tickets
  /\ workflow' = [workflow EXCEPT ![r] = IF @ = "settling" THEN "settled" ELSE "failed"]
  /\ UNCHANGED <<claims, record, request, bookkeeping, admitted, serving, deaths>>

(* rememberTicket, whose failed save is swallowed, the release of the       *)
(* command of a run that failed and left no record, and the end of the      *)
(* entry in the map of active runs.                                         *)
Untrack(r) ==
  /\ workflow[r] \in {"settled", "failed"}
  /\ \/ record[r] # Nothing /\ record' = [record EXCEPT ![r].ticketId = TicketOf(r)]
     \/ UNCHANGED record
  /\ claims' = [k \in Key |->
       IF workflow[r] = "failed" /\ record[r] = Nothing /\ request[r].key = k
          /\ claims[k] # Nothing /\ claims[k].hash = Hash(request[r].start)
         THEN Nothing ELSE claims[k]]
  /\ workflow' = [workflow EXCEPT ![r] = "none"]
  /\ UNCHANGED <<tickets, request, bookkeeping, admitted, serving, deaths>>

(* An approval is answered or an interrupted run is resumed: the workflow *)
(* executes again, and no assignment goes with it.                        *)
ContinueRun(r) ==
  /\ serving /\ ~Active(r)
  /\ record[r] # Nothing
  /\ record[r].status \in {"parked", "interrupted"}
  /\ record' = [record EXCEPT ![r].status = "executing"]
  /\ workflow' = [workflow EXCEPT ![r] = "continuing"]
  /\ UNCHANGED <<tickets, claims, request, bookkeeping, admitted, serving, deaths>>

(* deleteRun: of a run at rest that no retained run names as its parent; its *)
(* commands are forgotten with it.                                           *)
DeleteRun(r) ==
  /\ serving /\ ~Active(r)
  /\ record[r] # Nothing
  /\ record[r].status \in Retriable \union {"completed"}
  /\ \A s \in Run : Active(s) => request[s].start.parentRunId # r
  /\ \A s \in Run : record[s] # Nothing => record[s].parentRunId # r
  /\ record' = [record EXCEPT ![r] = Nothing]
  /\ claims' = [k \in Key |-> IF claims[k] # Nothing /\ claims[k].run = r THEN Nothing ELSE claims[k]]
  /\ UNCHANGED <<tickets, request, workflow, bookkeeping, admitted, serving, deaths>>

-----------------------------------------------------------------------------
Die ==
  /\ serving
  /\ deaths < MaxDeaths
  /\ deaths' = deaths + 1
  /\ serving' = FALSE
  /\ workflow' = [r \in Run |-> "none"]
  /\ bookkeeping' = [r \in Run |-> "none"]
  /\ admitted' = {}
  /\ UNCHANGED <<tickets, claims, record, request>>

(* The next service finds the runs that were executing interrupted. *)
ServeAgain ==
  /\ ~serving
  /\ serving' = TRUE
  /\ record' = [r \in Run |->
       IF record[r] # Nothing /\ record[r].status = "executing"
         THEN [record[r] EXCEPT !.status = "interrupted"] ELSE record[r]]
  /\ UNCHANGED <<tickets, claims, request, workflow, bookkeeping, admitted, deaths>>

IntakeNext ==
  \/ \E t \in Trigger : \/ Admit(t)
                        \/ StartAdmittedThrows(t)
                        \/ \E r \in Run : StartAdmitted(t, r)
  \/ \E r \in Run :
       \/ \E key \in StartKey, ticketId \in Thread \union {Nothing} : StartRun(r, key, ticketId)
       \/ \E source \in Run, key \in RetryKey : RetryRun(source, r, key)
       \/ AttachRun(r) \/ RefuseRun(r)
       \/ EnsureTicket(r) \/ AttachLocalRun(r) \/ BookkeepingFails(r)
       \/ PersistRun(r)
       \/ \E status \in Rest : EndWorkflow(r, status)
       \/ WorkflowThrows(r)
       \/ SettleRun(r) \/ Untrack(r)
       \/ ContinueRun(r) \/ DeleteRun(r)
  \/ Die
  \/ ServeAgain

IntakeSpec == IntakeInit /\ [][IntakeNext]_intakeVars

-----------------------------------------------------------------------------
(* A run that executes for a ticket it was started with is the running        *)
(* assignment of that ticket, and the only one, whatever was refused, retried,*)
(* settled late or lost with the service: two runs never work for a ticket    *)
(* at once (continuations, which hold no assignment, apart).                  *)
OneAssignment ==
  /\ \A r \in Run :
       workflow[r] = "executing" /\ request[r].start.ticketId # Nothing
         => tickets[request[r].start.ticketId].assignments[r] = "running"
  /\ \A t \in Ticket : tickets[t] # Nothing => Cardinality(RunningAssignment(t)) <= 1

(* A command delivered again, during or after its execution, after a failure *)
(* or a restart of the service, adds no second run to the recorded ones, and *)
(* an event delivered again starts no second run.                            *)
StartedOnce ==
  \A r, s \in Run :
    /\ record[r] # Nothing /\ record[s] # Nothing /\ request[r].key = request[s].key
         => r = s \/ request[r].key = Nothing
    /\ request[r] # Nothing /\ request[s] # Nothing /\ request[r].trigger = request[s].trigger
         => r = s \/ request[r].trigger = Nothing
=============================================================================

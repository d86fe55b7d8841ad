------------------------ MODULE RunLifecycle_proofs -------------------------
(***************************************************************************)
(* What a run promises under the control service, for any number of        *)
(* command line processes and any length of its queue.                     *)
(***************************************************************************)
EXTENDS RunLifecycle, SequenceTheorems, TLAPS

\* What every copy of the run satisfies, on the disk, in a workflow, an action or a command.
RunInv(s) ==
  /\ s.plan # "none" => PlanGate /\ s.stage # "none"
  /\ s.final # "none" => s.stage = "local-gates-passed"
  /\ s.published \/ s.status \in PublicationStatus => s.final = "approved"
  /\ s.status \in {"working", "interrupted"} => s.final = "none"
  /\ s.status = "awaiting-human" => s.final # "none" \/ (s.plan # "none" /\ s.stage = "plan-ready")
  /\ PlanGate /\ s.stage \notin {"none", "plan-ready"} => s.plan = "approved"

\* A workflow that executes is the only one to hold the run, and has it as it is on the disk.
WorkflowAlone ==
  /\ wf \notin {"new", "off"} => object = disk /\ step = "wait" /\ disk.final # "approved"
  /\ wf = "new" => disk = Absent /\ step = "wait"
  /\ svc = "down" => wf \in {"new", "off"} /\ step = "wait" /\ queue = <<>>

\* What the place of the workflow says of its run.
WorkflowHas ==
  /\ wf \in {"new", "create"} => object = Absent
  /\ wf \in {"plan", "gate", "execute", "final", "approve"} => object # Absent /\ object.status = "working"
  /\ wf \in {"validateRecovery", "validateApproval"} =>
       object # Absent /\ object.status \in {"working", "interrupted"}
  /\ wf \in {"failed", "segment"} => object # Absent
  /\ wf \in {"plan", "gate"} => object.plan = "none"
  /\ wf = "gate" => object.stage = "plan-ready" /\ PlanGate
  /\ wf = "approve" => object.stage = "local-gates-passed"
  /\ wf \in {"execute", "final", "approve", "validateRecovery"} /\ PlanGate =>
       object.plan = "approved"

\* The first action has the answers that are on the disk, and the run if it is not published.
ActionHas ==
  step # "wait" =>
    /\ queue # <<>>
    /\ own # Absent /\ disk # Absent /\ RunInv(own)
    /\ own.plan = disk.plan /\ own.final = disk.final
    /\ own.final # "approved" => own = disk
    /\ step \in {"record", "settle"} => First.gate = LatestGate(own) /\ First.gate \in Gate
    /\ step = "record" => own[First.gate] = "pending"
    /\ step = "settle" => own[First.gate] \in {"approved", "rejected"}
    /\ step \in {"launch", "withdraw"} => own.status \in {"working", "interrupted"}
    /\ step = "launch" /\ First.op = "resume" /\ PlanGate => own.plan = "approved"
    /\ step \in {"announce", "push"} => own.final = "approved"
    /\ step = "edit" => own.final = "none"

\* A command line process has an approved run: no workflow executes beside it.
CommandHas ==
  \A c \in Cli : cli[c] # Idle =>
    /\ wf = "off"
    /\ cli[c].run \in Run /\ cli[c].run.final = "approved" /\ RunInv(cli[c].run)
    /\ disk # Absent => disk.final = "approved" /\ disk.plan = cli[c].run.plan
    /\ \A d \in Cli : cli[d] # Idle => cli[d].run.plan = cli[c].run.plan

\* A run that waits for a person has an open question, but for the moment of its answer.
ParkedIsOpen ==
  svc # "down" /\ disk.status = "awaiting-human" /\ step # "settle" =>
    disk[LatestGate(disk)] = "pending"

LifecycleInv ==
  /\ TypeOK
  /\ RunInv(disk)
  /\ WorkflowAlone
  /\ WorkflowHas
  /\ ActionHas
  /\ CommandHas
  /\ ParkedIsOpen
  /\ NoWorkDuringMutation

-----------------------------------------------------------------------------
(***************************************************************************)
(* Copies of the run.                                                      *)
(***************************************************************************)
LEMMA WithStatus ==
  ASSUME NEW s \in Run, NEW x \in RunStatus
  PROVE  LET r == [s EXCEPT !.status = x]
         IN  /\ r \in Run /\ r.status = x
             /\ r.stage = s.stage /\ r.plan = s.plan /\ r.final = s.final
             /\ r.published = s.published
BY DEF Run

LEMMA WithAnswer ==
  ASSUME NEW s \in Run, NEW gate \in Gate, NEW a \in Answer
  PROVE  LET r == [s EXCEPT ![gate] = a]
         IN  /\ r \in Run /\ r[gate] = a
             /\ r.stage = s.stage /\ r.status = s.status /\ r.published = s.published
             /\ \A g \in Gate : g # gate => r[g] = s[g]
<1>1. CASE gate = "plan"
  BY <1>1 DEF Run, Gate
<1>2. CASE gate = "final"
  BY <1>2 DEF Run, Gate
<1> QED
  BY <1>1, <1>2 DEF Gate

LEMMA AbsentRun ==
  /\ Absent \notin Run /\ RunInv(Absent)
  /\ Absent.status = "absent" /\ Absent.stage = "none" /\ Absent.plan = "none"
  /\ Absent.final = "none" /\ Absent.published = FALSE
BY DEF Absent, Run, RunStatus, PublicationStatus, RunInv

LEMMA ShorterQueue ==
  ASSUME queue \in Seq(Request), queue # <<>>
  PROVE  /\ Head(queue) \in Request
         /\ Tail(queue) \in Seq(Request) /\ Len(Tail(queue)) = Len(queue) - 1
         /\ \A i \in DOMAIN Tail(queue) : i + 1 \in DOMAIN queue /\ Tail(queue)[i] = queue[i + 1]
OBVIOUS

LEMMA LongerQueue ==
  ASSUME queue \in Seq(Request), NEW r \in Request
  PROVE  /\ Append(queue, r) \in Seq(Request) /\ Len(Append(queue, r)) = Len(queue) + 1
         /\ Append(queue, r) # <<>>
         /\ queue # <<>> => Head(Append(queue, r)) = Head(queue)
         /\ \A i \in DOMAIN Append(queue, r) :
              \/ i \in DOMAIN queue /\ Append(queue, r)[i] = queue[i]
              \/ Append(queue, r)[i] = r
<1>1. /\ Append(queue, r) \in Seq(Request) /\ Len(Append(queue, r)) = Len(queue) + 1
      /\ \A i \in 1 .. Len(queue) : Append(queue, r)[i] = queue[i]
      /\ Append(queue, r)[Len(queue) + 1] = r
  BY AppendProperties
<1>2. Append(queue, r) # <<>>
  BY <1>1
<1>3. queue # <<>> => Head(Append(queue, r)) = Head(queue)
  BY <1>1
<1>4. ASSUME NEW i \in DOMAIN Append(queue, r)
      PROVE  \/ i \in DOMAIN queue /\ Append(queue, r)[i] = queue[i]
             \/ Append(queue, r)[i] = r
  BY <1>1, <1>4
<1> QED
  BY <1>1, <1>2, <1>3, <1>4

-----------------------------------------------------------------------------
(***************************************************************************)
(* A step does to the answers only what AnswersStand allows.               *)
(***************************************************************************)
AnswersKept ==
  \A gate \in Gate : disk[gate] \in {"approved", "rejected"} =>
    disk'[gate] = disk[gate] \/ disk' = Absent

LEMMA InitInv == Init => LifecycleInv
<1> SUFFICES ASSUME Init PROVE LifecycleInv
  OBVIOUS
<1> USE DEF Init
<1>1. TypeOK
  <2>1. queue \in Seq(Request) /\ Len(queue) <= MaxQueued
    BY QueueAssumption DEF QueueAssumption
  <2>2. Idle \in [command : Command \union {"none"}, step : {"off", "begin", "work", "checks"},
                  run : Run \union {Absent}]
    BY DEF Idle
  <2> QED
    BY <2>1, <2>2 DEF TypeOK, WorkflowPc
<1>2. RunInv(disk)
  BY AbsentRun
<1>3. WorkflowAlone /\ WorkflowHas /\ ActionHas /\ CommandHas
  BY DEF WorkflowAlone, WorkflowHas, ActionHas, CommandHas
<1>4. ParkedIsOpen
  BY AbsentRun DEF ParkedIsOpen
<1>5. NoWorkDuringMutation
  BY DEF NoWorkDuringMutation
<1> QED
  BY <1>1, <1>2, <1>3, <1>4, <1>5 DEF LifecycleInv

(***************************************************************************)
(* A workflow that executes is alone with the run: what its step leaves    *)
(* has to be checked against the workflow only.                            *)
(***************************************************************************)
LEMMA WorkflowLeaves ==
  ASSUME LifecycleInv, wf \notin {"new", "off"}, UNCHANGED <<service, action, cli>>,
         wf' \in WorkflowPc \ {"new"}, object' \in Run \union {Absent},
         abort' \in {"none", "pause", "cancel", "other"}, ticketed' \in BOOLEAN,
         disk' \in Run \union {Absent}, RunInv(disk'), disk'.final # "approved",
         disk'.status = "awaiting-human" => disk'[LatestGate(disk')] = "pending",
         wf' # "off" => object' = disk', WorkflowHas'
  PROVE  LifecycleInv'
<1> USE DEF LifecycleInv
<1>1. step = "wait" /\ svc # "down" /\ ~ mutation
  BY DEF WorkflowAlone, NoWorkDuringMutation, TypeOK
<1>2. \A c \in Cli : cli[c] = Idle
  BY DEF CommandHas
<1>3. UNCHANGED <<svc, mutation, queue, step, own, cli>>
  BY DEF service, action
<1>4. TypeOK'
  BY <1>3 DEF TypeOK
<1>5. WorkflowAlone'
  BY <1>1, <1>3 DEF WorkflowAlone
<1>6. ActionHas'
  BY <1>1, <1>3 DEF ActionHas
<1>7. CommandHas'
  BY <1>2, <1>3 DEF CommandHas
<1>8. ParkedIsOpen'
  BY DEF ParkedIsOpen
<1>9. NoWorkDuringMutation'
  BY <1>1, <1>3 DEF NoWorkDuringMutation
<1> QED
  BY <1>4, <1>5, <1>6, <1>7, <1>8, <1>9

\* The same for a step that saves the run and goes on.
LEMMA WorkflowSaves ==
  ASSUME LifecycleInv, NEW from \in WorkflowPc \ {"new", "off"}, NEW to \in WorkflowPc \ {"new", "off"},
         NEW r \in Run, Work(from, to), WorkSaves(r),
         RunInv(r), r.final # "approved",
         r.status = "awaiting-human" => r[LatestGate(r)] = "pending",
         \A gate \in Gate : object[gate] \in {"approved", "rejected"} => r[gate] = object[gate],
         WorkflowHas'
  PROVE  LifecycleInv' /\ AnswersKept
<1>1. wf = from /\ wf' = to /\ object' = r /\ disk' = r
  BY DEF Work, WorkSaves, Save
<1>2. object = disk
  BY <1>1 DEF LifecycleInv, WorkflowAlone
<1>3. UNCHANGED <<service, action, cli>> /\ abort' = abort /\ ticketed' = ticketed
  BY DEF Work
<1>4. LifecycleInv'
  BY <1>1, <1>3, WorkflowLeaves DEF LifecycleInv, TypeOK
<1> QED
  BY <1>1, <1>2, <1>4 DEF AnswersKept

LEMMA CreateInv ==
  ASSUME LifecycleInv, Create
  PROVE  LifecycleInv' /\ AnswersKept
<1> DEFINE created == [Absent EXCEPT !.status = "working"]
<1>1. /\ created \in Run /\ created.status = "working" /\ created.stage = "none"
      /\ created.plan = "none" /\ created.final = "none" /\ created.published = FALSE
  BY DEF Absent, Run, RunStatus, Stage, Answer
<1>2. wf = "create" /\ object = Absent
  BY DEF Create, Work, LifecycleInv, WorkflowHas
<1> HIDE DEF created
<1>3. CASE Work("create", "plan") /\ WorkSaves(created)
  <2>1. RunInv(created) /\ created # Absent
    BY <1>1, AbsentRun DEF RunInv, PublicationStatus
  <2>2. WorkflowHas'
    BY <1>3, <1>1, <2>1 DEF Work, WorkSaves, WorkflowHas
  <2> QED
    BY <1>1, <1>2, <1>3, <2>1, <2>2, AbsentRun, WorkflowSaves DEF WorkflowPc, Gate
<1>4. ASSUME NEW s \in FailedStatus, Work("create", "settle"),
             WorkSaves([created EXCEPT !.status = s])
      PROVE  LifecycleInv' /\ AnswersKept
  <2> DEFINE failed == [created EXCEPT !.status = s]
  <2>1. s \in {"blocked", "cancelled", "interrupted"} /\ s \in RunStatus
    BY DEF FailedStatus, RunStatus
  <2>2. /\ failed \in Run /\ failed.status = s /\ failed.stage = "none"
        /\ failed.plan = "none" /\ failed.final = "none" /\ failed.published = FALSE
    BY <1>1, <2>1, WithStatus
  <2>3. WorkSaves(failed)
    BY <1>4
  <2> HIDE DEF failed
  <2>4. RunInv(failed)
    BY <2>1, <2>2 DEF RunInv, PublicationStatus
  <2>5. WorkflowHas'
    BY <1>4 DEF Work, WorkflowHas
  <2> QED
    BY <1>2, <1>4, <2>1, <2>2, <2>3, <2>4, <2>5, AbsentRun, WorkflowSaves DEF WorkflowPc, Gate
<1> QED
  BY <1>3, <1>4 DEF Create, created

\* A run that its ticket refuses is never saved.
LEMMA RefuseTicketInv ==
  ASSUME LifecycleInv, RefuseTicket
  PROVE  LifecycleInv' /\ AnswersKept
<1>1. /\ wf = "create" /\ wf' = "settle" /\ UNCHANGED <<service, action, cli, abort, ticketed, disk, object>>
  BY DEF RefuseTicket, Work
<1>2. object = disk /\ object = Absent
  BY <1>1 DEF LifecycleInv, WorkflowAlone, WorkflowHas
<1>3. abort' \in {"none", "pause", "cancel", "other"} /\ ticketed' \in BOOLEAN
  BY <1>1 DEF LifecycleInv, TypeOK
<1>4. WorkflowHas'
  BY <1>1 DEF WorkflowHas
<1>5. LifecycleInv'
  BY <1>1, <1>2, <1>3, <1>4, AbsentRun, WorkflowLeaves DEF WorkflowPc
<1> QED
  BY <1>1, <1>5 DEF AnswersKept

\* The steps between the plan and the request of the final approval.
LEMMA WorkInv ==
  ASSUME LifecycleInv,
         Plan \/ RequestPlanApproval \/ Execute \/ FinalChecks \/ RequestFinalApproval
  PROVE  LifecycleInv' /\ AnswersKept
<1>1. /\ wf \in {"plan", "gate", "execute", "final", "approve"}
      /\ object \in Run /\ object = disk /\ RunInv(object)
      /\ object.status = "working" /\ object.final = "none"
  BY DEF Plan, RequestPlanApproval, Execute, FinalChecks, RequestFinalApproval, Work,
         LifecycleInv, WorkflowAlone, WorkflowHas, RunInv, TypeOK
<1>2. CASE Plan
  <2> DEFINE r == [object EXCEPT !.stage = "plan-ready"]
  <2>1. object.plan = "none" /\ Work("plan", IF PlanGate THEN "gate" ELSE "execute") /\ WorkSaves(r)
    BY <1>2 DEF Plan, Work, LifecycleInv, WorkflowHas
  <2>2. /\ r \in Run /\ r.status = "working" /\ r.stage = "plan-ready"
        /\ r.plan = "none" /\ r.final = "none" /\ r.published = object.published
    BY <1>1, <2>1 DEF Run, Stage
  <2> HIDE DEF r
  <2>3. RunInv(r) /\ r # Absent
    BY <1>1, <2>2, AbsentRun DEF RunInv, PublicationStatus
  <2>4. WorkflowHas'
    BY <2>1, <2>2, <2>3 DEF Work, WorkSaves, WorkflowHas
  <2> QED
    BY <1>1, <2>1, <2>2, <2>3, <2>4, WorkflowSaves DEF WorkflowPc, Gate
<1>3. CASE RequestPlanApproval
  <2> DEFINE r == [object EXCEPT !.plan = "pending", !.status = "awaiting-human"]
  <2>1. /\ object.plan = "none" /\ object.stage = "plan-ready" /\ PlanGate
        /\ Work("gate", "segment") /\ WorkSaves(r)
    BY <1>3 DEF RequestPlanApproval, Work, LifecycleInv, WorkflowHas
  <2>2. /\ r \in Run /\ r.status = "awaiting-human" /\ r.stage = "plan-ready"
        /\ r.plan = "pending" /\ r.final = "none" /\ r.published = object.published
    BY <1>1, <2>1 DEF Run, Answer, RunStatus
  <2> HIDE DEF r
  <2>3. RunInv(r) /\ r # Absent /\ r[LatestGate(r)] = "pending"
    BY <1>1, <2>1, <2>2, AbsentRun DEF RunInv, PublicationStatus, LatestGate
  <2>4. WorkflowHas'
    BY <2>1, <2>3 DEF Work, WorkSaves, WorkflowHas
  <2> QED
    BY <1>1, <2>1, <2>2, <2>3, <2>4, WorkflowSaves DEF WorkflowPc, Gate
<1>4. CASE Execute
  <2>1. PlanGate => object.plan = "approved"
    BY <1>4 DEF Execute, Work, LifecycleInv, WorkflowHas
  <2>2. PICK to \in {"execute", "final"}, stage \in {"task-wave-integrated", "tasks-complete"} :
          Work("execute", to) /\ WorkSaves([object EXCEPT !.stage = stage])
    BY <1>4 DEF Execute
  <2> DEFINE r == [object EXCEPT !.stage = stage]
  <2>3. /\ r \in Run /\ r.status = "working" /\ r.stage = stage
        /\ r.plan = object.plan /\ r.final = "none" /\ r.published = object.published
    BY <1>1 DEF Run, Stage
  <2>4. WorkSaves(r)
    BY <2>2
  <2> HIDE DEF r
  <2>5. RunInv(r) /\ r # Absent
    BY <1>1, <2>1, <2>3, AbsentRun DEF RunInv, PublicationStatus
  <2>6. WorkflowHas'
    BY <2>1, <2>2, <2>3, <2>4, <2>5 DEF Work, WorkSaves, WorkflowHas
  <2> QED
    BY <1>1, <2>2, <2>3, <2>4, <2>5, <2>6, WorkflowSaves DEF WorkflowPc, Gate
<1>5. CASE FinalChecks
  <2> DEFINE r == [object EXCEPT !.stage = "local-gates-passed"]
  <2>1. /\ PlanGate => object.plan = "approved"
        /\ Work("final", "approve") /\ WorkSaves(r)
    BY <1>5 DEF FinalChecks, Work, LifecycleInv, WorkflowHas
  <2>2. /\ r \in Run /\ r.status = "working" /\ r.stage = "local-gates-passed"
        /\ r.plan = object.plan /\ r.final = "none" /\ r.published = object.published
    BY <1>1 DEF Run, Stage
  <2> HIDE DEF r
  <2>3. RunInv(r) /\ r # Absent
    BY <1>1, <2>1, <2>2, AbsentRun DEF RunInv, PublicationStatus
  <2>4. WorkflowHas'
    BY <2>1, <2>2, <2>3 DEF Work, WorkSaves, WorkflowHas
  <2> QED
    BY <1>1, <2>1, <2>2, <2>3, <2>4, WorkflowSaves DEF WorkflowPc, Gate
<1>6. CASE RequestFinalApproval
  <2> DEFINE r == [object EXCEPT !.final = "pending", !.status = "awaiting-human"]
  <2>1. object.stage = "local-gates-passed" /\ Work("approve", "segment") /\ WorkSaves(r)
    BY <1>1, <1>6 DEF RequestFinalApproval, Work, LifecycleInv, WorkflowHas
  <2>2. /\ r \in Run /\ r.status = "awaiting-human" /\ r.stage = "local-gates-passed"
        /\ r.plan = object.plan /\ r.final = "pending" /\ r.published = object.published
    BY <1>1, <2>1 DEF Run, Answer, RunStatus
  <2> HIDE DEF r
  <2>3. RunInv(r) /\ r # Absent /\ r[LatestGate(r)] = "pending"
    BY <1>1, <2>1, <2>2, AbsentRun DEF RunInv, PublicationStatus, LatestGate
  <2>4. WorkflowHas'
    BY <2>1, <2>3 DEF Work, WorkSaves, WorkflowHas
  <2> QED
    BY <1>1, <2>1, <2>2, <2>3, <2>4, WorkflowSaves DEF WorkflowPc, Gate
<1> QED
  BY <1>2, <1>3, <1>4, <1>5, <1>6

\* The steps that end a workflow: nothing they save is news to the disk but the status.
LEMMA WorkEndsInv ==
  ASSUME LifecycleInv,
         WorkFails \/ WorkCleans \/ RecordSegment \/ SettleTicket \/ RememberTicket
  PROVE  LifecycleInv' /\ AnswersKept
<1>1. /\ wf \in WorkflowPc \ {"new", "off"} /\ object = disk /\ RunInv(object)
      /\ object \in Run \union {Absent} /\ object.final # "approved"
      /\ object.status = "awaiting-human" => object[LatestGate(object)] = "pending"
      /\ abort \in {"none", "pause", "cancel", "other"} /\ ticketed \in BOOLEAN
  BY DEF WorkFails, WorkCleans, RecordSegment, SettleTicket, RememberTicket, Work, WorkflowPc,
         LifecycleInv, WorkflowAlone, ParkedIsOpen, TypeOK
<1>2. CASE WorkFails
  <2>1. PICK from \in {"plan", "execute", "final"}, s \in FailedStatus :
          Work(from, "failed") /\ WorkSaves([object EXCEPT !.status = s])
    BY <1>2 DEF WorkFails
  <2> DEFINE r == [object EXCEPT !.status = s]
  <2>2. object \in Run /\ object.status = "working" /\ object.final = "none"
    BY <1>1, <2>1 DEF Work, LifecycleInv, WorkflowHas, RunInv
  <2>3. s \in {"blocked", "cancelled", "interrupted"} /\ s \in RunStatus
    BY DEF FailedStatus, RunStatus
  <2>4. /\ r \in Run /\ r.status = s /\ r.stage = object.stage
        /\ r.plan = object.plan /\ r.final = "none" /\ r.published = object.published
    BY <2>2, <2>3, WithStatus
  <2>5. WorkSaves(r)
    BY <2>1
  <2> HIDE DEF r
  <2>6. RunInv(r) /\ r # Absent
    BY <1>1, <2>2, <2>3, <2>4, AbsentRun DEF RunInv, PublicationStatus
  <2>7. WorkflowHas'
    BY <2>1, <2>5, <2>6 DEF Work, WorkSaves, WorkflowHas
  <2> QED
    BY <1>1, <2>1, <2>2, <2>3, <2>4, <2>5, <2>6, <2>7, WorkflowSaves DEF WorkflowPc, Gate
<1>3. CASE WorkCleans
  <2>1. object \in Run /\ object # Absent /\ Work("failed", "segment") /\ WorkSaves(object)
    BY <1>1, <1>3, AbsentRun DEF WorkCleans, Work, LifecycleInv, WorkflowHas
  <2>2. WorkflowHas'
    BY <2>1 DEF Work, WorkSaves, WorkflowHas
  <2> QED
    BY <1>1, <2>1, <2>2, WorkflowSaves DEF WorkflowPc
<1>4. CASE RecordSegment
  <2>1. /\ disk' = disk /\ UNCHANGED <<service, action, cli>>
        /\ \/ wf' = "settle" /\ UNCHANGED <<object, abort, ticketed>>
           \/ wf' = "off" /\ object' = Absent /\ abort' = "none" /\ ticketed' = FALSE
    BY <1>1, <1>4 DEF RecordSegment, Save, Leave
  <2>2. WorkflowHas'
    BY <2>1 DEF WorkflowHas
  <2>3. LifecycleInv'
    BY <1>1, <2>1, <2>2, WorkflowLeaves DEF WorkflowPc
  <2> QED
    BY <2>1, <2>3 DEF AnswersKept
<1>5. CASE SettleTicket
  <2>1. /\ disk' = disk /\ UNCHANGED <<service, action, cli>>
        /\ wf' = "remember" /\ object' = disk /\ UNCHANGED <<abort, ticketed>>
    BY <1>5 DEF SettleTicket, Work
  <2>2. WorkflowHas'
    BY <2>1 DEF WorkflowHas
  <2>3. LifecycleInv'
    BY <1>1, <2>1, <2>2, WorkflowLeaves DEF WorkflowPc
  <2> QED
    BY <2>1, <2>3 DEF AnswersKept
<1>6. CASE RememberTicket
  <2>1. /\ disk' = disk /\ UNCHANGED <<service, action, cli>>
        /\ wf' = "off" /\ object' = Absent /\ abort' = "none" /\ ticketed' = FALSE
    BY <1>1, <1>6 DEF RememberTicket, Save, Leave
  <2>2. WorkflowHas'
    BY <2>1 DEF WorkflowHas
  <2>3. LifecycleInv'
    BY <1>1, <2>1, <2>2, WorkflowLeaves DEF WorkflowPc
  <2> QED
    BY <2>1, <2>3 DEF AnswersKept
<1> QED
  BY <1>2, <1>3, <1>4, <1>5, <1>6

\* A continuation goes on only with an approved plan, if the plan needs one.
LEMMA ValidateInv ==
  ASSUME LifecycleInv, Validate
  PROVE  LifecycleInv' /\ AnswersKept
<1>1. /\ wf \in {"validateRecovery", "validateApproval"} /\ object = disk /\ RunInv(object)
      /\ object \in Run /\ object # Absent
      /\ object.status \in {"working", "interrupted"} /\ object.final = "none"
      /\ wf = "validateRecovery" /\ PlanGate => object.plan = "approved"
  BY AbsentRun DEF Validate, LifecycleInv, WorkflowAlone, WorkflowHas, RunInv, TypeOK
<1> DEFINE next == CASE object.stage = "local-gates-passed" -> "approve"
                     [] object.stage = "tasks-complete" -> "final"
                     [] OTHER -> "execute"
           r == [object EXCEPT !.status = "working"]
<1>2. CASE /\ wf = "validateApproval" => object.plan = "approved" /\ object.stage = "plan-ready"
           /\ Work(wf, next) /\ WorkSaves(r)
  <2>1. PlanGate => object.plan = "approved"
    BY <1>1, <1>2
  <2>2. /\ next \in {"approve", "final", "execute"}
        /\ next = "approve" => object.stage = "local-gates-passed"
    OBVIOUS
  <2>3. /\ r \in Run /\ r.status = "working" /\ r.stage = object.stage
        /\ r.plan = object.plan /\ r.final = "none" /\ r.published = object.published
    BY <1>1, WithStatus DEF RunStatus
  <2>4. Work(wf, next) /\ WorkSaves(r)
    BY <1>2
  <2> HIDE DEF r, next
  <2>5. RunInv(r) /\ r # Absent
    BY <1>1, <2>3, AbsentRun DEF RunInv, PublicationStatus
  <2>6. WorkflowHas'
    BY <2>1, <2>2, <2>3, <2>4, <2>5 DEF Work, WorkSaves, WorkflowHas
  <2> QED
    BY <1>1, <2>2, <2>3, <2>4, <2>5, <2>6, WorkflowSaves DEF WorkflowPc, Gate
<1>3. CASE Work(wf, "segment") /\ WorkSaves(object)
  <2>1. WorkflowHas'
    BY <1>1, <1>3 DEF Work, WorkSaves, WorkflowHas
  <2> QED
    BY <1>1, <1>3, <2>1, WorkflowSaves DEF WorkflowPc
<1>4. CASE Save([object EXCEPT !.status = "blocked"]) /\ Leave /\ UNCHANGED <<service, action, cli>>
  <2> DEFINE b == [object EXCEPT !.status = "blocked"]
  <2>1. /\ b \in Run /\ b.status = "blocked" /\ b.stage = object.stage
        /\ b.plan = object.plan /\ b.final = "none" /\ b.published = object.published
    BY <1>1, WithStatus DEF RunStatus
  <2>2. /\ disk' = b /\ wf' = "off" /\ object' = Absent /\ abort' = "none" /\ ticketed' = FALSE
    BY <1>4 DEF Save, Leave
  <2> HIDE DEF b
  <2>3. RunInv(b)
    BY <1>1, <2>1 DEF RunInv, PublicationStatus
  <2>4. WorkflowHas'
    BY <2>2 DEF WorkflowHas
  <2>5. LifecycleInv'
    BY <1>1, <1>4, <2>1, <2>2, <2>3, <2>4, WorkflowLeaves DEF WorkflowPc
  <2> QED
    BY <1>1, <2>1, <2>2, <2>5 DEF AnswersKept, Gate
<1> QED
  BY <1>2, <1>3, <1>4 DEF Validate

-----------------------------------------------------------------------------
(***************************************************************************)
(* A step of the first action.  While one is under way no workflow         *)
(* executes; what it leaves has to agree with the commands.                *)
(***************************************************************************)
LEMMA ActionLeaves ==
  ASSUME LifecycleInv, UNCHANGED <<service, workflow, cli>>, queue # <<>>,
         queue' \in {queue, Tail(queue)},
         step' \in {"wait", "edit", "record", "settle", "launch", "withdraw", "announce", "push",
                    "cancel"},
         own' \in Run \union {Absent}, ActionHas',
         wf = "off" \/ (disk' = disk /\ step' = "wait"),
         disk' \in Run \union {Absent}, RunInv(disk'),
         svc # "down" /\ disk'.status = "awaiting-human" /\ step' # "settle" =>
           disk'[LatestGate(disk')] = "pending",
         \A c \in Cli : cli[c] # Idle /\ disk' # Absent =>
           disk'.final = "approved" /\ disk'.plan = cli[c].run.plan
  PROVE  LifecycleInv'
<1> USE DEF LifecycleInv
<1>1. UNCHANGED <<svc, mutation, wf, object, abort, ticketed, cli>>
  BY DEF service, workflow
<1>2. /\ queue \in Seq(Request) /\ Len(queue) <= MaxQueued
      /\ Tail(queue) \in Seq(Request) /\ Len(Tail(queue)) = Len(queue) - 1
      /\ \A i \in DOMAIN Tail(queue) : i + 1 \in DOMAIN queue /\ Tail(queue)[i] = queue[i + 1]
  BY ShorterQueue DEF TypeOK
<1>3. queue' \in Seq(Request) /\ Len(queue') <= MaxQueued
  BY <1>2, QueueAssumption DEF QueueAssumption
<1>4. TypeOK'
  BY <1>1, <1>3 DEF TypeOK
<1>5. WorkflowAlone'
  <2>1. svc # "down"
    BY DEF WorkflowAlone
  <2> QED
    BY <1>1, <2>1 DEF WorkflowAlone
<1>6. WorkflowHas'
  BY <1>1 DEF WorkflowHas
<1>7. CommandHas'
  BY <1>1 DEF CommandHas
<1>8. ParkedIsOpen'
  BY <1>1 DEF ParkedIsOpen
<1>9. NoWorkDuringMutation'
  BY <1>1, <1>2 DEF NoWorkDuringMutation
<1> QED
  BY <1>4, <1>5, <1>6, <1>7, <1>8, <1>9

\* What is known when an action has begun.
LEMMA ActionUnderWay ==
  ASSUME LifecycleInv, step # "wait"
  PROVE  /\ queue # <<>> /\ First \in Request /\ wf = "off" /\ svc # "down"
         /\ own \in Run /\ disk \in Run /\ RunInv(own)
         /\ own.plan = disk.plan /\ own.final = disk.final
         /\ own.final # "approved" => own = disk
         /\ \A c \in Cli : cli[c] # Idle => own.final = "approved" /\ own.plan = cli[c].run.plan
<1> USE DEF LifecycleInv
<1>1. /\ queue # <<>> /\ own # Absent /\ disk # Absent /\ RunInv(own)
      /\ own.plan = disk.plan /\ own.final = disk.final
      /\ own.final # "approved" => own = disk
  BY DEF ActionHas
<1>2. wf = "off" /\ svc # "down"
  BY <1>1 DEF WorkflowAlone, TypeOK
<1>3. First \in Request
  BY <1>1, ShorterQueue DEF First, TypeOK
<1>4. \A c \in Cli : cli[c] # Idle => own.final = "approved" /\ own.plan = cli[c].run.plan
  BY <1>1 DEF CommandHas
<1> QED
  BY <1>1, <1>2, <1>3, <1>4 DEF TypeOK

LEMMA BeginActionInv ==
  ASSUME LifecycleInv, BeginAction
  PROVE  LifecycleInv' /\ AnswersKept
<1> USE DEF LifecycleInv
<1>1. /\ step = "wait" /\ queue # <<>> /\ disk' = disk /\ UNCHANGED <<service, workflow, cli>>
      /\ disk \in Run \union {Absent} /\ own \in Run \union {Absent} /\ RunInv(disk)
  BY DEF BeginAction, Executes, TypeOK
<1>2. First \in Request
  BY <1>1, ShorterQueue DEF First, TypeOK
<1>3. /\ svc # "down" /\ disk.status = "awaiting-human" => disk[LatestGate(disk)] = "pending"
      /\ \A c \in Cli : cli[c] # Idle /\ disk # Absent =>
           disk.final = "approved" /\ disk.plan = cli[c].run.plan
  BY <1>1 DEF ParkedIsOpen, CommandHas
<1>4. AnswersKept
  BY <1>1 DEF AnswersKept
<1>5. CASE Finish
  <2>1. queue' = Tail(queue) /\ step' = "wait" /\ own' = Absent
    BY <1>5 DEF Finish
  <2>2. ActionHas'
    BY <2>1 DEF ActionHas
  <2> QED
    BY <1>1, <1>3, <1>4, <2>1, <2>2, ActionLeaves
<1>6. CASE FirstStep(First) # "wait" /\ Goes(FirstStep(First), disk)
  <2>1. queue' = queue /\ step' = FirstStep(First) /\ own' = disk /\ First' = First
    BY <1>6 DEF Goes, First
  <2>2. \/ FirstStep(First) = "record" /\ First.op \in {"approve", "reject"} /\ CanAnswer(disk, First.gate)
        \/ FirstStep(First) = "edit" /\ CanEdit(disk)
        \/ FirstStep(First) = "launch" /\ CanResume(disk)
        \/ FirstStep(First) = "announce" /\ CanPublish(disk)
        \/ FirstStep(First) = "cancel" /\ ~ Active /\ CanCancel(disk)
    BY <1>6 DEF FirstStep
  <2>3. disk # Absent
    <3>1. First.op \in {"approve", "reject"} => First.gate \in Gate
      BY <1>2 DEF Request
    <3> QED
      BY <2>2, <3>1, AbsentRun
         DEF CanAnswer, CanEdit, CanResume, CanPublish, CanCancel, InactiveCancellable, Gate
  <2>4. wf \in {"new", "off"}
    BY <2>2 DEF CanAnswer, CanEdit, CanResume, CanPublish, Active, WorkflowAlone
  <2>5. wf = "off" /\ svc # "down"
    <3>1. wf = "off"
      BY <2>3, <2>4 DEF WorkflowAlone
    <3>2. queue # <<>> => svc # "down"
      BY DEF WorkflowAlone
    <3> QED
      BY <3>1, <3>2, <1>1
  <2>6. ActionHas'
    <3>1. /\ FirstStep(First) = "record" =>
               /\ First.gate = LatestGate(disk) /\ First.gate \in Gate
               /\ disk[First.gate] = "pending"
      BY <2>2 DEF CanAnswer, LatestGate, Gate
    <3>2. FirstStep(First) = "edit" => disk.final = "none"
      BY <2>2 DEF CanEdit, LatestGate
    <3>3. FirstStep(First) = "launch" =>
            disk.status = "interrupted" /\ (PlanGate => disk.plan = "approved")
      BY <1>1, <2>2 DEF CanResume, RunInv
    <3>4. FirstStep(First) = "announce" => disk.final = "approved"
      BY <2>2 DEF CanPublish
    <3>5. FirstStep(First) \in {"record", "edit", "launch", "announce", "cancel"}
      BY <2>2
    <3> QED
      BY <1>1, <2>1, <2>3, <3>1, <3>2, <3>3, <3>4, <3>5 DEF ActionHas
  <2> QED
    BY <1>1, <1>3, <1>4, <2>1, <2>2, <2>5, <2>6, ActionLeaves
<1> QED
  BY <1>5, <1>6 DEF BeginAction

\* The same for a step that saves a run, and goes on with it or is the last one.
LEMMA ActionSaves ==
  ASSUME LifecycleInv, step # "wait", UNCHANGED <<service, workflow, cli>>,
         NEW r \in Run, Save(r), RunInv(r),
         \A gate \in Gate : own[gate] \in {"approved", "rejected"} => r[gate] = own[gate],
         own.final = "approved" => r.plan = own.plan,
         r.status = "awaiting-human" /\ step' # "settle" => r[LatestGate(r)] = "pending",
         Finish \/ ((\E s \in {"settle", "launch", "push"} : Goes(s, r)) /\ ActionHas')
  PROVE  LifecycleInv' /\ AnswersKept
<1>1. /\ queue # <<>> /\ wf = "off" /\ own \in Run /\ disk' = r
      /\ own.plan = disk.plan /\ own.final = disk.final
      /\ \A c \in Cli : cli[c] # Idle => own.final = "approved" /\ own.plan = cli[c].run.plan
  BY ActionUnderWay DEF Save
<1>2. /\ queue' \in {queue, Tail(queue)} /\ own' \in {r, Absent}
      /\ step' \in {"wait", "settle", "launch", "push"}
  BY DEF Finish, Goes
<1>3. ActionHas'
  <2>1. CASE Finish
    BY <2>1 DEF Finish, ActionHas
  <2> QED
    BY <2>1
<1>4. \A c \in Cli : cli[c] # Idle => r.final = "approved" /\ r.plan = cli[c].run.plan
  BY <1>1 DEF Gate
<1>5. LifecycleInv'
  BY <1>1, <1>2, <1>3, <1>4, ActionLeaves
<1>6. AnswersKept
  BY <1>1 DEF AnswersKept, Gate
<1> QED
  BY <1>5, <1>6

\* The answer of an action, recorded and then settled.
LEMMA RecordAnswerInv ==
  ASSUME LifecycleInv, RecordAnswer
  PROVE  LifecycleInv' /\ AnswersKept
<1>1. /\ step = "record" /\ queue # <<>> /\ own \in Run /\ RunInv(own)
      /\ First.gate = LatestGate(own) /\ First.gate \in Gate /\ own[First.gate] = "pending"
  BY ActionUnderWay DEF RecordAnswer, Executes, LifecycleInv, ActionHas
<1>2. PICK a \in {"approved", "rejected"} :
        LET r == [own EXCEPT ![First.gate] = a] IN Save(r) /\ Goes("settle", r)
  BY DEF RecordAnswer
<1> DEFINE r == [own EXCEPT ![First.gate] = a]
<1>3. /\ r \in Run /\ r[First.gate] = a /\ r.stage = own.stage /\ r.status = own.status
      /\ r.published = own.published /\ \A g \in Gate : g # First.gate => r[g] = own[g]
  <2>1. CASE First.gate = "plan"
    BY <1>1, <2>1 DEF Run, Gate, Answer
  <2>2. CASE First.gate = "final"
    BY <1>1, <2>2 DEF Run, Gate, Answer
  <2> QED
    BY <1>1, <2>1, <2>2 DEF Gate
<1>4. Save(r) /\ Goes("settle", r)
  BY <1>2
<1> HIDE DEF r
<1>5. CASE First.gate = "plan"
  <2>1. own.plan = "pending" /\ own.final = "none" /\ r.plan = a /\ r.final = "none"
    BY <1>1, <1>3, <1>5 DEF LatestGate, Gate, Run, Answer
  <2> QED
    <3>1. RunInv(r)
      BY <1>1, <1>3, <2>1 DEF RunInv
    <3>2. First' = First /\ r # Absent /\ LatestGate(r) = "plan"
      BY <1>3, <1>4, <2>1, AbsentRun DEF Goes, First, LatestGate
    <3>3. ActionHas'
      BY <1>1, <1>3, <1>4, <1>5, <2>1, <3>1, <3>2 DEF ActionHas, Goes, Save
    <3>4. UNCHANGED <<service, workflow, cli>> /\ step' = "settle"
      BY <1>4 DEF RecordAnswer, Goes
    <3> QED
      BY <1>1, <1>3, <1>4, <2>1, <3>1, <3>3, <3>4, ActionSaves DEF Gate
<1>6. CASE First.gate = "final"
  <2>1. own.final = "pending" /\ r.final = a /\ r.plan = own.plan
    BY <1>1, <1>3, <1>6 DEF Gate
  <2> QED
    <3>1. RunInv(r)
      BY <1>1, <1>3, <2>1 DEF RunInv
    <3>2. First' = First /\ r # Absent /\ LatestGate(r) = "final"
      BY <1>3, <1>4, <2>1, AbsentRun DEF Goes, First, LatestGate
    <3>3. ActionHas'
      BY <1>1, <1>3, <1>4, <1>6, <2>1, <3>1, <3>2 DEF ActionHas, Goes, Save
    <3>4. UNCHANGED <<service, workflow, cli>> /\ step' = "settle"
      BY <1>4 DEF RecordAnswer, Goes
    <3> QED
      BY <1>1, <1>3, <1>4, <2>1, <3>1, <3>3, <3>4, ActionSaves DEF Gate
<1> QED
  BY <1>1, <1>5, <1>6 DEF Gate

LEMMA SettleAnswerInv ==
  ASSUME LifecycleInv, SettleAnswer
  PROVE  LifecycleInv' /\ AnswersKept
<1>1. /\ step = "settle" /\ queue # <<>> /\ own \in Run /\ RunInv(own)
      /\ First.gate = LatestGate(own) /\ First.gate \in Gate
      /\ own[First.gate] \in {"approved", "rejected"}
  BY ActionUnderWay DEF SettleAnswer, Executes, LifecycleInv, ActionHas
<1> DEFINE x == IF own[First.gate] = "rejected" THEN "blocked"
                ELSE IF First.gate = "final" THEN "ready-to-merge"
                ELSE "working"
<1>2. /\ x \in {"blocked", "ready-to-merge", "working"}
      /\ x = "ready-to-merge" => own.final = "approved"
      /\ x = "working" => own.plan = "approved" /\ own.final = "none"
  <2>1. CASE First.gate = "plan"
    BY <1>1, <2>1 DEF LatestGate
  <2>2. CASE First.gate = "final"
    BY <1>1, <2>2
  <2> QED
    BY <1>1, <2>1, <2>2 DEF Gate
<1> HIDE DEF x
<1> DEFINE r == [own EXCEPT !.status = x]
<1>3. /\ r \in Run /\ r.status = x /\ r.stage = own.stage /\ r.plan = own.plan
      /\ r.final = own.final /\ r.published = own.published
  BY <1>1, <1>2, WithStatus DEF RunStatus, PublicationStatus
<1>4. Save(r) /\ UNCHANGED <<service, workflow, cli>>
  BY DEF SettleAnswer, x
<1>5. IF r.status = "working" THEN Goes("launch", r) ELSE Finish
  BY DEF SettleAnswer, x
<1> HIDE DEF r
<1>6. RunInv(r)
  BY <1>1, <1>2, <1>3 DEF RunInv, PublicationStatus
<1>7. CASE r.status = "working"
  <2>1. Goes("launch", r) /\ own.final = "none"
    BY <1>2, <1>3, <1>5, <1>7
  <2>2. ActionHas'
    BY <1>1, <1>2, <1>3, <1>4, <1>6, <1>7, <2>1, AbsentRun DEF ActionHas, Goes, Save
  <2> QED
    BY <1>1, <1>3, <1>4, <1>6, <1>7, <2>1, <2>2, ActionSaves DEF Gate
<1>8. CASE r.status # "working"
  <2>1. Finish
    BY <1>5, <1>8
  <2> QED
    BY <1>1, <1>2, <1>3, <1>4, <1>6, <2>1, ActionSaves DEF Gate
<1> QED
  BY <1>7, <1>8

\* cancelOwned and an active run: the save is left to the workflow.
LEMMA CancelRacingInv ==
  ASSUME LifecycleInv, CancelRacing
  PROVE  LifecycleInv' /\ AnswersKept
<1> USE DEF LifecycleInv
<1>1. /\ queue # <<>> /\ step = "wait" /\ UNCHANGED <<disk, svc, mutation, wf, object, ticketed, cli>>
      /\ queue' = Tail(queue) /\ step' = "wait" /\ own' = Absent
      /\ abort' \in {abort, "cancel"}
  BY DEF CancelRacing, Executes, Finish, service
<1>2. wf \notin {"new", "off"} /\ svc # "down" /\ ~ mutation
  BY DEF CancelRacing, Active, WorkflowAlone, NoWorkDuringMutation, TypeOK
<1>3. queue' \in Seq(Request) /\ Len(queue') <= MaxQueued
  BY <1>1, ShorterQueue, QueueAssumption DEF TypeOK, QueueAssumption
<1>4. TypeOK'
  BY <1>1, <1>3 DEF TypeOK
<1>5. WorkflowAlone' /\ WorkflowHas' /\ ActionHas' /\ CommandHas'
  BY <1>1, <1>2 DEF WorkflowAlone, WorkflowHas, ActionHas, CommandHas
<1>6. ParkedIsOpen' /\ NoWorkDuringMutation' /\ RunInv(disk)'
  BY <1>1, <1>2 DEF ParkedIsOpen, NoWorkDuringMutation
<1>7. AnswersKept
  BY <1>1 DEF AnswersKept
<1> QED
  BY <1>4, <1>5, <1>6, <1>7

LEMMA DeleteRunInv ==
  ASSUME LifecycleInv, DeleteRun
  PROVE  LifecycleInv' /\ AnswersKept
<1> USE DEF LifecycleInv
<1>1. /\ queue # <<>> /\ step = "wait" /\ UNCHANGED <<service, workflow, cli>>
      /\ queue' = Tail(queue) /\ step' = "wait" /\ own' = Absent
      /\ disk' \in {disk, Absent} /\ disk \in Run \union {Absent} /\ RunInv(disk)
  BY DEF DeleteRun, Executes, Finish, TypeOK
<1>2. wf = "off" /\ disk.status # "awaiting-human"
  BY AbsentRun DEF DeleteRun, CanDelete, Active, Deletable, WorkflowAlone
<1>3. ActionHas'
  BY <1>1 DEF ActionHas
<1>4. RunInv(disk') /\ disk'.status # "awaiting-human"
  BY <1>1, <1>2, AbsentRun
<1>5. \A c \in Cli : cli[c] # Idle /\ disk' # Absent =>
        disk'.final = "approved" /\ disk'.plan = cli[c].run.plan
  BY <1>1 DEF CommandHas
<1>6. LifecycleInv'
  BY <1>1, <1>2, <1>3, <1>4, <1>5, ActionLeaves
<1>7. AnswersKept
  BY <1>1 DEF AnswersKept
<1> QED
  BY <1>6, <1>7

\* The last save of an action, or one before the next.
LEMMA ActionEndsInv ==
  ASSUME LifecycleInv,
         EditPlan \/ CancelParked \/ WithdrawContinuation \/ AnnouncePublication \/ PushPublication
  PROVE  LifecycleInv' /\ AnswersKept
<1>1. /\ step # "wait" /\ UNCHANGED <<service, workflow, cli>> /\ own \in Run /\ RunInv(own)
      /\ queue # <<>> /\ (own.final # "approved" => own = disk)
      /\ step = "withdraw" => own.status \in {"working", "interrupted"}
      /\ step \in {"announce", "push"} => own.final = "approved"
      /\ step = "edit" => own.final = "none"
  BY ActionUnderWay DEF EditPlan, CancelParked, WithdrawContinuation, AnnouncePublication,
       PushPublication, Executes, LifecycleInv, ActionHas
<1>2. CASE EditPlan
  <2>1. own.final = "none" /\ Save(own) /\ Finish /\ svc # "down" /\ step = "edit"
    BY <1>1, <1>2, ActionUnderWay DEF EditPlan, Executes
  <2>2. own.status = "awaiting-human" => own[LatestGate(own)] = "pending"
    BY <1>1, <2>1 DEF LifecycleInv, ParkedIsOpen
  <2> QED
    BY <1>1, <2>1, <2>2, ActionSaves
<1>3. CASE CancelParked \/ WithdrawContinuation
  <2>1. PICK x \in {"cancelled", "interrupted"} :
          /\ Save([own EXCEPT !.status = x]) /\ Finish
          /\ x = "interrupted" => own.final = "none"
    BY <1>1, <1>3 DEF CancelParked, WithdrawContinuation, Executes, RunInv
  <2> DEFINE r == [own EXCEPT !.status = x]
  <2>2. /\ r \in Run /\ r.status = x /\ r.stage = own.stage /\ r.plan = own.plan
        /\ r.final = own.final /\ r.published = own.published
    BY <1>1, WithStatus DEF RunStatus
  <2>3. Save(r)
    BY <2>1
  <2> HIDE DEF r
  <2>4. RunInv(r)
    BY <1>1, <2>1, <2>2 DEF RunInv, PublicationStatus
  <2> QED
    BY <1>1, <2>1, <2>2, <2>3, <2>4, ActionSaves DEF Gate
<1>4. CASE AnnouncePublication
  <2> DEFINE r == [own EXCEPT !.status = "publishing"]
  <2>1. /\ r \in Run /\ r.status = "publishing" /\ r.stage = own.stage /\ r.plan = own.plan
        /\ r.final = own.final /\ r.published = own.published
    BY <1>1, WithStatus DEF RunStatus, PublicationStatus
  <2>2. Save(r) /\ Goes("push", r) /\ own.final = "approved"
    BY <1>1, <1>4 DEF AnnouncePublication, Executes, Announced
  <2> HIDE DEF r
  <2>3. RunInv(r) /\ r # Absent
    BY <1>1, <2>1, <2>2, AbsentRun DEF RunInv
  <2>4. ActionHas'
    BY <1>1, <2>1, <2>2, <2>3 DEF ActionHas, Goes, Save
  <2> QED
    BY <1>1, <2>1, <2>2, <2>3, <2>4, ActionSaves DEF Gate
<1>5. CASE PushPublication
  <2>1. PICK r \in Pushed(own) : Save(r)
    BY <1>5 DEF PushPublication
  <2>2. own.final = "approved" /\ Finish
    BY <1>1, <1>5 DEF PushPublication, Executes
  <2>3. /\ r \in Run /\ r.status \in PublicationStatus /\ r.stage = own.stage /\ r.plan = own.plan
        /\ r.final = own.final
    BY <1>1, <2>1, ZenonT(40) DEF Pushed, Run, RunStatus, PublicationStatus
  <2>4. RunInv(r) /\ r.status # "awaiting-human"
    BY <1>1, <2>2, <2>3 DEF RunInv, PublicationStatus
  <2> QED
    BY <1>1, <2>1, <2>2, <2>3, <2>4, ActionSaves DEF Gate
<1> QED
  BY <1>2, <1>3, <1>4, <1>5

\* What an action launches has the run as it is on the disk, and no command beside it.
LEMMA LaunchInv ==
  ASSUME LifecycleInv, Launch
  PROVE  LifecycleInv' /\ AnswersKept
<1> USE DEF LifecycleInv
<1>1. /\ step = "launch" /\ queue # <<>> /\ own \in Run /\ RunInv(own) /\ wf = "off"
      /\ own.status \in {"working", "interrupted"} /\ own.final = "none"
      /\ First.op = "resume" /\ PlanGate => own.plan = "approved"
      /\ own # Absent /\ UNCHANGED <<disk, service, cli>>
  BY ActionUnderWay DEF Launch, Executes, ActionHas, RunInv
<1>2. own = disk /\ \A c \in Cli : cli[c] = Idle
  BY <1>1, ActionUnderWay
<1>3. AnswersKept
  BY <1>1 DEF AnswersKept
<1>4. CASE /\ svc = "up" /\ ~ mutation
           /\ wf' = IF First.op = "resume" THEN "validateRecovery" ELSE "validateApproval"
           /\ object' = own /\ abort' = "none" /\ ticketed' = FALSE
           /\ Finish
  <2>1. /\ queue' = Tail(queue) /\ step' = "wait" /\ own' = Absent
        /\ UNCHANGED <<svc, mutation, disk, cli>>
    BY <1>1, <1>4 DEF Finish, service
  <2>2. queue' \in Seq(Request) /\ Len(queue') <= MaxQueued
    BY <1>1, <2>1, ShorterQueue, QueueAssumption DEF TypeOK, QueueAssumption
  <2>3. TypeOK'
    BY <1>1, <1>4, <2>1, <2>2 DEF TypeOK, WorkflowPc
  <2>4. WorkflowAlone' /\ WorkflowHas' /\ ActionHas' /\ CommandHas'
    BY <1>1, <1>2, <1>4, <2>1 DEF WorkflowAlone, WorkflowHas, ActionHas, CommandHas
  <2>5. ParkedIsOpen' /\ NoWorkDuringMutation' /\ RunInv(disk)'
    BY <1>1, <1>2, <1>4, <2>1 DEF ParkedIsOpen, NoWorkDuringMutation
  <2> QED
    BY <1>3, <2>3, <2>4, <2>5
<1>5. CASE /\ IF First.op = "resume" THEN Finish ELSE Goes("withdraw", own)
           /\ UNCHANGED workflow
  <2>1. /\ queue' \in {queue, Tail(queue)} /\ step' \in {"wait", "withdraw"}
        /\ own' \in {own, Absent} /\ (step' # "wait" => own' = own /\ queue' = queue)
    BY <1>5 DEF Finish, Goes
  <2>2. ActionHas'
    BY <1>1, <1>2, <2>1 DEF ActionHas
  <2>3. LifecycleInv'
    BY <1>1, <1>2, <1>5, <2>1, <2>2, ActionLeaves
  <2> QED
    BY <1>3, <2>3
<1> QED
  BY <1>4, <1>5 DEF Launch

-----------------------------------------------------------------------------
(***************************************************************************)
(* The command line.  What a command saves has the answers of the disk,    *)
(* whatever else of it is out of date.                                     *)
(***************************************************************************)
LEMMA CommandSaves ==
  ASSUME LifecycleInv, NEW c \in Cli, cli[c] # Idle, SameService,
         NEW r \in Run, Save(r), RunInv(r), r.final = "approved", r.plan = cli[c].run.plan,
         r.status # "awaiting-human",
         CliEnds(c) \/ (\E s \in {"work", "checks"} : CliGoes(c, s, r))
  PROVE  LifecycleInv' /\ AnswersKept
<1> USE DEF LifecycleInv
<1>1. /\ UNCHANGED <<svc, mutation, wf, object, abort, ticketed, queue, step, own>>
      /\ disk' = r /\ r # Absent
  BY AbsentRun DEF SameService, service, workflow, action, Save
<1>2. /\ wf = "off" /\ cli[c].run \in Run /\ cli[c].run.final = "approved"
      /\ disk # Absent => disk.final = "approved" /\ disk.plan = r.plan
      /\ \A d \in Cli : cli[d] # Idle => cli[d].run.plan = r.plan
  BY DEF CommandHas
<1>3. PICK e : /\ cli' = [cli EXCEPT ![c] = e]
               /\ e \in [command : Command \union {"none"}, step : {"off", "begin", "work", "checks"},
                         run : Run \union {Absent}]
               /\ e = Idle \/ e.run = r
  <2>1. CASE CliEnds(c)
    BY <2>1 DEF CliEnds, Idle
  <2>2. ASSUME NEW s \in {"work", "checks"}, CliGoes(c, s, r)
        PROVE  LET e == [cli[c] EXCEPT !.step = s, !.run = r]
               IN  /\ cli' = [cli EXCEPT ![c] = e] /\ e.run = r
                   /\ e \in [command : Command \union {"none"}, step : {"off", "begin", "work", "checks"},
                             run : Run \union {Absent}]
    <3>1. cli[c] \in [command : Command \union {"none"}, step : {"off", "begin", "work", "checks"},
                      run : Run \union {Absent}]
      BY DEF TypeOK
    <3>2. cli' = [cli EXCEPT ![c] = [cli[c] EXCEPT !.step = s, !.run = r]]
      BY <2>2 DEF CliGoes
    <3> QED
      BY <3>1, <3>2
  <2> QED
    BY <2>1, <2>2
<1>4. cli' \in [Cli -> [command : Command \union {"none"}, step : {"off", "begin", "work", "checks"},
                        run : Run \union {Absent}]]
  BY <1>3 DEF TypeOK
<1>5. \A d \in Cli : cli'[d] = IF d = c THEN e ELSE cli[d]
  BY <1>3 DEF TypeOK
<1>6. TypeOK'
  BY <1>1, <1>4 DEF TypeOK
<1>7. WorkflowAlone' /\ WorkflowHas'
  BY <1>1, <1>2 DEF WorkflowAlone, WorkflowHas
<1>8. ActionHas'
  BY <1>1, <1>2 DEF ActionHas, First
<1>9. CommandHas'
  BY <1>1, <1>2, <1>3, <1>5 DEF CommandHas
<1>10. ParkedIsOpen' /\ NoWorkDuringMutation' /\ RunInv(disk)'
  BY <1>1 DEF ParkedIsOpen, NoWorkDuringMutation
<1>11. AnswersKept
  BY <1>1, <1>2, AbsentRun DEF AnswersKept, Gate
<1> QED
  BY <1>6, <1>7, <1>8, <1>9, <1>10, <1>11

\* A command that has loaded the run, or ends without a save.
LEMMA CommandLeaves ==
  ASSUME LifecycleInv, NEW c \in Cli, SameService, UNCHANGED disk,
         NEW e \in [command : Command \union {"none"}, step : {"off", "begin", "work", "checks"},
                    run : Run \union {Absent}],
         cli' = [cli EXCEPT ![c] = e],
         e = Idle \/ (e.run = disk /\ disk # Absent /\ disk.final = "approved")
  PROVE  LifecycleInv' /\ AnswersKept
<1> USE DEF LifecycleInv
<1>1. /\ UNCHANGED <<svc, mutation, wf, object, abort, ticketed, queue, step, own, disk>>
  BY DEF SameService, service, workflow, action
<1>2. e # Idle => wf = "off"
  BY DEF WorkflowAlone
<1>3. \A d \in Cli : cli'[d] = IF d = c THEN e ELSE cli[d]
  BY DEF TypeOK
<1>4. TypeOK'
  BY <1>1 DEF TypeOK
<1>5. WorkflowAlone' /\ WorkflowHas' /\ ActionHas'
  BY <1>1 DEF WorkflowAlone, WorkflowHas, ActionHas, First
<1>6. CommandHas'
  <2>1. e # Idle => disk \in Run
    BY DEF TypeOK
  <2> QED
    BY <1>1, <1>2, <1>3, <2>1 DEF CommandHas
<1>7. ParkedIsOpen' /\ NoWorkDuringMutation' /\ RunInv(disk)'
  BY <1>1 DEF ParkedIsOpen, NoWorkDuringMutation
<1>8. AnswersKept
  BY <1>1 DEF AnswersKept
<1> QED
  BY <1>4, <1>5, <1>6, <1>7, <1>8

LEMMA CliInv ==
  ASSUME LifecycleInv, NEW c \in Cli, CliStep(c)
  PROVE  LifecycleInv' /\ AnswersKept
<1> USE DEF LifecycleInv
<1>1. CASE CliStart(c)
  <2>1. PICK command \in Command :
          /\ CASE command = "publish" -> CanPublish(disk)
               [] command = "repair" -> disk.status = "ci-failed" /\ disk.published
               [] OTHER -> disk.published
          /\ cli' = [cli EXCEPT ![c] = [command |-> command, step |-> "begin", run |-> disk]]
    BY <1>1 DEF CliStart
  <2>2. disk # Absent /\ disk.final = "approved" /\ UNCHANGED disk /\ SameService
    BY <1>1, <2>1 DEF CliStart, CanPublish, RunInv, Command
  <2>3. [command |-> command, step |-> "begin", run |-> disk]
          \in [command : Command \union {"none"}, step : {"off", "begin", "work", "checks"},
               run : Run \union {Absent}]
    BY DEF TypeOK
  <2> QED
    BY <2>1, <2>2, <2>3, CommandLeaves
<1>2. CASE CliDies(c) \/ (CliComplete(c) /\ UNCHANGED disk)
  <2>1. Idle \in [command : Command \union {"none"}, step : {"off", "begin", "work", "checks"},
                  run : Run \union {Absent}]
    BY DEF Idle
  <2>2. cli' = [cli EXCEPT ![c] = Idle] /\ UNCHANGED disk /\ SameService
    BY <1>2 DEF CliDies, CliComplete, CliEnds
  <2> QED
    BY <2>1, <2>2, CommandLeaves
<1>3. ASSUME cli[c] # Idle
      PROVE  cli[c].run \in Run /\ cli[c].run.final = "approved" /\ RunInv(cli[c].run)
  BY <1>3 DEF CommandHas
<1>4. ASSUME cli[c] # Idle, SameService, NEW r \in Run, Save(r),
             r.status \in PublicationStatus, r.stage = cli[c].run.stage,
             r.plan = cli[c].run.plan, r.final = cli[c].run.final,
             CliEnds(c) \/ \E s \in {"work", "checks"} : CliGoes(c, s, r)
      PROVE  LifecycleInv' /\ AnswersKept
  <2>1. RunInv(r) /\ r.status # "awaiting-human"
    BY <1>3, <1>4 DEF RunInv, PublicationStatus
  <2> QED
    BY <1>3, <1>4, <2>1, CommandSaves
<1>5. ASSUME NEW command \in Command, NEW s \in {"begin", "work", "checks"}, CliAt(c, command, s)
      PROVE  cli[c] # Idle
  BY <1>5 DEF CliAt, Idle
<1>6. CASE CliPublish(c)
  <2>1. CASE CliAt(c, "publish", "begin") /\ Save(Announced(cli[c].run))
               /\ CliGoes(c, "work", Announced(cli[c].run))
    <3>1. cli[c] # Idle
      BY <1>5, <2>1 DEF Command
    <3>2. LET r == Announced(cli[c].run)
          IN  /\ r \in Run /\ r.status \in PublicationStatus /\ r.stage = cli[c].run.stage
              /\ r.plan = cli[c].run.plan /\ r.final = cli[c].run.final
      BY <1>3, <3>1 DEF Announced, Run, RunStatus, PublicationStatus
    <3> QED
      BY <1>4, <1>6, <2>1, <3>1, <3>2 DEF CliPublish
  <2>2. ASSUME CliAt(c, "publish", "work"), NEW r \in Pushed(cli[c].run), Save(r),
               CliEnds(c) \/ CliGoes(c, "checks", r)
        PROVE  LifecycleInv' /\ AnswersKept
    <3>1. cli[c] # Idle
      BY <1>5, <2>2 DEF Command
    <3>2. /\ r \in Run /\ r.status \in PublicationStatus /\ r.stage = cli[c].run.stage
          /\ r.plan = cli[c].run.plan /\ r.final = cli[c].run.final
      BY <1>3, <3>1 DEF Pushed, Run, RunStatus, PublicationStatus
    <3> QED
      BY <1>4, <1>6, <2>2, <3>1, <3>2 DEF CliPublish
  <2> QED
    BY <1>6, <2>1, <2>2 DEF CliPublish
<1>7. CASE CliChecks(c)
  <2>1. PICK r \in Checked(cli[c].run) : Save(r)
    BY <1>7 DEF CliChecks
  <2>2. cli[c] # Idle /\ SameService /\ CliEnds(c)
    BY <1>5, <1>7 DEF CliChecks, Command
  <2>3. /\ r \in Run /\ r.status \in PublicationStatus /\ r.stage = cli[c].run.stage
        /\ r.plan = cli[c].run.plan /\ r.final = cli[c].run.final
    BY <1>3, <2>1, <2>2 DEF Checked, Run, RunStatus, PublicationStatus
  <2> QED
    BY <1>4, <2>1, <2>2, <2>3
<1>8. CASE CliRepair(c) \/ (CliComplete(c) /\ Save([cli[c].run EXCEPT !.status = "completed"]))
  <2>1. PICK x \in {"repairing", "waiting-ci", "ci-failed", "completed"} :
          /\ Save([cli[c].run EXCEPT !.status = x])
          /\ CliEnds(c) \/ CliGoes(c, "work", [cli[c].run EXCEPT !.status = x])
    BY <1>8 DEF CliRepair, CliComplete
  <2>2. cli[c] # Idle /\ SameService
    BY <1>5, <1>8 DEF CliRepair, CliComplete, Command
  <2> DEFINE r == [cli[c].run EXCEPT !.status = x]
  <2>3. /\ r \in Run /\ r.status \in PublicationStatus /\ r.stage = cli[c].run.stage
        /\ r.plan = cli[c].run.plan /\ r.final = cli[c].run.final
    BY <1>3, <2>2 DEF Run, RunStatus, PublicationStatus
  <2>4. Save(r) /\ (CliEnds(c) \/ \E s \in {"work", "checks"} : CliGoes(c, s, r))
    BY <2>1
  <2> HIDE DEF r
  <2> QED
    BY <1>4, <2>2, <2>3, <2>4
<1> QED
  BY <1>1, <1>2, <1>6, <1>7, <1>8 DEF CliStep, CliComplete

-----------------------------------------------------------------------------
(***************************************************************************)
(* The steps of the service that do not touch the run.                     *)
(***************************************************************************)
LEMMA StartInv ==
  ASSUME LifecycleInv, Start
  PROVE  LifecycleInv' /\ AnswersKept
<1> USE DEF LifecycleInv
<1>1. /\ wf = "new" /\ svc = "up" /\ ~ mutation /\ wf' = "create" /\ ticketed' = TRUE
      /\ UNCHANGED <<disk, svc, mutation, object, abort, queue, step, own, cli>>
  BY DEF Start, service, action
<1>2. disk = Absent /\ step = "wait" /\ \A c \in Cli : cli[c] = Idle
  BY <1>1 DEF WorkflowAlone, CommandHas
<1>3. object = Absent
  BY <1>1 DEF WorkflowHas
<1>4. TypeOK'
  BY <1>1 DEF TypeOK, WorkflowPc
<1>5. WorkflowAlone' /\ WorkflowHas' /\ ActionHas' /\ CommandHas'
  BY <1>1, <1>2, <1>3, AbsentRun DEF WorkflowAlone, WorkflowHas, ActionHas, CommandHas
<1>6. ParkedIsOpen' /\ NoWorkDuringMutation' /\ RunInv(disk)'
  BY <1>1 DEF ParkedIsOpen, NoWorkDuringMutation
<1>7. AnswersKept
  BY <1>1 DEF AnswersKept
<1> QED
  BY <1>4, <1>5, <1>6, <1>7

LEMMA EnqueueInv ==
  ASSUME LifecycleInv, NEW r \in Request, Enqueue(r)
  PROVE  LifecycleInv' /\ AnswersKept
<1> USE DEF LifecycleInv
<1>1. /\ UNCHANGED <<disk, svc, mutation, wf, object, abort, ticketed, step, own, cli>>
      /\ queue' = Append(queue, r) /\ Len(queue) < MaxQueued /\ queue \in Seq(Request)
  BY DEF Enqueue, service, workflow, TypeOK
<1>2. svc # "down" /\ (mutation => r.op = "cancel")
  BY DEF Enqueue
<1>3. /\ queue' \in Seq(Request) /\ Len(queue') <= MaxQueued /\ queue' # <<>>
      /\ queue # <<>> => First' = First
      /\ \A i \in DOMAIN queue' : (i \in DOMAIN queue /\ queue'[i] = queue[i]) \/ queue'[i] = r
  BY <1>1, LongerQueue, QueueAssumption DEF QueueAssumption, First
<1>4. TypeOK'
  BY <1>1, <1>3 DEF TypeOK
<1>5. WorkflowAlone' /\ WorkflowHas' /\ CommandHas'
  BY <1>1, <1>2 DEF WorkflowAlone, WorkflowHas, CommandHas
<1>6. ActionHas'
  BY <1>1, <1>3 DEF ActionHas
<1>7. ParkedIsOpen' /\ RunInv(disk)'
  BY <1>1 DEF ParkedIsOpen
<1>8. NoWorkDuringMutation'
  BY <1>1, <1>2, <1>3 DEF NoWorkDuringMutation
<1>9. AnswersKept
  BY <1>1 DEF AnswersKept
<1> QED
  BY <1>4, <1>5, <1>6, <1>7, <1>8, <1>9

\* The service, its mutations and the abort of the workflow, but for its end and its start.
LEMMA ServiceInv ==
  ASSUME LifecycleInv, Abort \/ BeginMutation \/ EndMutation \/ Close \/ CloseAborts
  PROVE  LifecycleInv' /\ AnswersKept
<1> USE DEF LifecycleInv
<1>1. UNCHANGED <<disk, wf, object, ticketed, queue, step, own, cli>>
  BY DEF Abort, BeginMutation, EndMutation, Close, CloseAborts, service, workflow, action
<1>2. /\ svc' \in {"up", "closing", "stopping", "down"} /\ mutation' \in BOOLEAN
      /\ abort' \in {"none", "pause", "cancel", "other"}
  BY DEF Abort, BeginMutation, EndMutation, Close, CloseAborts, service, workflow, TypeOK
<1>3. svc' = "down" <=> svc = "down"
  BY DEF Abort, BeginMutation, EndMutation, Close, CloseAborts, service
<1>4. TypeOK'
  BY <1>1, <1>2 DEF TypeOK
<1>5. WorkflowAlone' /\ WorkflowHas' /\ CommandHas'
  BY <1>1, <1>3 DEF WorkflowAlone, WorkflowHas, CommandHas
<1>6. ActionHas'
  BY <1>1 DEF ActionHas, First
<1>7. ParkedIsOpen' /\ RunInv(disk)'
  BY <1>1, <1>3 DEF ParkedIsOpen
<1>8. NoWorkDuringMutation'
  <2>1. mutation' => mutation \/ (~ Active /\ queue = <<>>)
    BY DEF Abort, BeginMutation, EndMutation, Close, CloseAborts, service
  <2> QED
    BY <1>1, <2>1 DEF NoWorkDuringMutation, Active
<1>9. AnswersKept
  BY <1>1 DEF AnswersKept
<1> QED
  BY <1>4, <1>5, <1>6, <1>7, <1>8, <1>9

\* The end and the death of the service leave what is on the disk.
LEMMA StoppedInv ==
  ASSUME LifecycleInv, Stopped
  PROVE  LifecycleInv' /\ AnswersKept
<1> USE DEF LifecycleInv
<1>1. /\ svc' = "down" /\ mutation' = FALSE /\ object' = Absent /\ abort' = "none"
      /\ ticketed' = FALSE /\ queue' = <<>> /\ step' = "wait" /\ own' = Absent
      /\ UNCHANGED <<disk, cli>>
      /\ wf' \in {"new", "off"} /\ (wf' = "new" <=> wf = "new")
  BY DEF Stopped
<1>2. TypeOK'
  <2>1. queue' \in Seq(Request) /\ Len(queue') <= MaxQueued
    BY <1>1, QueueAssumption DEF QueueAssumption
  <2> QED
    BY <1>1, <2>1 DEF TypeOK, WorkflowPc
<1>3. WorkflowAlone' /\ WorkflowHas' /\ ActionHas'
  BY <1>1 DEF WorkflowAlone, WorkflowHas, ActionHas
<1>4. CommandHas'
  BY <1>1 DEF CommandHas
<1>5. ParkedIsOpen' /\ RunInv(disk)' /\ NoWorkDuringMutation'
  BY <1>1 DEF ParkedIsOpen, NoWorkDuringMutation
<1>6. AnswersKept
  BY <1>1 DEF AnswersKept
<1> QED
  BY <1>2, <1>3, <1>4, <1>5, <1>6

(***************************************************************************)
(* reconcileInterruptedRuns: whatever it makes of a run, a run that waits  *)
(* for a person then has an open question, and no answer is lost.          *)
(***************************************************************************)
LEMMA ReconciledRun ==
  ASSUME NEW s \in Run, RunInv(s), NEW r \in Reconciled(s)
  PROVE  /\ r \in Run /\ RunInv(r)
         /\ r.status = "awaiting-human" => r[LatestGate(r)] = "pending"
         /\ \A gate \in Gate : s[gate] \in {"approved", "rejected"} => r[gate] = s[gate]
         /\ s.final = "approved" => r.plan = s.plan
<1> DEFINE Good(q) ==
      /\ q \in Run /\ RunInv(q)
      /\ q.status = "awaiting-human" => q[LatestGate(q)] = "pending"
      /\ \A gate \in Gate : s[gate] \in {"approved", "rejected"} => q[gate] = s[gate]
      /\ s.final = "approved" => q.plan = s.plan
<1>1. PICK b \in AtBoundary(s) :
        r = IF b = s /\ s.status \in ActiveStatus THEN [s EXCEPT !.status = "interrupted"] ELSE b
  BY DEF Reconciled
<1>2. /\ s.plan \in Answer /\ s.final \in Answer /\ s.stage \in Stage
      /\ s.final # "none" => s.stage = "local-gates-passed"
      /\ s["plan"] = s.plan /\ s["final"] = s.final
      /\ PlanGate \in BOOLEAN
  BY GateAssumption DEF Run, RunInv, GateAssumption
<1>3. ASSUME NEW x \in {"interrupted", "blocked", "ready-to-merge", "awaiting-human"},
             x = "interrupted" => s.final = "none",
             x = "ready-to-merge" => s.final = "approved",
             x = "awaiting-human" => s[LatestGate(s)] = "pending"
      PROVE  Good([s EXCEPT !.status = x])
  <2> DEFINE q == [s EXCEPT !.status = x]
  <2>1. /\ q \in Run /\ q.status = x /\ q.stage = s.stage /\ q.plan = s.plan /\ q.final = s.final
        /\ q.published = s.published
    BY WithStatus DEF RunStatus, PublicationStatus
  <2> HIDE DEF q
  <2>2. RunInv(q)
    BY <1>2, <1>3, <2>1 DEF RunInv, PublicationStatus, LatestGate, Answer, Stage
  <2>3. q.status = "awaiting-human" => q[LatestGate(q)] = "pending"
    BY <1>3, <2>1 DEF LatestGate
  <2>4. Good(q)
    BY <2>1, <2>2, <2>3 DEF Gate
  <2> QED
    BY <2>4 DEF q
<1>4. ASSUME NEW gate \in Gate, s[gate] \in {"none", "pending"}, NEW a \in {"pending", "rejected"},
             NEW x \in {"awaiting-human", "blocked"},
             gate = "plan" => PlanGate /\ s.stage = "plan-ready",
             gate = "final" => s.stage = "local-gates-passed",
             x = "awaiting-human" => a = "pending"
      PROVE  Good([s EXCEPT ![gate] = a, !.status = x])
  <2> DEFINE q == [s EXCEPT ![gate] = a, !.status = x]
  <2>1. CASE gate = "plan"
    <3>1. /\ q \in Run /\ q.status = x /\ q.stage = s.stage /\ q.plan = a /\ q.final = s.final
          /\ q.published = s.published
      BY <2>1 DEF Run, Answer, RunStatus
    <3> HIDE DEF q
    <3>2. s.final = "none" /\ s.plan # "approved" /\ s.plan # "rejected"
      BY <1>2, <1>4, <2>1
    <3>3. RunInv(q) /\ LatestGate(q) = "plan"
      BY <1>4, <2>1, <3>1, <3>2 DEF RunInv, PublicationStatus, LatestGate
    <3>4. Good(q)
      BY <1>4, <3>1, <3>2, <3>3 DEF Gate
    <3> QED
      BY <3>4 DEF q
  <2>2. CASE gate = "final"
    <3>1. /\ q \in Run /\ q.status = x /\ q.stage = s.stage /\ q.plan = s.plan /\ q.final = a
          /\ q.published = s.published
      BY <2>2 DEF Run, Answer, RunStatus
    <3> HIDE DEF q
    <3>2. s.final # "approved" /\ s.final # "rejected"
      BY <1>2, <1>4, <2>2
    <3>3. RunInv(q) /\ LatestGate(q) = "final"
      BY <1>4, <2>2, <3>1, <3>2 DEF RunInv, PublicationStatus, LatestGate
    <3>4. Good(q)
      BY <1>4, <3>1, <3>2, <3>3 DEF Gate
    <3> QED
      BY <3>4 DEF q
  <2> QED
    BY <2>1, <2>2 DEF Gate
<1>5. s.status # "awaiting-human" => Good(s)
  OBVIOUS
<1> HIDE DEF Good
<1>6. CASE MissingGate(s) \in Gate
  <2>1. /\ s.final = "none" /\ s.status # "awaiting-human"
        /\ s[MissingGate(s)] = "none"
        /\ MissingGate(s) = "plan" => PlanGate /\ s.stage = "plan-ready"
        /\ MissingGate(s) = "final" => s.stage = "local-gates-passed"
    BY <1>2, <1>6 DEF MissingGate, RunInv, Gate
  <2>2. b \in {[s EXCEPT ![MissingGate(s)] = "pending", !.status = "awaiting-human"], s}
    BY <1>6 DEF AtBoundary, Gate
  <2>3. Good([s EXCEPT ![MissingGate(s)] = "pending", !.status = "awaiting-human"])
    BY <1>4, <1>6, <2>1
  <2>4. Good(s) /\ Good([s EXCEPT !.status = "interrupted"])
    BY <1>3, <1>5, <2>1
  <2> QED
    BY <1>1, <2>2, <2>3, <2>4 DEF Good
<1>7. CASE MissingGate(s) = "none" /\ s[LatestGate(s)] = "pending"
  <2>1. /\ LatestGate(s) \in Gate
        /\ LatestGate(s) = "plan" => PlanGate /\ s.stage = "plan-ready"
        /\ LatestGate(s) = "final" => s.stage = "local-gates-passed"
    BY <1>2, <1>7 DEF LatestGate, Gate, RunInv, Stage
  <2>2. b \in {[s EXCEPT !.status = "awaiting-human"],
               [s EXCEPT ![LatestGate(s)] = "rejected", !.status = "blocked"]}
    BY <1>7 DEF AtBoundary
  <2>3. Good(b)
    BY <1>3, <1>4, <1>7, <2>1, <2>2
  <2>4. b.status \in {"awaiting-human", "blocked"}
    BY <2>1, <2>2 DEF Run, Gate
  <2> QED
    BY <1>1, <2>3, <2>4 DEF Good, ActiveStatus
<1>8. CASE MissingGate(s) = "none" /\ s[LatestGate(s)] = "rejected"
  <2>1. b = [s EXCEPT !.status = "blocked"]
    BY <1>8 DEF AtBoundary
  <2>2. Good(b) /\ b.status = "blocked"
    BY <1>3, <2>1 DEF Run
  <2> QED
    BY <1>1, <2>2 DEF Good, ActiveStatus
<1>9. CASE MissingGate(s) = "none" /\ s[LatestGate(s)] = "approved"
  <2>1. b = RecoveredApproved(s)
    BY <1>9 DEF AtBoundary
  <2>2. CASE s.final = "approved"
    <3>1. b = [s EXCEPT !.status = "ready-to-merge"]
      BY <2>1, <2>2 DEF RecoveredApproved, LatestGate
    <3>2. Good(b) /\ b.status = "ready-to-merge"
      BY <1>3, <2>2, <3>1 DEF Run
    <3> QED
      BY <1>1, <3>2 DEF Good, ActiveStatus
  <2>3. CASE s.final = "none"
    <3>1. LatestGate(s) = "plan" /\ Good([s EXCEPT !.status = "interrupted"])
      BY <1>3, <2>3 DEF LatestGate
    <3>2. CASE s.status = "awaiting-human"
      <4>1. b = [s EXCEPT !.status = "interrupted"] /\ s.status \notin ActiveStatus
        BY <2>1, <3>1, <3>2 DEF RecoveredApproved, ActiveStatus
      <4> QED
        BY <1>1, <3>1, <4>1 DEF Good
    <3>3. CASE s.status # "awaiting-human"
      <4>1. b = s /\ Good(s)
        BY <1>5, <2>1, <3>1, <3>3 DEF RecoveredApproved
      <4> QED
        BY <1>1, <3>1, <4>1 DEF Good
    <3> QED
      BY <3>2, <3>3
  <2> QED
    BY <1>2, <1>9, <2>2, <2>3 DEF LatestGate, Answer
<1>10. CASE MissingGate(s) = "none" /\ s[LatestGate(s)] = "none"
  <2>1. b = s /\ s.final = "none" /\ s.status # "awaiting-human"
    BY <1>2, <1>10 DEF AtBoundary, LatestGate, RunInv
  <2>2. Good(s) /\ Good([s EXCEPT !.status = "interrupted"])
    BY <1>3, <1>5, <2>1
  <2> QED
    BY <1>1, <2>1, <2>2 DEF Good
<1>11. /\ MissingGate(s) \in Gate \union {"none"}
       /\ s[LatestGate(s)] \in Answer
  BY <1>2 DEF MissingGate, Gate, LatestGate
<1> QED
  BY <1>6, <1>7, <1>8, <1>9, <1>10, <1>11 DEF Answer

LEMMA RestartInv ==
  ASSUME LifecycleInv, Restart
  PROVE  LifecycleInv' /\ AnswersKept
<1> USE DEF LifecycleInv
<1>1. /\ svc = "down" /\ svc' = "up" /\ step = "wait" /\ wf \in {"new", "off"}
      /\ UNCHANGED <<mutation, wf, object, abort, ticketed, queue, step, own, cli>>
      /\ disk = Absent \/ disk \in Run
      /\ wf = "new" => disk = Absent
  BY DEF Restart, workflow, action, WorkflowAlone, TypeOK
<1>2. /\ disk' \in Run \union {Absent} /\ (disk = Absent <=> disk' = Absent) /\ RunInv(disk')
      /\ disk'.status = "awaiting-human" => disk'[LatestGate(disk')] = "pending"
      /\ \A gate \in Gate : disk[gate] \in {"approved", "rejected"} => disk'[gate] = disk[gate]
      /\ disk.final = "approved" => disk'.plan = disk.plan
  <2>1. CASE disk = Absent
    BY <2>1, AbsentRun DEF Restart
  <2>2. CASE disk \in Run
    <3>1. disk' \in Reconciled(disk) /\ RunInv(disk) /\ disk # Absent
      BY <2>2, AbsentRun DEF Restart
    <3> QED
      BY <2>2, <3>1, ReconciledRun, AbsentRun
  <2> QED
    BY <1>1, <2>1, <2>2
<1>3. TypeOK'
  BY <1>1, <1>2 DEF TypeOK
<1>4. WorkflowAlone' /\ WorkflowHas' /\ ActionHas'
  BY <1>1, <1>2 DEF WorkflowAlone, WorkflowHas, ActionHas
<1>5. CommandHas'
  <2>1. "final" \in Gate /\ (disk.final = "approved" => disk'.final = "approved")
    BY <1>2 DEF Gate
  <2> QED
    BY <1>1, <1>2, <2>1 DEF CommandHas
<1>6. ParkedIsOpen' /\ NoWorkDuringMutation' /\ RunInv(disk)'
  BY <1>1, <1>2 DEF ParkedIsOpen, NoWorkDuringMutation
<1>7. AnswersKept
  BY <1>2 DEF AnswersKept
<1> QED
  BY <1>3, <1>4, <1>5, <1>6, <1>7

-----------------------------------------------------------------------------
LEMMA StepInv ==
  ASSUME LifecycleInv, [Next]_vars
  PROVE  LifecycleInv' /\ (AnswersKept \/ UNCHANGED vars)
<1>1. CASE UNCHANGED vars
  <2>1. UNCHANGED <<disk, svc, mutation, wf, object, abort, ticketed, queue, step, own, cli>>
    BY <1>1 DEF vars, service, workflow, action
  <2> QED
    BY <1>1, <2>1 DEF LifecycleInv, TypeOK, WorkflowAlone, WorkflowHas, ActionHas, First, CommandHas,
                      ParkedIsOpen, NoWorkDuringMutation
<1>2. CASE WorkflowStep
  BY <1>2, CreateInv, RefuseTicketInv, WorkInv, WorkEndsInv, ValidateInv DEF WorkflowStep
<1>3. CASE ActionStep
  BY <1>3, BeginActionInv, CancelRacingInv, DeleteRunInv, RecordAnswerInv, SettleAnswerInv,
     LaunchInv, ActionEndsInv DEF ActionStep
<1>4. CASE \E c \in Cli : CliStep(c)
  BY <1>4, CliInv
<1>5. CASE Start \/ (\E r \in Request : Enqueue(r)) \/ Restart
  BY <1>5, StartInv, EnqueueInv, RestartInv
<1>6. CASE Abort \/ BeginMutation \/ EndMutation \/ Close \/ CloseAborts
  BY <1>6, ServiceInv
<1>7. CASE Closed \/ Crash
  BY <1>7, StoppedInv DEF Closed, Crash
<1> QED
  BY <1>1, <1>2, <1>3, <1>4, <1>5, <1>6, <1>7 DEF Next

(***************************************************************************)
(* Every reachable state of a run and of the service satisfies the         *)
(* inductive invariant.                                                    *)
(***************************************************************************)
THEOREM Invariance == Spec => []LifecycleInv
BY InitInv, StepInv, PTL DEF Spec

(***************************************************************************)
(* The run on the disk, the three kinds of copies of it and the queue of   *)
(* its actions keep their shape (state.json, RunState, serializeActions).  *)
(***************************************************************************)
THEOREM TypeCorrect == Spec => []TypeOK
<1>1. LifecycleInv => TypeOK
  BY DEF LifecycleInv
<1> QED
  BY <1>1, Invariance, PTL

(***************************************************************************)
(* An action that holds the run to save it and a workflow that executes    *)
(* exclude each other: queueRunAction, this.active and the checks of       *)
(* answer, resume and cancel are enough, whatever the command line does.   *)
(***************************************************************************)
THEOREM OneWriter == Spec => []SingleWriter
<1>1. LifecycleInv => SingleWriter
  BY DEF LifecycleInv, SingleWriter, WorkflowAlone
<1> QED
  BY <1>1, Invariance, PTL

(***************************************************************************)
(* With a plan gate no task executes before the plan is approved: neither  *)
(* a resume, nor a continuation, nor a restart goes round the gate.        *)
(***************************************************************************)
THEOREM ApprovedWork == Spec => []WorkIsApproved
<1>1. LifecycleInv => WorkIsApproved
  BY DEF LifecycleInv, WorkIsApproved, WorkflowHas
<1> QED
  BY <1>1, Invariance, PTL

(***************************************************************************)
(* Nothing is published, or may be, by the service or by any number of     *)
(* command line processes, that did not pass the gates of the run and was  *)
(* not approved by a person (assertPublishable).                           *)
(***************************************************************************)
THEOREM ApprovedPublication == Spec => []PublishedWasApproved
<1>1. LifecycleInv => PublishedWasApproved
  <2> SUFFICES ASSUME LifecycleInv, NEW s \in {disk} \union {cli[c].run : c \in Cli},
                      s.published \/ s.status \in PublicationStatus
               PROVE  s.final = "approved" /\ s.stage = "local-gates-passed"
    BY DEF PublishedWasApproved
  <2>1. RunInv(s)
    <3>1. CASE s = disk
      BY <3>1 DEF LifecycleInv
    <3>2. ASSUME NEW c \in Cli, s = cli[c].run
          PROVE  RunInv(s)
      <4>1. cli[c] = Idle => cli[c].run = Absent
        BY DEF Idle
      <4> QED
        BY <3>2, <4>1, AbsentRun DEF LifecycleInv, CommandHas
    <3> QED
      BY <3>1, <3>2
  <2> QED
    BY <2>1 DEF RunInv
<1> QED
  BY <1>1, Invariance, PTL

(***************************************************************************)
(* A run that waits for a person, when nothing is going on, has an open    *)
(* question: it can be answered (reconcileApprovalBoundary restores what   *)
(* a crash has left between two saves).                                    *)
(***************************************************************************)
THEOREM AnswerableParking == Spec => []ParkedIsAnswerable
<1>1. LifecycleInv => ParkedIsAnswerable
  BY DEF LifecycleInv, ParkedIsAnswerable, ParkedIsOpen, ActionHas
<1> QED
  BY <1>1, Invariance, PTL

\* assertEvolutionQuiescent: a mutation of the project finds no workflow, and lets none start.
THEOREM QuietMutation == Spec => []NoWorkDuringMutation
<1>1. LifecycleInv => NoWorkDuringMutation
  BY DEF LifecycleInv
<1> QED
  BY <1>1, Invariance, PTL

(***************************************************************************)
(* No stale copy of the run, no second answer and no restart takes an      *)
(* answer back or turns it round (approvalReplay, pendingApproval).        *)
(***************************************************************************)
THEOREM StandingAnswers == Spec => AnswersStand
<1>1. LifecycleInv /\ [Next]_vars =>
        [\A gate \in Gate : disk[gate] \in {"approved", "rejected"} =>
           disk'[gate] = disk[gate] \/ disk' = Absent]_vars
  BY StepInv DEF AnswersKept
<1> QED
  BY <1>1, Invariance, PTL DEF Spec, AnswersStand

=============================================================================

# A verification development for local-dev-agent-team

This directory holds TLA+ models of the parts of the repository whose behaviour
depends on orderings, failures and restarts, the TLC configurations that check
them on small instances, and proofs, checked by TLAPS, of what they promise for
every instance. All source paths are below `src/`, unless they start with
`docs/` or `README`.

## 1. The system

A control service works on one repository and one state root. A run takes a
goal, has agents plan it into tasks, executes the tasks in git worktrees of
their own, merges them into an integration branch, checks the result, asks a
person for approval, and publishes a pull request. The same run can be driven
by the service (`server/`) and by the command line (`cli.ts`), which share
nothing but the files of the state root and the git repository.

| Component | State | Operations | What makes it correct |
| --- | --- | --- | --- |
| control lease (`server/lease.ts`) | `control.lock`, `control.lock.reclaim` | acquire, judge, reclaim, release | one service per state root, whoever died before |
| task plan (`domain/plan.ts`) | none | `selectTaskWave` | tasks that run together depend on nothing unmerged and touch disjoint paths |
| scheduler, task attempts (`workflow/scheduler.ts`, `task-attempt.ts`) | `RunState` in memory, worktrees, branches | waves, worker, gates, review, commit, merge | the integration branch, the checkpoints and `state.json` agree at every stop |
| checkpoints, recovery (`workflow/checkpoints.ts`, `cleanup.ts`, `runner.ts`) | checkpoint of the run | record, validate, reconcile, reset, continue | a resume is never refused for what the workflow left, and repeats no merge |
| run state store (`state/`) | `state.json` per run | load, save, remove | the whole object is replaced; what is saved last wins |
| git manager (`git/manager.ts`) | worktrees, branches | add, commit, merge, clean | used under an abort signal that may kill a command |
| run supervisor (`server/supervisor.ts`, `run-recovery.ts`) | active workflows, queues per run, mutation flag, owner of the project | start, answer, edit, resume, pause, cancel, publish, delete, close | a run has one writer, answers stand and take effect; a command starts one run |
| publication and CI (`github/`) | the record of the run, GitHub | publish, refresh checks, repair, complete | nothing is published that was not approved |
| process runner (`process/`) | child processes, live-children records | run, kill, reap | a command ends, or is killed with its run |
| agents, interventions (`agents/`, `interventions/`, `reliability/`) | attached sessions, one directive per invocation, chain of profiles | interrupt, redirect, guide, recover a stall, fall back | a directive reaches the turn it was meant for, a stop stops, an invocation ends |
| live sessions (`sessions/`) | requests and turns of one process | handshake, turn, interrupt, reply, forced end, exit | one turn at a time; every request is answered or refused |
| authority, tickets, outbox (`authority/`) | tickets with assignments | admit a trigger, assign, settle | one run of a ticket at a time |
| events, commands (`events/`) | SQLite store | append, claim, release, replay | a command with a key executes once |
| proposals (`evolution/domain.ts`, `catalog.ts`, `audit-trail.ts`) | proposals, audit records, active proposal of each target | propose, evaluate, promote, reject, roll back, archive, delete, replay | whatever was legal can be replayed; the promotion in force is the latest |
| evolution (`evolution/`, `server/evolution-*.ts`) | catalog file, application journal, targets in the tree | preview, apply, roll back, adopt, recover | an application is complete or undone, and the restart can tell which |
| automatic loop (`evolution/automatic-controller.ts`) | the loop, its shadow strategy, the runtime default | measure, propose, promote, reject, stop | promotes what measured better than what is in force, and ends |
| budgets (`observability/`) | counters of a run | claim, save, announce | the limit holds over concurrent agents, failed saves and resumes |
| strategies (`strategies/`) | custom strategies, runtime default | save, delete, shadow | a default exists |
| adapters, gates, experience, flow templates, evaluation, configuration, intake, HTTP, CLI, web and desktop clients | mostly none | parsing, rendering, routing | sequential or pure |

How they interact: the supervisor starts a workflow and keeps it in `active`
until it has settled; the workflow loads the run once, changes the object and
saves all of it after every step; the actions of a run (answers, resume,
publish, cancel, delete) wait for each other in a queue per run and load and
save objects of their own; the command line loads and saves without either; the
scheduler calls task attempts that share the run object and interleave at every
`await`; all of them call git, which an abort can kill. Agents of a run draw on
one budget; each is a chain of profiles, and each profile a session whose turns
operators, a stall detector and the abort of the run interrupt. A start, a
retry or a trigger claims its command and the assignment of a ticket before the
workflow. The evolution coordinator writes the working tree, the catalog and a
journal; the loop drives it and the supervisor, and locks everybody else out of
the project meanwhile.

Hard behaviours, in the order of their weight: (a) a stop between an effect in
git and its record in `state.json`, and stops of the resumes that repair it;
(b) several writers of one run file, some with a copy that is hours old;
(c) restarts that reconcile a run from whatever combination of status,
checkpoint and answers was saved last; (d) a lock taken over from dead owners
by several claimants at once; (e) pauses and cancels that arrive where a
command, a save or a parking is under way; (f) an application that spans three
files and git, none of which can be written together; (g) interrupts that meet
the turn after the one they were meant for; (h) checks of who owns the project
that are followed by an await. `PROJECT.json` lists the hazards with their
lines.

## 2. Modules

| Module | Models | |
| --- | --- | --- |
| `ExclusiveLease` | what the lease promises | abstract |
| `ControlLease` | `lease.ts`, one action per file system operation | implements `ExclusiveLease` |
| `ControlLease_proofs` | inductive invariant and theorems | proofs |
| `WavePlan` | `selectTaskWave` as operators | pure |
| `IntegrationLog` | what a run promises about the integration branch | abstract |
| `RunWorkflow` | one run from the approved plan to the request of the final approval | uses `WavePlan`, implements `IntegrationLog` |
| `RunWorkflow_proofs` | the recursion of `selectTaskWave`, inductive invariant, theorems, refinement | proofs |
| `RunLifecycle` | one run under the service: starts, answers, publication, restarts | |
| `RunLifecycle_proofs` | inductive invariant and theorems | proofs |
| `ApplicationPromise` | what an application of a proposal promises | abstract |
| `EvolutionApplication` | the coordinator, its previews, catalog file and journal, and their recovery | implements `ApplicationPromise` |
| `EvolutionApplication_proofs` | the catalog's commands, chains of proofs, inductive invariant, theorems, refinement | proofs |
| `ProposalCatalog` | the lifecycle of proposals, the audit and its replay | |
| `ProposalCatalog_proofs` | the catalog's commands, the replay record by record, inductive invariants, theorems | proofs |
| `AutomaticEvolution` | the loop that improves a strategy, and who owns the project | |
| `AutomaticEvolution_proofs` | inductive invariant and theorems | proofs |
| `RunBudget` | the budget of agent invocations of a run | |
| `RunIntake` | starts, retries and triggers: commands, tickets, runs | |
| `ControlServices_proofs` | of `RunBudget` and `RunIntake`: inductive invariants and theorems | proofs |
| `LiveTurn` | one agent invocation in live sessions | |
| `LiveTurn_proofs` | inductive invariant and theorems | proofs |
| `MCControlLease`, `MCRunWorkflow`, `MCRunLifecycle`, `MCProposalCatalog`, `MCEvolutionApplication` | the instances of one component that TLC checks | |
| `MCStateRoot`, `MCProjectWork`, `MCProjectControl`, `MCControlServices` | several components that share no state, one per behaviour: lease and applications; a run and the catalog; a run's life and the loop; budget, intake and live turns | |

### ControlLease

A member of `Service` is one process. `lock` and `marker` are the two files,
`leasePc` the place of each process between two awaits. `Link` is the `link(2)` that
publishes a lock, `AssertLockOwner` the read back, `InspectLock` and
`JudgeOwner` decide whether the owner is dead, `OpenMarker` ... `CloseMarker`
are the takeover under the marker, `ReadMarker`, `StatMarker` and
`DiscardMarker` the removal of a marker that outlived its owner, `Release` and
`ReleaseUnlink` the release. `Remains` are the owners that died before the
history starts, `Recycled` those whose process id another process has now, so
that they are taken to be alive. A marker is opened empty and written later, as
in the code: one that was never written is never judged abandoned.

A marker is removed by name (`lease.ts:223`), so that a late removal may hit the
marker of a claimant at work. `stray` is a history of that: who has discarded
another marker than the one it judged. The code does not keep the lease
exclusive: `lease_race` shows two holders (section 5). What it keeps is that such
a removal is the only way to lose it: exclusion (`ExclusiveUnlessStray`,
`MarkerExclusive`) and the refinement of `ExclusiveLease` (`AssuredHolder`) are
claimed until the first stray discard, and say nothing after it.

### RunWorkflow

`mem` is the `RunState` object of the workflow that runs, `disk` its
`state.json`; a save anywhere writes everything the tasks of the wave have
changed so far, which is why a task's step and another's save interleave.
`flow` is the place of the workflow, `step[t]` that of a task in its wave,
`tree` and `branch` the worktrees and branches, `log` the merges on the
integration branch. A worktree is only clean, or holds changes that passed
(`gated`) or did not pass (`ungated`) the gates of their task.

The actions follow the code from await to await: `StartWave` (`WavePlan`),
`BeginTask`, `AddWorktree`, `InstallDependencies`, `Probe`, `ReviewLeftover`
(a passed worktree that a resume reuses), `StartAttempt`, `WorkerEdits`,
`WorkerEnds`, `RunGates`, `JudgeChanges`, `Review`, `Commit`, `RecordCommit`
are a task attempt; `EndWave`, `MergeIntent` (the save that announces a merge),
`GitMerge`, `NoteMerge`, `CheckpointWave`, `SettleBlocked` end a wave;
`CheckpointTasks`, `FinalChecks`, `Decide`, `RequestApproval` end the run;
`SettleFailure`, `CleanTrees`, `CleanBranches` are the catch block and
`cleanup`; `Resume`, `ReconcileMerges`, `RefuseResume`, `PrepareRecovery` are
recovery. `Abort` is a pause, a cancel or a shutdown at any await, `Crash` the
death of the process at any point. `GitFails` and `MergeFails` are a git command
that fails for whatever reason, or that the abort killed; its error does not name
the abort, and what it was to do may be done. A refused resume saves what it had
reconciled by then (`Reconciled`). The cleanup is best effort: some of what it
should remove may stay (`Without`, at most `MaxLeftovers` each time).

### RunLifecycle

One run as the service sees it. A run record is its status, its latest
checkpoint, the answers of its two gates and whether it has a pull request; the
statuses during which a workflow executes are one value. There are three kinds
of copies of the record besides `disk`: `object` (the workflow), `own` (the
action at the head of the queue) and `cli[c].run` (a command line process). The
workflow of this module is `RunWorkflow` seen from outside: its saves and its
ends, not its tasks. `BeginAction` is the load and the checks of an action
(`FirstStep` names where it goes), one action follows for each of its later
saves. `Closed`, `Crash` and `Restart` end and start the service; `Restart`
applies `reconcileInterruptedRuns` through `AtBoundary`, `RecoveredApproved`
and `MissingGate`. The operations of the command line are actions that take
neither the lease nor a place in the queue: that is what the code does.
`RefuseTicket` is a start whose named ticket refuses the run, which then leaves no
record.

### EvolutionApplication

The targets are one custom strategy and one role prompt (`TargetOf`). On the
disk are `live` (what each target holds), `git` (the branch a prompt is
committed on, and its index), `catalog` and `journal`; the coordinator has its
own copies, `memory` and `state`, the `previews`, and its place `pc`. A
promotion or a rollback (`Execute`), the adoption of an old promotion (`Adopt`)
and the renewal of a lost proof (`Reapply`) save the pending operation and go
through the steps of the code: `ApplyStrategy`, or `WritePrompt`,
`StagePrompt`, `CommitPrompt`; then `Verify`, `CommitCatalog`, `Record`, with
`SettleRefusal` and `SettleLoss` for what went wrong. `Persist` is a save of
the journal, `PersistFails` one that may or may not have reached the disk,
`Commit` and `CommitFails` the same of the catalog. `Stop` is the death of the
process at any point, `Edit`, `CommitOther` and `CommitEdit` are people with an
editor and git. `Open` and the `Settle...` actions are the next opening, which
decides from target, catalog and git what became of the pending operation
(`SituationOf`). `Loadable` is what the journal is checked for when it is
opened (`application-journal.ts:871-1416`), operator by operator: `Reopens`
says that no legal sequence of commands, failures and deaths writes a journal
these checks refuse, up to the exceptions it names.

### ProposalCatalog

`proposals` are the proposals with their transitions, evaluation, promotion
record and archival marker, `auditRecords` what the commands appended,
`activeByTarget` and `promotionRecords` what a rollback needs. One action per
command of `EvolutionCatalog`: `Propose`, `BeginEvaluation`, `Evaluate`,
`Promote`, `Reject`, `Rollback`, `Archive`, `Unarchive`, `DeleteProposal`. Each
begins, as in the code, by restoring a working copy from the material of the
last command (`CommitProposal` requires `Opens`). `Opens` is what an opening
checks: every proposal parses (`Parses`), the audit replays record by record
(`ReplayOfAudit`, with `PromotionFits`, `RollbackFits`, `RejectionFits`), the
material is what it replays to (`Restores`), the counts and the revision agree.
The commands and these checks are written independently in the code; that the
first never make what the second refuse is `CatalogReopens`. The clock may go
back between commands: each checks its time against the proposal only. The
replay is a recursive function over the records (`ReplayedAfter`), the count of
a document the size of a set of mutations, so that both can be proved about.

### AutomaticEvolution

A step of the loop is what it does between two awaits. `loop.at` is its place:
`incumbent` (which strategy is in force), `measure` and `running` (evaluation
runs of the baseline, the target or the shadow), `cycle`, `proposing`,
`proposed`, `shadowing`, `unshadow`, `unshadowing`, `deciding`, `evaluating`,
`evaluated`, `previewed`, `promoting`, `ending`. `Proceeds` collects, place by
place, whether the call the loop makes next goes through; `Throws` is every
call that does not. `owner`, `mutating`, `active`, `acting` are the latches of
the supervisor, and `MayStart`, `MayMutate`, `MayAct` its checks. People run,
answer, cancel, propose, preflight, reject, delete, save, promote and roll back
beside it. A promotion or a rollback is one step here, which is what
`ApplicationPromise` says of the coordinator. `Past` is what the project may
look like when its service starts. `evidence` is a history: which definitions
the runs behind the last two measurements ran, and how they ended. A person who
changes the catalog makes the revision the loop was given stale (`current`).

### RunBudget, RunIntake

`RunBudget` is `RunBudgetTracker` with the store under it: a claim waits in the
chain of claims, counts, saves the run and announces itself, while other saves
of the same object overtake it, fail (with the new count on the disk or not), or
die with the service. `WithinBudget`
bounds who was let in, what was announced and what is recorded.

`RunIntake` has the claims of commands (`claimCommand`, its release when a start
throws or a run is lost before its first save, its deletion with the run), the
tickets with their assignments, and the runs as they start, park, settle, are
retried, deleted or cut off by a death. The end of an assignment or the ticket of
a run may fail to be saved, which the supervisor swallows. Triggers, starts and
retries are delivered any number of times.

### LiveTurn

One invocation: a chain of profiles, all of one session kind. `stage` is where
the invocation is, `profile` and `turn` what it tries, `pending` the requests of
the session that wait for a reply, `inbox` and `outbox` what session and agent
wrote to each other and the other has not read. `directive` is what the registry
keeps for the end of the turn, `asked` what became of each intervention.
`AnotherTurn` is the step between two turns, in which a directive of the first
must not be left for the second. `Interrupt`, `Steer` and `Continue` are the
operators' calls and what they do once their request is answered; `StallFires`
is the watchdog, which may fire at any time (tools, questions and idle time are
abstracted, and one of its interrupts is unread at a time); `TimeoutFires`,
`AbortRun` and `GraceExpires` end a turn by force. The agent answers, refuses,
stays silent or exits as it likes. `Finish` merges detach, close and the exit
of the process, after which nothing of the session is heard.

## 3. Runs

| Run | Instance | Shows |
| --- | --- | --- |
| `state_root` | 2 services, 2 dead owners, one with a recycled id, 3 attempts, 2 crashes; or 2 strategies and a prompt, 3 commands, 1 preview, 4 older worlds, 2 troubles | of the lease, until a marker is discarded astray: `ExclusiveUnlessStray`, `MarkerExclusive`, `ImplementsLease`, `AttemptsSuffice`; of applications: `Reopens`, `Decidable`, `OneInForce`, `ChainReplays`, `KeepsPromise`, `Settles`; types of both |
| `lease_race` | 2 services, 1 dead owner, no crash | two holders: `LeaseExclusive` is violated |
| `workflow` | 3 tasks (one dependency, one overlap, two batches), 2 at a time, 1 attempt, 1 abort or crash, 1 failing removal at a cleanup; or 2 proposals for one target, 1 command id, 2 instants, 10 commands | of the run: the agreement of branch, checkpoint and record, `WorkersDisjoint`, `OfferedWasChecked`, `RecoveryAccepted`, `MergedStaysMerged`, `ImplementsPromise`, `EveryRunSettles`; of the catalog: `CatalogReopens`, `LatestInForce`; types of both |
| `workflow_pause`, `workflow_phantom`, `workflow_ungated` | 2 tasks, 1 abort or crash | three statements the code does not keep |
| `lifecycle` | one run with 1 command line process, 2 queued actions, a plan gate; or one loop with 2 runs for a measurement, and 2 cycles beside one thing people begin, or 1 cycle beside two; 1 death or failed write | of the run: types, the safety properties, `AnswersStand`, `AnswerTakesEffect`; of the loop: `OwnsTheProject`, `PromotesTheBetter`, `LoopEnds` |
| `lifecycle_cancelled`, `lifecycle_restart` | 1 queued action | two statements the code does not keep |
| `catalog_tombstone` | 2 proposals, 1 instant | a statement about deleted proposals the code does not keep |
| `application_buried` | 3 strategies, 1 older world, 3 commands, no trouble | a statement about captured predecessors the code does not keep |
| `services` | 3 agents and 3 invocations with 2 failed saves or deaths; or 2 triggers on a thread, a start and a retry key, 2 runs, 1 death; or 2 profiles, 2 operators (1 for codex), 1 redirect, 1 recovery | `WithinBudget`; `OneAssignment`, `StartedOnce`; `DirectiveOfThisTurn`, `StopIsHonoured`, `EveryInvocationEnds`; types of all |

Why the bounds are enough to meet the interesting cases. Lease: two claimants
that judge the same dead owner, one of them late, and a third remnant for the
marker; a crash of the new holder and one of its successor. `LEASE_ATTEMPTS` is
3 in the code, and both its mutants (one more, one less) are found. Workflow:
three tasks are the fewest with a dependency and an overlap in the same plan
and a wave of two; one break is put at every step of every interleaving; one
removal that fails at a cleanup (`MaxLeftovers`) leaves a worktree or a branch
that a resume finds. Two
breaks with a rework attempt, so that a resumed run is stopped and resumed
again, were checked by hand with two tasks. The number of
resumes is bounded by `MaxBreaks` because a resume needs a break first.
Lifecycle: the record of a run has no counters, so `MaxQueued` is the only
bound; two queued actions are one that executes and one that waits with checks
that were never made. The loop needs two runs for a measurement, so that the
worst and the last can differ, two cycles, so that a winner becomes the
incumbent, two things of people, so that one may follow the other (an action
that starts a run, a mutation beside a run); all three at once have 1.4 million
states and were checked by hand. Evolution: a proposal promoted over another
needs two strategies; a third command is one that follows a rollback; two
troubles are one in a command and one in the opening that settles it. Catalog:
a promotion over another needs two proposals; the longest life of one is seven
commands, which leaves three for the other to come between. Services:
a claim is late behind two others, a duplicate comes after the first was
settled, and the second operator acts on what is left of the first.

Deadlock is checked in the `lifecycle` runs (a loop that has used its bounds
rests); a lease, a workflow, an application, an intake or an invocation that
has ended does stop, so the others turn the check off.

Larger instances were checked once with the same result: `workflow` with
`{1, 2}`, two attempts, two breaks, two at a time (15.6 million states) and
`{1, 2, 3}` with two attempts and one break (4.6 million); `lifecycle` with two
command line processes (533 thousand), and without a plan gate (358 thousand);
the loop beside three things people begin with one run for a measurement (410
thousand), two start commands in three variants (1.4 to 1.6 million), and the
product of its bounds above; `LiveTurn` with two interventions in a codex
session of one profile (13.1 million) and with claude and two profiles (436
thousand).

Fairness. `AttemptsSuffice` assumes that a process that is not killed keeps
running; it speaks of histories with no crash and no stray discard.
`EveryRunSettles` of the workflow assumes one weak fairness for all started
steps together: agents, gates and git commands have timeouts, so some step
ends, but not that every task of a wave goes on. `AnswerTakesEffect` assumes
that an action that has begun, a workflow and a mutation end, and that the
close of the service does; it asks that the service is up infinitely often and
says nothing about one that never comes back. `LoopEnds` assumes one weak
fairness for the steps of the loop: evaluation runs and the proposer have
execution deadlines; people, stops, closings and deaths are not fair. `Settles`
of the evolution assumes that the coordinator goes on, that an opening does, and
that an operator restarts a service that reported an operation it could not
finish. `EveryInvocationEnds` assumes that the service and its clocks go on; the
agent, the operators and the watchdog may do nothing for ever, or act at any
time. Nobody is assumed to resume a run.

Every property of a passing run has a mutant in `PROJECT.json`: a definition of
the code changed the way a slip would change it, for which the property fails.

## 4. Proofs

`ControlLease_proofs` proves, for any set of services, any number of attempts
and crashes: `LeaseTypeOK`, `ExclusiveUnlessStray`, `MarkerExclusive` and
`ImplementsLease`, all of `LeaseSpec`, the protocol as it is in the code, with
the late discard among its steps. The last three promise nothing from the first
stray discard on, after which `lease_race` refutes exclusion. The inductive
invariant `LeaseInv` says who may remove which file: who published a lock finds
it there (`OwnerHasLock`), a judged owner is dead and stays dead (`JudgedIsDead`),
the lock that was confirmed stale stays until it is unlinked (`StaleLockStays`),
and a marker about to be discarded had a dead owner when it was read
(`AbandonedIsDead`), so that a discard that hits the marker of a living claimant
has hit another one than it judged. Exclusion alone is not inductive: it does not
say that a late unlink of the lock finds the file it was meant for.

`RunWorkflow_proofs` proves, for any plan, any number of tasks at a time, of
attempts, of worktrees and of aborts and crashes: `TypeOK`, `LogIsRecorded`,
`CheckpointIsPrefix`, `RecoveryAccepted`, `WorkersDisjoint`,
`MergedStaysMerged`, `OfferedWasChecked` and the refinement
`ImplementsPromise`; and that checkpoints only grow (`CheckpointsGrow`): no step,
not even of a crash or a resume, puts an older checkpoint into `state.json`. What
is merged after the last checkpoint is in none: for that `LogIsRecorded` says that
the statuses on the disk have it as merged or announced. A run may be offered with
blocked tasks; `OfferedWasChecked` says of the offer that its head is the one the
final checks passed on, not that it has every task. None of these is inductive; the
inductive invariant `IInv` has these parts.

- `Coherent(r)`, of the copy in memory and of the one on the disk: what it has
  as merged is on the branch, what is on the branch it has as merged or as
  about to be merged, a task has a commit only after what it depends on was
  merged, and its checkpoint is a prefix of the branch.
- `CopiesAgree`: the two copies differ in tasks of the wave only, until a
  failure is settled; so a crash loses at most what a task of the wave did.
- `MergingOnlyNext` and `QueueReady`: one merge is announced at a time, it is
  that of the first task of the queue, and it is on the branch exactly from the
  `git merge` to the record of it.
- `WaveFits` and `StepsBacked`: the tasks of a wave are unmerged, their
  dependencies are merged, their paths are disjoint, and a task that reached a
  step has the slot and the changes the step works on.
- `OfferBacked`: the stage `local-gates-passed` stands for the whole branch, and
  only while the integration worktree is clean.
- `BreaksCounted`: a resume was paid for by an abort or a crash, which bounds
  the names of worktrees.

The argument is about the window between an effect in git and its record.
Everything before the announcement is repeatable: a resume resets it, and the
branch has nothing of it (`Coherent`). From the announcement on, the record
says which single task may or may not be on the branch, and recovery asks the
branch (`ReconcileMerges`). A step of a task is one lemma for all of them
(`TaskChangeKeeps`): what it may touch is `TaskChange`. For the refinement,
`MergeIntegrates` and `AskOffers` show that a merge is a step
of `IntegrationLog`, that the request of the approval is its offer, and that
every other step is a stutter.

`WorkersDisjoint` rests on what `selectTaskWave` computes. Its loops are a
recursive function over the candidates left; the library's induction theorems
take an operator and cannot be used, so the proofs induct with sets:
`EveryNatural` (a set with 0 and closed under successor has every number, from
`LeastNatural`), `Iterated` (a function can be iterated, so the recursion has a
solution) and `UnfoldedInto` (an invariant set of the steps is one of the
recursion). With them `FirstIsCandidate` (the sort has a first element whatever
the keys), and the waves are shown to stay in `Waves`: ready tasks, no two
of them on the same paths. The plan is assumed to be what `plan.ts` makes sure
of: dependencies are tasks, and overlap of owned paths is symmetric, as
`pathsMayOverlap` is (`domain/plan.ts:64`).

`RunLifecycle_proofs` proves, for any set of command line processes and any
queue, with and without a plan gate: `TypeOK`, `SingleWriter`,
`WorkIsApproved`, `PublishedWasApproved`, `ParkedIsAnswerable`,
`NoWorkDuringMutation` and the action property `AnswersStand`. The inductive
invariant `LifecycleInv` has these parts.

- `RunInv` is about one record, and holds of every copy that may still be
  saved: a final answer exists only at `local-gates-passed`, publication only
  with a final approval, a record at which a workflow executes has no final
  answer yet, tasks have begun only under an approved plan.
- `WorkflowAlone`: a workflow that executes has the record exactly as it is on
  the disk, and no action is under way.
- `ActionHas`: the action under way has the answers that are on the disk, and
  the whole record unless the final approval was given.
- `CommandHas`: a command line process has a finally approved record, and so
  has the disk; its copy may be out of date in everything but the answers.
- `ParkedIsOpen`: a run that waits for a person has a pending approval, but for
  the two saves of its answer and while the service is down.

The argument: command line processes, which no lock orders, cannot harm the
answers, since they need a final approval to begin, and after a final approval
no workflow executes and no answer changes. Before it, the queue and the
`active` map leave one writer. None of the proved properties is inductive by
itself: `SingleWriter` needs to know that an answer leads to a launch only with
no workflow about, `AnswersStand` that no copy has older answers, and
`ParkedIsAnswerable` needs the record's shape at a restart (`ReconciledRun`).

`AutomaticEvolution_proofs` proves, for any numbers of cycles, fruitless cycles
and runs, any strategies, outcomes, pasts and people: the types
(`AutomationTypeCorrect`), `OwnsTheProject` and `PromotesTheBetter`. `PlaceInv`
says what the loop has at each place (a candidate once it proposed one, an
incumbent's result once it measured it), `DefinedInv` that a proposal exists
when it has a definition, `OwnInv` is the exclusion: nobody but the loop
changes or runs anything between its start and its end. `EvidenceInv` is what
the promotion rests on: the results in memory stand for the runs that were
measured (`StandsFor`: the worst score is reached, and one failure fails all),
the incumbent's runs are of what is in force now (`IncumbentInv`), the
candidate's of the definition that will be promoted (`CandidateInv`), also
after a winner became the incumbent. `PromotesTheBetter` alone says nothing
about the states before the promotion, and needs all of it.

`ControlServices_proofs` proves the types and `WithinBudget` for any set of agents,
any limit and any failures. `BudgetInv` counts: callers that hold a number,
announced numbers and saves under way are below what the run object has, which
is at most the limit, and a resumed run does not go below what was announced
unless the save of that announcement was lost with the service.

It proves the types, `OneAssignment` and `StartedOnce` for any
triggers, threads, keys, runs and deaths. `ActiveInv` and `AssignmentInv` tie a
run that executes to the running assignment of its ticket, `RecordedInv` a recorded
claim to the run that was started for it, `TriggerInv` an accepted trigger to
at most one run.

`LiveTurn_proofs` proves, for any chain of profiles, any operators and any
numbers of redirects and recoveries: the types, `DirectiveOfThisTurn` and
`StopIsHonoured`. `TurnInv` says, besides the types, that every turn but the
first was paid for by a redirect or a recovery, that nobody has asked anything
of a turn or a profile still to come (`AskedSoFar`), that who waits for a reply
was told nothing yet (`Waiting`), that the registry keeps a directive during a
turn only (`DirectiveKept`), that the directive is that of the only operator who
interrupts the turn and was not told to have failed (`DirectiveTaken`), and
where the invocation is when such an operator asked to stop (`StopEnds`).
`DirectiveTaken` is what `StopIsHonoured` lacks: a refused interrupt of another
operator may take the directive back (section 5, live turns (a)), so that only
an operator who stands alone is promised anything, and `OperatorGoesOn` shows
that whoever stands alone is not hurt. Most steps say nothing to operators
(`QuietStep`); a turn ends in one lemma (`TurnEndsKeeps`) by `FinishKeeps` or
`AnotherTurnKeeps`.

`EvolutionApplication_proofs` proves, for any proposals, contents, commands,
previews and older worlds, any number of failed writes, deaths of the process
and edits by people: the types, `OneInForce`, `ChainReplays`, `Decidable`,
`Reopens`, and that the coordinator implements `ApplicationPromise`
(`KeepsPromise`). The inductive invariant `IInv` has these parts.

- `CatalogWell`, of the catalog on disk and of the one in memory: a proposal was
  promoted once at most and replaced one of its own target. What a command makes
  of a catalog is stated once (`PromoteIs`, `RollBackIs`, `AdvanceIsQuiet`,
  `AuditedIsQuiet`).
- `CatalogsWell`: the two differ by one commit whose end is not known, and where
  they differ no operation but one begun in ignorance (`blind`) goes on.
- `JournalWell`: every chain is linked, is that of who was in force before the
  pending operation (`ActiveBefore`), and the pending operation says what it was
  begun with (`Planned`), which the catalog still says while it has the
  operation's revision (`Before`).
- `Synchronous` and `Placed`: the coordinator's journal is the one on disk
  unless a write failed, and the catalog is before or after the operation
  according to the coordinator's place.
- `PreviewsWell`: what a preview of the current revision says is still so.
- `ProgressWell`: target, index, branch and catalog are where the place says,
  and if nobody disturbed the operation, in one of the situations that
  `pickSituation` tells apart (`Progress`); `Pace` ties the target to the
  coordinator's place.

The argument: what follows from the catalog is read at one revision only.
Previews and the pending operation carry their revision, every command moves it
by one, so a document that says something about a revision says it of the very
catalog it was made from (`OutcomeIs`, `FinishedIs`, `AbortedIs`). The writes of
the journal share one lemma (`SaveKeeps`), those of an opening another
(`OpeningKeeps`), the steps at the target a third (`TouchKeeps`), people a
fourth (`MeddleKeeps`). That a reconciliation is never finished by the opening
(`SettleFinishKeeps`) and that what it captures is a single proof
(`PredecessorIs`) come out of the invariant.

The refinement maps the promise to what an operator sees: while an operation is
pending, its target has the value and the proposal it had before (`Values`,
`InForce`), the layers are the chain of proofs of who was in force (`Layers`),
and a command's answer is its completion (`Answers`). It needs one fact that
`IInv` does not say, `Answered`: a command without a binding has no completion,
and the pending one has no binding. Each step is then one of six cases, one
lemma each: nothing is seen (`Unseen`: previews, the catalog's other commands,
every step at the target, in the catalog or of an opening that leaves the
operation pending), an operation begins (`BeginSeen`), is over without having
happened (`AbortSeen`) or as a whole (`FinishSeen`: a promotion, a rollback or a
reconciliation of the promise), a promotion gets the proof it lacked
(`CaptureSeen`), a person edits (`EditSeen`). `FinishSeen` is where the
invariant is used: what the operation puts in the journal is one layer more, or
one less, of the chain that was in force (`FinishIs`), and the target holds what
the promise says, or somebody edited it (`PaceIs`).

`Reopens` is not inductive, nor do `IInv` and `Answered` imply it: the checks of
an opening compare journal and catalog as they stand, and what makes them agree
is how both came about. `RInv` adds that.

- `Story(journal, catalog)`: every proof in a chain is vouched for by the
  completion and the binding of its command, wherever it is (`ProofsVouched`); a
  captured predecessor has its reconciliation (`CapturesOwned`); completions,
  bindings and audits fit each other (`CompletionsFit`, `BindingsFit`,
  `AuditsOwned`); and the catalog has nothing of the pending operation, or all of
  it and nobody else's (`Settled`: `Undone` or `Reached`). A proof is vouched for
  as it was written: what `Loadable` asks besides depends on what is above it
  now, which is where `Buried` comes from.
- `CatalogGoes`: the catalog on disk is a later one than that in memory
  (`Goes`): revisions grow, statuses move forward (`Moves`), a promotion and
  what it replaced are never forgotten. A binding quotes the status in memory
  and is read against the disk.
- `Followed`: where the coordinator is says whether the catalog is `Undone` or
  `Reached`; only an operation begun in ignorance (`blind`) may be at neither
  revision. `PreviewsSafe`: a rollback that was offered is of a safe proof.

The proof has three layers. Lemmas about the documents say that each thing that
can be done to them keeps the story: the catalog goes on (`StoryGoes`,
`QuietStory`), an operation begins (`BegunStory`, `ReapplyStory`), its outcome
reaches the catalog (`OutcomeStory`), it is over (`FinishedStory`,
`AbortedStory`), a promotion is adopted (`AdoptStory`); the last three are cases
of one lemma about an answer that is added (`StoryAnswers`). `StoryLoads` derives
every check of `validateRestoredState` from it, and is the only place where the
exceptions `Forgotten`, `Buried` and `blind` are needed. The lemmas named `...Told`
then take the steps of the coordinator one by one. The invariant was checked by
TLC on two instances before it was proved.

`ProposalCatalog_proofs` proves, for any proposals, targets, evidence, instants
and command names: the types, `LatestInForce`, that every proposal parses
(`EveryProposalParses`), that the revision counts the recorded mutations
(`EveryCommandCounted`), and `CatalogReopens`. Assumed are
that every proposal has a target, that instants are numbers, and that `Null` is
none of the values it stands beside. Three invariants come first.

- `OrderInv`: an evaluated proposal has its evaluation (`EvaluatedInv`), a
  promoted one is in the audit once and its record is what the catalog keeps
  (`PromotionInv`), and who is in force was promoted last of those not rolled
  back, each having replaced the one promoted before it (`ChainInv`).
- `ParseInv`: every proposal parses. The transitions a proposal can have are
  listed (`PathShape`); a command adds one in order (`MovedChronological`).
- `CountInv`: the set of mutations is finite and the revision is its size. A
  deletion is the hard case: it gives back a proposal's three transitions and
  its creation for the weight of five (`FiveMore`).

`CatalogReopens` is proved over commands, and inside one command over records.
Every command begins by restoring the material (`Usable`), so a document that
opens is given. The library's induction theorems cannot be used, so `Climb`
(what holds of 0 and climbs to a number holds of it) is proved from the
library's theorem that the naturals are well-founded. With it the replay is
shown to be what its steps say (`ReplayedAfterSteps`) and to tell, of every
proposal, what the records about it say and nothing else (`ReplayTells`). Then a
command has two parts: the records that were there go on fitting, since what
they are checked against is kept or only grows (`OldFit`, `SameReplay`), and the
new one fits what the replay has come to (`OpensRecorded` with one lemma per
command). A deletion takes a proposal away under the records that name it: the
replay without it goes in step with the one that had it (`AuditWithout`), and
its trail reads as a tombstone unless it was archived before its rejection
(`TrailEnds`), which is the exception `CatalogReopens` states and
`catalog_tombstone` shows (section 5). Once that has happened, it stays so.

The proofs rest on the assumptions on the constants only. The inductive
invariants of `RunWorkflow`, `LiveTurn` and `EvolutionApplication` were checked
by TLC on the instances of the runs before they were proved. Only model-checked:
the liveness properties (fairness and ENABLED are out of TLAPS's reach), what a
tombstone reads (`TombstonesAreReadable` is refuted, section 5), the composed type
invariants of the MC modules beyond their proved parts, and that `selectTaskWave`
fills a wave as far as it can, which nothing here relies on.

## 5. Where the repository disagrees with itself

Eight runs are expected to fail; `PROJECT.json` quotes the lines.

1. `lease_race`: the removal of an abandoned marker can remove a live one, and
   two services get the lease (`server/lease.ts:223` and the comment at 192).
2. `workflow_pause`: a pause that kills a git command removes the worktrees it
   promises to keep (`workflow/runner.ts:326`, `README.md:44`).
3. `workflow_phantom`: a resume after `tasks-complete` leaves a blocked task
   pending and parks for approval (`workflow/checkpoints.ts:258`,
   `scheduler.ts:223`).
4. `workflow_ungated`: a resume reviews and commits changes of a worker that was
   interrupted, on the strength of an earlier quality report
   (`workflow/checkpoints.ts:242`).
5. `lifecycle_cancelled`: a cancelled run leaves that state when its approval is
   answered afterwards (`server/supervisor.ts:583`, `docs/configuration.md:457`).
6. `lifecycle_restart`: a restart moves a completed run back to
   `ready-to-merge` (`server/run-recovery.ts:164`, `docs/architecture.md:226`).

7. `catalog_tombstone`: an evaluated proposal that is archived, then rejected and
   deleted leaves an audit trail no replay accepts, and the catalog can be
   neither changed nor opened any more (`evolution/domain.ts:132`, comment at
   `audit-trail.ts:10`).

8. `application_buried`: a reconciliation captures the predecessor of a legacy
   promotion; rolled back to it, and with another proposal promoted over it, the
   journal names no reconciliation directly above the captured proof, and every
   opening refuses it (`evolution/application-journal.ts:1105`,
   `docs/adr/0015-controlled-evolution-application.md:94` and 103). `Reopens`
   states the exception (`Buried`).

The following were met while modelling; no run is spent on them.

Evolution. (a) A proposal may be deleted after its application was aborted, and
the journal with the answer is then refused at the next opening (`Forgotten`;
`docs/adr/0015` promises that an aborted command leaves the project usable).
(b) A command may begin while the last commit of the catalog is indeterminate
(`persistence.ts:362-384`, comment at `application.ts:1888`). (c)
`finishCatalogMutation` swallows a failed write of the journal
(`application-journal.ts:1491-1509`) and the opening succeeds
(`application.ts:365-377`). (d) A death between `git add` and `update-ref`
leaves the index staged, and the opening asks for an operator. (e)
`persistedContents` is assigned and never compared (`application-journal.ts:861`).

The loop. (a) `cancelOwned` checks the owner, awaits the load of the run and
queues without checking again (`supervisor.ts:430-448`): a cancellation queued
beside a loop makes the removal of the shadow and the release of the project
throw, and the owner stays for the life of the service (`overlapped`;
`docs/adr/0017` says that it is released when all work has ended). (b) A
baseline run that fails its gates is failed evidence (`automation.ts:174`), so
that an improving candidate is recorded as failed, its preview is refused and
the loop fails instead of applying or rejecting. (c) A proposal that people
preflighted, rejected and deleted while its shadow existed, followed by a
death, leaves the shadow for good. (d) After a promotion or a rollback by hand
the runtime default differs from the one a restart restores.

Intake. (a) A run that parks gives its assignment back, and its continuation
holds none, so another run of the ticket may execute beside it (comment at
`ticket.ts:96`). (b) After a death the assignment stays running for good, so
later triggers of the thread are accepted and their runs refused. (c) A trigger
that was accepted is lost when its start throws or the service dies. (d) A run
that was never saved keeps its claim over a restart, and the command delivered
again names a run that does not exist.

Live turns. (a) A refused interrupt deletes whichever directive the registry has
by then (`registry.ts:196-202`), so the acknowledged stop of another operator
can be lost, and the invocation goes on with the fallback profile. (b) An abort
during the handshake of a codex session is not heard.

## 6. Abstractions and what is not modelled

- Agents, gates, reviews, GitHub and the decision of the lead are choices among
  their outcomes. Feedback, costs, lessons and messages are left out.
- A save of a run is one step (a temporary file and a rename in the code). Two
  processes that write the same temporary file are not modelled.
- The quick flow, evaluation runs as such (`AutomaticEvolution` only has what the
  loop sees of them; they end without a publication, `workflow/runner.ts:483`),
  the runs of a proposer left by an earlier service (`server/supervisor.ts:874`),
  and runs started directly by the command line are not modelled; nor are the
  expiry of an approval as such (it
  is a rejection that may come instead of an answer), and the content of an
  edited plan.
- `RunWorkflow`: the names that carry a resume count are slots; the base commit
  does not move. A crash in the middle of a merge leaves a dirty integration
  worktree that only an operator clears (`CleanIntegration`). A git command that
  fails inside a resume is a refused resume.
- `RunLifecycle`: the load and the check of an action are one step; `Restart` is
  one step, since nothing else is served before it ends; a mutation of the
  project is its beginning and its end. A record says nothing of tasks, and a
  command line process loads it once.
- `EvolutionApplication`: digests are the values themselves; archiving is only
  what it forbids; schemas and evidence are abstracted to whether a proposal
  passed.
- `ProposalCatalog`: the document is what the memory says (how it is written, and
  fails to be, is in `EvolutionApplication`); actors, reasons, policies and the
  trust context are left out, since no check of the catalog compares two of them.
- `AutomaticEvolution`: the agent that proposes and the checks of its answer are
  one step; archiving, prompts and reconciliation are left to
  `EvolutionApplication`; people do not edit files by hand.
- `RunIntake`: cancelling a parked run, mandates and policies are left out: a
  trigger is one that the policy admits. `RunBudget` has the budget of
  invocations, not those of output and artifacts.
- `LiveTurn`: questions of an agent, what artifacts contain, and the opening of a
  session that fails otherwise than by an exit are left out. That the directory
  of the artifacts cannot be made is `PrepareFails`, which ends the invocation.
- Not modelled, because they are views, formats or sequential code without
  state of their own: the web client, the desktop shell and the scripts (some
  34 thousand lines of the repository), schemas, adapters, configuration,
  onboarding, routes, the command line, experience, flow templates and quality
  gates; this is why the map covers a small share of the repository.

## 7. Plan

Done, in this order, the most important first: the lease with its abstract
specification and proofs; the workflow with its abstract specification; the
life of a run with its proofs; proposals; the application of proposals with its abstract
specification; budgets and intake with their proofs; live turns; the loop with
its proofs; the proofs of the workflow, of live turns, of the application of
proposals and of their catalog. Left: the children of the service that outlive it
(`process/live-children.ts`) and the circuit of a provider
(`providers/failure.ts`).

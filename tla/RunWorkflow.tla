---------------------------- MODULE RunWorkflow -----------------------------
(***************************************************************************)
(* One run of the local workflow, from its approved plan to the request of *)
(* the final approval: waves of tasks in worktrees of their own, their     *)
(* attempts, the merges into the integration branch, the checkpoints, and  *)
(* the ways a run stops and resumes (src/src/workflow).                    *)
(*                                                                         *)
(* mem is the RunState object of the running workflow, disk its state.json.*)
(* RunStateStore.save serialises the whole object, so a save anywhere      *)
(* writes what every task of the wave has changed so far.  An action is    *)
(* the code between two awaits that matter to others.  The run statuses    *)
(* during which a workflow executes are one value, "active".               *)
(***************************************************************************)
EXTENDS Naturals, Sequences, FiniteSets, WavePlan

CONSTANTS
  Task,        \* the tasks of the plan, numbers in the order of their ids
  DependsOn,   \* dependsOn of each task
  BatchKey,    \* batchKey of each task, 0 for none
  Overlap,     \* pairs of tasks whose owned paths may overlap
  MaxParallel, \* swarmMaxConcurrency ?? maxParallel
  MaxAttempts, \* maxReworkAttempts + 1
  MaxBreaks,   \* bound on the aborts and crashes explored
  MaxLeftovers \* bound on the removals that fail at one cleanup

ASSUME PlanAssumption ==
  /\ Task \subseteq Nat \ {0} /\ IsFiniteSet(Task)
  /\ DependsOn \in [Task -> SUBSET Task]
  /\ BatchKey \in [Task -> Nat]
  /\ Overlap \subseteq Task \X Task
  /\ \A t, u \in Task : <<t, u>> \in Overlap => <<u, t>> \in Overlap  \* pathsMayOverlap
ASSUME LimitAssumption ==
  /\ MaxParallel \in Nat \ {0} /\ MaxAttempts \in Nat \ {0}
  /\ MaxBreaks \in Nat /\ MaxLeftovers \in Nat

VARIABLES
  mem,     \* the run as the workflow in memory has it
  disk,    \* the run as state.json has it
  flow,    \* where the workflow of the run is, "off" when none runs
  step,    \* where each task of the current wave is
  wave,    \* the current wave, in the order of its tasks
  queue,   \* the tasks mergeOne has still to merge
  abort,   \* why the workflow signal was aborted: "none", "pause", "cancel", "shutdown"
  failure, \* what reached the catch block: the abort reason or another error
  breaks,  \* aborts and crashes so far
  tree,    \* the task worktrees
  branch,  \* the task branches
  log,     \* the merges on the integration branch
  dirty    \* a merge was left unfinished in the integration worktree

repo == <<tree, branch, log, dirty>>
vars == <<mem, disk, flow, step, wave, queue, abort, failure, breaks, repo>>

-----------------------------------------------------------------------------
(***************************************************************************)
(* A task's branch and worktree are made together and named after the      *)
(* resume count; slot n stands for the names of resumeCount n - 1, slot 0  *)
(* for none.  A worktree has uncommitted changes that passed the task's    *)
(* quality gates, others, or none; a branch ends in the base commit or in  *)
(* a commit of such changes.                                               *)
(***************************************************************************)
Slot == 1 .. MaxBreaks + 1
Place == Task \X Slot
TreeState == {"absent", "clean", "ungated", "gated"}
BranchState == {"absent", "base", "ungated", "gated"}
Merge == [task : Task, content : BranchState]

TaskStatus == {"pending", "working", "reworking", "passed", "merged", "blocked"}
TaskState ==
  [status : TaskStatus, attempts : 0 .. MaxAttempts, slot : Slot \union {0},
   quality : {"none", "failed", "passed"}, review : {"none", "accepted", "rejected"},
   commit : BOOLEAN, merging : BOOLEAN]

Stage == {"plan-ready", "task-wave-integrated", "tasks-complete", "local-gates-passed"}
RunStatus == {"active", "awaiting-human", "interrupted", "blocked", "cancelled"}
Run ==
  [status : RunStatus, task : [Task -> TaskState],
   stage : Stage, head : Nat, done : SUBSET Task,  \* the latest checkpoint
   resumes : 0 .. MaxBreaks,                       \* resumeCount
   checked : Nat,                                  \* merges the passed finalQuality saw
   asked : BOOLEAN]                                \* the final approval is requested

WaveSteps ==
  {"begin", "add", "install", "probe", "leftover", "commitLeftover", "fresh", "rework", "retry",
   "worker", "gates", "judge", "review", "commit", "record"}
EndSteps == {"passed", "blocked", "aborted", "failed"}
Flow ==
  {"off", "down", "validate", "prepare", "mergePassed", "loop", "wave", "intent", "git", "note",
   "checkpoint", "settle", "tasksDone", "final", "decide", "approve", "failing", "cleanTrees",
   "cleanBranches"}

TypeOK ==
  /\ mem \in Run /\ disk \in Run
  /\ flow \in Flow
  /\ step \in [Task -> {"off"} \union WaveSteps \union EndSteps]
  /\ wave \in Seq(Task) /\ queue \subseteq Task
  /\ abort \in {"none", "pause", "cancel", "shutdown"}
  /\ failure \in {"none", "abort", "error"}
  /\ breaks \in 0 .. MaxBreaks
  /\ tree \in [Place -> TreeState] /\ branch \in [Place -> BranchState]
  /\ log \in Seq(Merge) /\ dirty \in BOOLEAN

-----------------------------------------------------------------------------
NewTask ==
  [status |-> "pending", attempts |-> 0, slot |-> 0, quality |-> "none", review |-> "none",
   commit |-> FALSE, merging |-> FALSE]

\* resetIncompleteTask keeps the attempts: the limit counts across resumes.
ResetTask(s) == [NewTask EXCEPT !.attempts = s.attempts]

\* The plan is ready, and approved when the strategy asks for it.
Init ==
  /\ mem = [status |-> "active", task |-> [t \in Task |-> NewTask], stage |-> "plan-ready",
            head |-> 0, done |-> {}, resumes |-> 0, checked |-> 0, asked |-> FALSE]
  /\ disk = mem
  /\ flow = "mergePassed"
  /\ step = [t \in Task |-> "off"]
  /\ wave = <<>> /\ queue = {}
  /\ abort = "none" /\ failure = "none" /\ breaks = 0
  /\ tree = [p \in Place |-> "absent"]
  /\ branch = [p \in Place |-> "absent"]
  /\ log = <<>> /\ dirty = FALSE

WithStatus(S) == {t \in Task : mem.task[t].status \in S}
Completed == mem.done \union WithStatus({"merged"})
MergedIn(l) == {l[i].task : i \in DOMAIN l}
PlaceOf(t) == <<t, mem.task[t].slot>>

Save == disk' = mem'
KeepDisk == disk' = disk
KeepMem == mem' = mem
Set(t, s) == mem' = [mem EXCEPT !.task[t] = s]

\* What one step of a task of the wave leaves alone.
At(t, s) == flow = "wave" /\ step[t] = s
Go(t, s) == step' = [step EXCEPT ![t] = s]
InWave == UNCHANGED <<flow, wave, queue, abort, failure, breaks, log, dirty>>
SameGit == UNCHANGED <<tree, branch>>

\* What a step of the workflow outside the waves leaves alone.
GoFlow(f) == flow' = f
OutOfWave == UNCHANGED <<step, wave, abort, breaks>>
Fail(cause) == GoFlow("failing") /\ failure' = cause

-----------------------------------------------------------------------------
(***************************************************************************)
(* A task of the wave (runWaveTask, executeOneTask).  Git commands, agents *)
(* and gates get the abort signal and do not start once it is set; a save  *)
(* does not look at it.                                                    *)
(***************************************************************************)
Running == abort = "none"

\* canReusePassedWorktree
Reusable(t) ==
  /\ mem.task[t].quality = "passed"
  /\ mem.task[t].slot # 0
  /\ tree[PlaceOf(t)] # "absent"

BeginTask(t) ==
  /\ At(t, "begin")
  /\ \/ /\ Reusable(t)
        /\ Go(t, "probe") /\ KeepMem
     \/ /\ ~ Reusable(t)
        /\ Set(t, [mem.task[t] EXCEPT !.status = "working", !.slot = mem.resumes + 1])
        /\ Go(t, "add")
  /\ KeepDisk /\ InWave /\ SameGit

\* git worktree add -b refuses a branch or a directory that is already there (GitFails).
AddWorktree(t) ==
  /\ At(t, "add") /\ Running
  /\ LET p == PlaceOf(t) IN
       /\ tree[p] = "absent" /\ branch[p] = "absent"
       /\ tree' = [tree EXCEPT ![p] = "clean"]
       /\ branch' = [branch EXCEPT ![p] = "base"]
  /\ Go(t, "install")
  /\ KeepMem /\ KeepDisk /\ InWave

InstallDependencies(t) ==
  /\ At(t, "install") /\ Running
  /\ Go(t, "probe")
  /\ KeepMem /\ Save /\ InWave /\ SameGit

\* tryFinishAlreadyPassedTask, up to the review of what an earlier attempt left
Probe(t) ==
  /\ At(t, "probe")
  /\ LET s == mem.task[t] IN
       \/ /\ ~ Reusable(t)
          /\ Go(t, "fresh") /\ KeepMem /\ KeepDisk
       \/ /\ Reusable(t) /\ s.commit
          /\ Set(t, [s EXCEPT !.status = "passed"])
          /\ Go(t, "passed") /\ Save
       \/ /\ Reusable(t) /\ ~ s.commit /\ Running
          /\ KeepMem
          /\ \/ Go(t, "fresh") /\ KeepDisk  \* nothing staged, or outside the owned paths
             \/ /\ tree[PlaceOf(t)] # "clean"
                /\ IF s.review = "accepted" THEN Go(t, "commitLeftover") /\ KeepDisk
                                            ELSE Go(t, "leftover") /\ Save
  /\ InWave /\ SameGit

ReviewLeftover(t) ==
  /\ At(t, "leftover") /\ Running
  /\ \/ /\ Set(t, [mem.task[t] EXCEPT !.review = "accepted"])
        /\ Go(t, "commitLeftover")
     \/ /\ Set(t, [mem.task[t] EXCEPT !.review = "rejected", !.status = "reworking"])
        /\ Go(t, "rework")
  /\ Save /\ InWave /\ SameGit

\* firstAttempt after a resume, attempt + 1 inside the loop
NextAttempt(t) ==
  LET next == mem.task[t].attempts + 1
  IN  IF step[t] = "rework" /\ next > MaxAttempts THEN MaxAttempts ELSE next

\* Mutant of StartAttempt: the limit of a resumed task is not looked at.
StartAnyAttempt(t) ==
  /\ flow = "wave" /\ step[t] \in {"fresh", "rework", "retry"} /\ Running
  /\ LET n == NextAttempt(t) IN
       Set(t, [mem.task[t] EXCEPT !.attempts = n,
                                  !.status = IF n = 1 THEN "working" ELSE "reworking"])
  /\ Go(t, "worker")
  /\ Save /\ InWave /\ SameGit

\* The head of the attempt loop; blockWithoutBudget and blockExhausted end it.
StartAttempt(t) ==
  /\ flow = "wave" /\ step[t] \in {"fresh", "rework", "retry"}
  /\ LET n == NextAttempt(t) IN
       \/ /\ n > MaxAttempts
          /\ Set(t, [mem.task[t] EXCEPT !.status = "blocked"])
          /\ Go(t, "blocked")
       \/ /\ n <= MaxAttempts /\ Running
          /\ Set(t, [mem.task[t] EXCEPT !.attempts = n,
                                        !.status = IF n = 1 THEN "working" ELSE "reworking"])
          /\ Go(t, "worker")
  /\ Save /\ InWave /\ SameGit

\* decideBeforeRetry says stop: the architect (saved), the identical-failure limit (not saved).
StopBeforeRetry(t) ==
  /\ At(t, "retry") /\ Running
  /\ mem.task[t].attempts < MaxAttempts
  /\ Set(t, [mem.task[t] EXCEPT !.status = "blocked"])
  /\ Go(t, "blocked")
  /\ Save \/ KeepDisk
  /\ InWave /\ SameGit

\* The worker edits its worktree at any time of its turn.
WorkerEdits(t) ==
  /\ At(t, "worker") /\ Running
  /\ tree' = [tree EXCEPT ![PlaceOf(t)] = "ungated"]
  /\ UNCHANGED <<mem, disk, step, branch>> /\ InWave

\* The end of the turn is accounted and saved; a worker that failed is tried again.
WorkerEnds(t) ==
  /\ At(t, "worker") /\ Running
  /\ \/ Go(t, "gates") /\ KeepMem
     \/ Go(t, "retry") /\ KeepMem
     \/ /\ Set(t, [mem.task[t] EXCEPT !.status = "blocked"])  \* TaskBudgetExceededError
        /\ Go(t, "blocked")
  /\ Save /\ InWave /\ SameGit

\* runTaskQualityGates: the usage is saved before the report is part of the state.
RunGates(t) ==
  /\ At(t, "gates") /\ Running
  /\ \E result \in {"passed", "failed"} :
       /\ Set(t, [mem.task[t] EXCEPT !.quality = result])
       /\ tree' = IF result = "passed" /\ tree[PlaceOf(t)] # "clean"
                  THEN [tree EXCEPT ![PlaceOf(t)] = "gated"] ELSE tree
  /\ disk' = mem
  /\ Go(t, "judge")
  /\ UNCHANGED branch /\ InWave

\* No changes, or changes outside the owned paths, are feedback for another attempt.
JudgeChanges(t) ==
  /\ At(t, "judge") /\ Running
  /\ KeepMem
  /\ \/ Go(t, "retry") /\ KeepDisk
     \/ tree[PlaceOf(t)] # "clean" /\ Go(t, "review") /\ Save
  /\ InWave /\ SameGit

\* reviewTaskAttempt and what attemptWork makes of the verdicts
Review(t) ==
  /\ At(t, "review") /\ Running
  /\ LET s == mem.task[t] IN
       \/ /\ Set(t, [s EXCEPT !.review = "accepted"])
          /\ Go(t, IF s.quality = "passed" THEN "commit" ELSE "retry")
       \/ /\ Set(t, [s EXCEPT !.review = "rejected"])
          /\ Go(t, "retry")
       \/ /\ s.quality # "passed"
          /\ Set(t, [s EXCEPT !.review = "rejected", !.status = "blocked"])
          /\ Go(t, "blocked")  \* a hard specialist escalation
       \/ KeepMem /\ Go(t, "retry")  \* a reviewer failed
  /\ Save /\ InWave /\ SameGit

\* The commit takes the content of the worktree as it is.
DoCommit(t) ==
  /\ step[t] \in {"commit", "commitLeftover"}
  /\ branch' = [branch EXCEPT ![PlaceOf(t)] = tree[PlaceOf(t)]]
  /\ tree' = [tree EXCEPT ![PlaceOf(t)] = "clean"]

Commit(t) ==
  /\ flow = "wave" /\ Running
  /\ DoCommit(t)
  /\ Go(t, "record")
  /\ KeepMem /\ KeepDisk /\ InWave

RecordCommit(t) ==
  /\ At(t, "record")
  /\ Set(t, [mem.task[t] EXCEPT !.commit = TRUE, !.status = "passed"])
  /\ Go(t, "passed")
  /\ Save /\ InWave /\ SameGit

\* The run budget, a failed install or a failed reviewer of a leftover end the task.
TaskThrows(t) ==
  /\ flow = "wave" /\ step[t] \in {"install", "leftover", "worker", "gates", "review"}
  /\ Running
  /\ Go(t, "failed")
  /\ KeepMem /\ (Save \/ KeepDisk) /\ InWave /\ SameGit

\* After the abort nothing that gets the signal goes on: throwIfAborted.  Between
\* git commit and git rev-parse, the commit is made and not recorded.
TaskAborts(t) ==
  /\ ~ Running
  /\ flow = "wave" /\ step[t] \in WaveSteps \ {"begin", "record"}
  /\ step[t] = "probe" => Reusable(t) /\ ~ mem.task[t].commit
  /\ step[t] \in {"fresh", "rework", "retry"} => NextAttempt(t) <= MaxAttempts
  /\ SameGit \/ DoCommit(t)
  /\ Go(t, "aborted")
  /\ KeepMem /\ KeepDisk /\ InWave

(***************************************************************************)
(* A git command that fails, for whatever reason, or that the abort kills  *)
(* ends with an exit code, and GitManager.git reports that, not the abort  *)
(* reason.  What it was to do may be done.                                 *)
(***************************************************************************)
GitFails(t) ==
  /\ flow = "wave" /\ step[t] \in {"add", "probe", "judge", "commit", "commitLeftover"}
  /\ step[t] = "probe" => Reusable(t) /\ ~ mem.task[t].commit
  /\ LET p == PlaceOf(t) IN
       \/ SameGit
       \/ /\ step[t] = "add" /\ tree[p] = "absent" /\ branch[p] = "absent"
          /\ tree' = [tree EXCEPT ![p] = "clean"]
          /\ branch' = [branch EXCEPT ![p] = "base"]
       \/ DoCommit(t)
  /\ Go(t, "failed")
  /\ KeepMem /\ KeepDisk /\ InWave

-----------------------------------------------------------------------------
(***************************************************************************)
(* The workflow around the waves: executeTasks, mergeOne, the checkpoints, *)
(* the final checks and the request of the approval.                       *)
(***************************************************************************)
SetRun(r) == mem' = r

\* Mutant of Checkpoint: the commit of the previous checkpoint is kept.
CheckpointKeepsHead(r, stage) ==
  [r EXCEPT !.stage = stage, !.done = WithStatus({"merged"})]

\* recordCheckpoint
Checkpoint(r, stage) ==
  [r EXCEPT !.stage = stage, !.head = Len(log), !.done = WithStatus({"merged"})]

\* mergeInterruptedPasses
MergePassed ==
  /\ flow = "mergePassed"
  /\ KeepMem
  /\ LET passed == {t \in WithStatus({"passed"}) : mem.task[t].slot # 0 /\ mem.task[t].commit} IN
       /\ queue' = passed
       /\ IF passed = {} THEN GoFlow("loop") /\ KeepDisk ELSE GoFlow("intent") /\ Save
  /\ OutOfWave /\ UNCHANGED <<failure, repo>>

\* Mutant of NextWave: a blocked task counts as not started.
NextWaveWithBlocked ==
  SelectWave(DependsOn, BatchKey, Overlap, Completed, Completed, MaxParallel)

(***************************************************************************)
(* The head of the loop of executeTasks.  Its set started is what is       *)
(* merged or blocked here: a wave leaves each of its tasks one or the      *)
(* other.  blockRemaining blocks what waits behind a failure.              *)
(***************************************************************************)
NextWave ==
  LET started == Completed \union WithStatus({"blocked"})
  IN  SelectWave(DependsOn, BatchKey, Overlap, Completed, started, MaxParallel)

StartWave ==
  /\ flow = "loop" /\ Running
  /\ \E next \in {NextWave} :
       \/ /\ next # <<>>
          /\ wave' = next
          /\ step' = [t \in Task |-> IF t \in ToSet(next) THEN "begin" ELSE "off"]
          /\ GoFlow("wave") /\ KeepMem
       \/ /\ next = <<>>
          /\ SetRun([mem EXCEPT !.task = [t \in Task |->
               IF t \in Completed THEN mem.task[t] ELSE [mem.task[t] EXCEPT !.status = "blocked"]]])
          /\ GoFlow("settle")
          /\ UNCHANGED <<wave, step>>
  /\ Save /\ UNCHANGED <<queue, abort, failure, breaks, repo>>

(***************************************************************************)
(* The wave is over when every task is.  reportWaveOutcome: without a      *)
(* passed or a blocked task the first error stops the run; otherwise the   *)
(* tasks that threw are lost (markTaskLost).                               *)
(***************************************************************************)
InWaveWith(S) == {t \in ToSet(wave) : step[t] \in S}

EndWave ==
  /\ flow = "wave"
  /\ InWaveWith(WaveSteps) = {}
  /\ LET lost == InWaveWith({"aborted", "failed"})
         passed == InWaveWith({"passed"})
         first == CHOOSE t \in lost : \A i, j \in DOMAIN wave :
                    wave[i] = t /\ wave[j] \in lost => i <= j
     IN  IF lost # {} /\ lost = ToSet(wave)
         THEN /\ Fail(IF step[first] = "aborted" THEN "abort" ELSE "error")
              /\ KeepMem /\ KeepDisk /\ UNCHANGED queue
         ELSE /\ SetRun([mem EXCEPT !.task = [t \in Task |->
                   IF t \in lost THEN [mem.task[t] EXCEPT !.status = "blocked"] ELSE mem.task[t]]])
              /\ Save
              /\ queue' = passed
              /\ GoFlow(IF passed = {} THEN "checkpoint" ELSE "intent")
              /\ UNCHANGED failure
  /\ step' = [t \in Task |-> "off"] /\ wave' = <<>>
  /\ UNCHANGED <<abort, breaks, repo>>

\* mergeOne merges in the order of the ids.
NextMerge == CHOOSE t \in queue : \A u \in queue : t <= u

\* Mutant of MergeIntent: the intent stays in memory.
MergeUnannounced ==
  /\ flow = "intent" /\ Running
  /\ Set(NextMerge, [mem.task[NextMerge] EXCEPT !.merging = TRUE])
  /\ GoFlow("git")
  /\ KeepDisk /\ OutOfWave /\ UNCHANGED <<queue, failure, repo>>

\* The intent is saved before git is asked to merge.
MergeIntent ==
  /\ flow = "intent" /\ Running
  /\ Set(NextMerge, [mem.task[NextMerge] EXCEPT !.merging = TRUE])
  /\ GoFlow("git")
  /\ Save /\ OutOfWave /\ UNCHANGED <<queue, failure, repo>>

DoMerge(t) ==
  /\ branch[PlaceOf(t)] \in {"ungated", "gated"}
  /\ log' = Append(log, [task |-> t, content |-> branch[PlaceOf(t)]])

GitMerge ==
  /\ flow = "git" /\ Running
  /\ DoMerge(NextMerge)
  /\ GoFlow("note")
  /\ KeepMem /\ KeepDisk /\ OutOfWave /\ UNCHANGED <<queue, failure, tree, branch, dirty>>

\* No such branch, a conflict that stays in the worktree, git killed by the
\* abort, or merged and HEAD cannot be read.
MergeFails ==
  /\ flow = "git"
  /\ Fail("error")
  /\ \/ DoMerge(NextMerge) /\ UNCHANGED dirty
     \/ UNCHANGED log /\ dirty' \in {dirty, branch[PlaceOf(NextMerge)] # "absent"}
  /\ KeepMem /\ KeepDisk /\ OutOfWave /\ UNCHANGED <<queue, tree, branch>>

\* The worktree of a merged task goes, if it can be removed.
NoteMerge ==
  /\ flow = "note"
  /\ LET t == NextMerge IN
       /\ Set(t, [mem.task[t] EXCEPT !.status = "merged", !.merging = FALSE])
       /\ tree' \in {tree, [tree EXCEPT ![PlaceOf(t)] = "absent"]}
       /\ queue' = queue \ {t}
       /\ GoFlow(IF queue = {t} THEN "checkpoint" ELSE "intent")
  /\ Save /\ OutOfWave /\ UNCHANGED <<failure, branch, log, dirty>>

CheckpointWave ==
  /\ flow = "checkpoint"
  /\ SetRun(Checkpoint(mem, "task-wave-integrated"))
  /\ GoFlow("loop")
  /\ Save /\ OutOfWave /\ UNCHANGED <<queue, failure, repo>>

\* settleBlocked: blocked tasks and nothing merged fail the run.
SettleBlocked ==
  /\ flow = "settle"
  /\ IF WithStatus({"blocked"}) # {} /\ WithStatus({"merged"}) = {}
     THEN Fail("error") ELSE GoFlow("tasksDone") /\ UNCHANGED failure
  /\ KeepMem /\ Save /\ OutOfWave /\ UNCHANGED <<queue, repo>>

CheckpointTasks ==
  /\ flow = "tasksDone"
  /\ SetRun(Checkpoint(mem, "tasks-complete"))
  /\ GoFlow("final")
  /\ Save /\ OutOfWave /\ UNCHANGED <<queue, failure, repo>>

\* The integration gates; decideStage throws on a failed gate.
FinalChecks ==
  /\ flow = "final" /\ Running
  /\ \/ SetRun([mem EXCEPT !.checked = Len(log)]) /\ GoFlow("decide") /\ UNCHANGED failure
     \/ KeepMem /\ Fail("error")
  /\ Save /\ OutOfWave /\ UNCHANGED <<queue, repo>>

\* With merged work and passed gates every decision is accepted; the agent may fail.
Decide ==
  /\ flow = "decide" /\ Running
  /\ \/ SetRun(Checkpoint(mem, "local-gates-passed")) /\ GoFlow("approve") /\ Save /\ UNCHANGED failure
     \/ KeepMem /\ KeepDisk /\ Fail("error")
  /\ OutOfWave /\ UNCHANGED <<queue, repo>>

RequestApproval ==
  /\ flow = "approve"
  /\ SetRun([mem EXCEPT !.status = "awaiting-human", !.asked = TRUE])
  /\ GoFlow("off")
  /\ Save /\ OutOfWave /\ UNCHANGED <<queue, failure, repo>>

-----------------------------------------------------------------------------
(***************************************************************************)
(* The abort reaches the workflow, and the catch block of run and resume.  *)
(***************************************************************************)
WorkflowAborts ==
  /\ ~ Running
  /\ flow \in {"loop", "intent", "git", "final", "decide"}
  /\ Fail("abort")
  /\ \/ UNCHANGED log
     \/ flow = "git" /\ DoMerge(NextMerge)  \* merged, but HEAD is not read any more
  /\ KeepMem /\ KeepDisk /\ OutOfWave /\ UNCHANGED <<queue, tree, branch, dirty>>

\* terminalStatusAfterFailure
StatusAfterFailure ==
  IF Running THEN "blocked"
  ELSE IF abort = "cancel" /\ failure = "abort" THEN "cancelled" ELSE "interrupted"

\* Only a pause that arrives as such keeps the worktrees.
SettleFailure ==
  /\ flow = "failing"
  /\ SetRun([mem EXCEPT !.status = StatusAfterFailure])
  /\ GoFlow(IF abort = "pause" /\ failure = "abort" THEN "off" ELSE "cleanTrees")
  /\ queue' = {}
  /\ Save /\ OutOfWave /\ UNCHANGED <<failure, repo>>

Without(places, git) == [p \in Place |-> IF p \in places THEN "absent" ELSE git[p]]

\* What is left of these places when each removal is tried, and some fail.
Cleaned(places, git) ==
  {Without(places \ left, git) : left \in {l \in SUBSET places : Cardinality(l) <= MaxLeftovers}}

\* RunArtifactCleaner.cleanup goes on when a worktree or a branch cannot be
\* removed; git keeps a branch that a worktree has checked out.
CleanTrees ==
  /\ flow = "cleanTrees"
  /\ tree' \in Cleaned({p \in Place : tree[p] # "absent"}, tree)
  /\ GoFlow("cleanBranches")
  /\ KeepMem /\ KeepDisk /\ OutOfWave /\ UNCHANGED <<queue, failure, branch, log, dirty>>

CleanBranches ==
  /\ flow = "cleanBranches"
  /\ branch' \in Cleaned({p \in Place : branch[p] # "absent" /\ tree[p] = "absent"}, branch)
  /\ GoFlow("off")
  /\ KeepMem /\ Save /\ OutOfWave /\ UNCHANGED <<queue, failure, tree, log, dirty>>

-----------------------------------------------------------------------------
(***************************************************************************)
(* Resume from the latest checkpoint.                                      *)
(***************************************************************************)
Resume ==
  /\ flow = "off" /\ disk.status = "interrupted"
  /\ mem' = disk /\ KeepDisk
  /\ GoFlow("validate")
  /\ abort' = "none" /\ failure' = "none"
  /\ UNCHANGED <<step, wave, queue, breaks, repo>>

Later == {i \in DOMAIN log : i > mem.head}

\* Mutant of OnlyPostCheckpointMerges: a merge that was only announced is foreign.
OnlyRecordedMerges ==
  \A i \in Later : mem.task[log[i].task].status = "merged"

\* isOnlyPostCheckpointMerges
OnlyPostCheckpointMerges ==
  LET due == {t \in Task \ mem.done : mem.task[t].status = "merged" \/ mem.task[t].merging}
  IN  /\ due # {}
      /\ \A i \in Later : log[i].task \in due
      /\ \A i, j \in Later : log[i].task = log[j].task => i = j

\* assertCheckpointMatches
CheckpointMatches ==
  /\ Len(log) # mem.head => OnlyPostCheckpointMerges
  /\ ~ dirty

MergedLater(t) == \E i \in Later : log[i].task = t

\* The merge that was found is not one of the commit the run recorded.
ForeignMerge(t) == mem.task[t].merging /\ ~ mem.task[t].commit /\ MergedLater(t)

(***************************************************************************)
(* reconcilePostCheckpointMerges, of these tasks: the marker goes, and the *)
(* merge it stood for is noted; a worktree goes if it can be removed.      *)
(***************************************************************************)
Reconciled(t) ==
  LET s == mem.task[t]
  IN  IF s.merging /\ s.commit /\ MergedLater(t)
      THEN [s EXCEPT !.merging = FALSE, !.status = "merged"]
      ELSE [s EXCEPT !.merging = FALSE]

Reconcile(tasks) ==
  /\ SetRun([mem EXCEPT !.task =
       [t \in Task |-> IF t \in tasks THEN Reconciled(t) ELSE mem.task[t]]])
  /\ tree' \in Cleaned({PlaceOf(t) : t \in {u \in tasks : mem.task[u].merging /\ MergedLater(u)}}, tree)

ReconcileMerges ==
  /\ flow = "validate" /\ Running
  /\ CheckpointMatches /\ \A t \in Task : ~ ForeignMerge(t)
  /\ Reconcile(Task)
  /\ GoFlow("prepare")
  /\ Save /\ OutOfWave /\ UNCHANGED <<queue, failure, branch, log, dirty>>

(***************************************************************************)
(* A refused resume keeps the status, so that it can be tried again, and   *)
(* saves what was reconciled before a foreign merge was met.               *)
(***************************************************************************)
RefuseResume ==
  /\ flow = "validate"
  /\ Running /\ CheckpointMatches => \E t \in Task : ForeignMerge(t)
  /\ Reconcile({t \in Task : /\ Running /\ CheckpointMatches
                             /\ \A u \in Task : u < t => ~ ForeignMerge(u)})
  /\ GoFlow("off")
  /\ Save /\ OutOfWave /\ UNCHANGED <<queue, failure, branch, log, dirty>>

\* Mutant of Kept: only the checkpoint protects merged tasks.
KeptOrRedone(s) ==
  \/ s.status = "passed" /\ s.commit /\ s.slot # 0
  \/ s.quality = "passed" /\ s.slot # 0 /\ s.status # "merged"

Kept(s) ==
  \/ s.status = "merged"
  \/ s.status = "passed" /\ s.commit /\ s.slot # 0
  \/ s.quality = "passed" /\ s.slot # 0

\* Mutant of ContinueAt: the integration gates are not run again.
ContinueAtDecision(stage) ==
  CASE stage = "local-gates-passed" -> "approve"
    [] stage = "tasks-complete" -> "decide"
    [] OTHER -> "mergePassed"

\* continueFromCheckpoint
ContinueAt(stage) ==
  CASE stage = "local-gates-passed" -> "approve"
    [] stage = "tasks-complete" -> "final"
    [] OTHER -> "mergePassed"

PrepareRecovery ==
  /\ flow = "prepare"
  /\ mem.done \subseteq WithStatus({"merged"})
  /\ LET reset == {t \in Task \ mem.done : ~ Kept(mem.task[t])}
         abandoned == reset \ WithStatus({"pending"})
     IN  SetRun([mem EXCEPT
           !.status = "active",
           !.task = [t \in Task |-> IF t \in reset THEN ResetTask(mem.task[t]) ELSE mem.task[t]],
           !.resumes = IF abandoned # {} THEN @ + 1 ELSE @])
  /\ GoFlow(ContinueAt(mem.stage))
  /\ Save /\ OutOfWave /\ UNCHANGED <<queue, failure, repo>>

-----------------------------------------------------------------------------
(***************************************************************************)
(* The control service: aborts, its death and its restart.                 *)
(***************************************************************************)
Abort ==
  /\ flow \notin {"off", "down", "cleanTrees", "cleanBranches"} /\ Running
  /\ breaks < MaxBreaks
  /\ abort' \in {"pause", "cancel", "shutdown"}
  /\ breaks' = breaks + 1
  /\ UNCHANGED <<mem, disk, flow, step, wave, queue, failure, repo>>

\* The process dies; a git merge that was running may be left unfinished.
Crash ==
  /\ flow # "down" /\ breaks < MaxBreaks
  /\ GoFlow("down")
  /\ breaks' = breaks + 1
  /\ dirty' \in {dirty, dirty \/ (flow = "git" /\ branch[PlaceOf(NextMerge)] # "absent")}
  /\ mem' = disk /\ KeepDisk
  /\ step' = [t \in Task |-> "off"] /\ wave' = <<>> /\ queue' = {}
  /\ abort' = "none" /\ failure' = "none"
  /\ UNCHANGED <<tree, branch, log>>

\* reconcileInterruptedRuns: the approval boundary first, then the active statuses.
Restart ==
  /\ flow = "down"
  /\ LET atBoundary == disk.stage = "local-gates-passed"
         restorable == disk.head = Len(log) /\ ~ dirty
     IN  SetRun([disk EXCEPT
           !.status = IF atBoundary /\ (disk.asked \/ restorable) THEN "awaiting-human"
                      ELSE IF @ = "active" THEN "interrupted" ELSE @,
           !.asked = @ \/ (atBoundary /\ restorable)])
  /\ GoFlow("off")
  /\ Save /\ OutOfWave /\ UNCHANGED <<queue, failure, repo>>

\* The operator finishes or undoes the merge a resume refuses to build on.
CleanIntegration ==
  /\ flow = "off" /\ dirty
  /\ dirty' = FALSE
  /\ UNCHANGED <<mem, disk, flow, step, wave, queue, abort, failure, breaks, tree, branch, log>>

-----------------------------------------------------------------------------
TaskStep(t) ==
  \/ BeginTask(t) \/ AddWorktree(t) \/ InstallDependencies(t) \/ Probe(t) \/ ReviewLeftover(t)
  \/ StartAttempt(t) \/ StopBeforeRetry(t) \/ WorkerEnds(t) \/ RunGates(t) \/ JudgeChanges(t)
  \/ Review(t) \/ Commit(t) \/ RecordCommit(t) \/ TaskThrows(t) \/ TaskAborts(t) \/ GitFails(t)

FlowStep ==
  \/ MergePassed \/ StartWave \/ EndWave \/ MergeIntent \/ GitMerge \/ MergeFails \/ NoteMerge
  \/ CheckpointWave \/ SettleBlocked \/ CheckpointTasks \/ FinalChecks \/ Decide \/ RequestApproval
  \/ WorkflowAborts \/ SettleFailure \/ CleanTrees \/ CleanBranches
  \/ ReconcileMerges \/ RefuseResume \/ PrepareRecovery

Next ==
  \/ \E t \in Task : TaskStep(t) \/ WorkerEdits(t)
  \/ FlowStep
  \/ Resume \/ Abort \/ Crash \/ Restart \/ CleanIntegration

Spec == Init /\ [][Next]_vars

(***************************************************************************)
(* Agents, gates and git commands run under timeouts, so of the steps that *)
(* were started some step ends: that is all the fairness assumed, not even *)
(* that each task of a wave goes on.  Nothing makes the operator resume a  *)
(* run, nor the process start again.                                       *)
(***************************************************************************)
StartedStep == FlowStep \/ \E t \in Task : TaskStep(t)

FairSpec == Spec /\ WF_vars(StartedStep)

-----------------------------------------------------------------------------
(***************************************************************************)
(* The integration branch and state.json never drift apart: every merge is *)
(* of a task that state.json has as merged or about to be merged, every    *)
(* task it has as merged is on the branch, and nothing is merged twice.    *)
(***************************************************************************)
LogIsRecorded ==
  /\ \A i \in DOMAIN log :
       LET s == disk.task[log[i].task] IN s.status = "merged" \/ (s.merging /\ s.commit)
  /\ {t \in Task : disk.task[t].status = "merged"} \subseteq MergedIn(log)
  /\ \A i, j \in DOMAIN log : log[i].task = log[j].task => i = j

\* A checkpoint names exactly the tasks merged up to the commit it records.
CheckpointIsPrefix ==
  \A r \in {mem, disk} :
    r.head <= Len(log) /\ r.done = {log[i].task : i \in 1 .. r.head}

(***************************************************************************)
(* A resume is never refused for what the workflow itself left behind,     *)
(* wherever it stopped: only an unfinished merge in the integration        *)
(* worktree is the operator's to clear.                                    *)
(***************************************************************************)
RecoveryAccepted ==
  /\ flow = "validate" /\ ~ dirty => CheckpointMatches /\ \A t \in Task : ~ ForeignMerge(t)
  /\ flow = "prepare" => mem.done \subseteq WithStatus({"merged"})

(***************************************************************************)
(* Workers at work at the same time have worktrees of their own and        *)
(* disjoint owned paths, and what they depend on is merged.                *)
(***************************************************************************)
WorkersDisjoint ==
  \A t \in ToSet(wave) :
    /\ DependsOn[t] \subseteq MergedIn(log)
    /\ \A u \in ToSet(wave) \ {t} : <<t, u>> \notin Overlap

\* A merged task is never worked on, committed or merged again, whatever is resumed.
MergedStaysMerged ==
  /\ \A t \in MergedIn(log) : t \notin ToSet(wave)
  /\ flow \in {"intent", "git"} => NextMerge \notin MergedIn(log)

(***************************************************************************)
(* What is offered for approval is what the integration gates passed on:   *)
(* the whole branch, with no merge after the checks and none half done.    *)
(***************************************************************************)
OfferedWasChecked ==
  disk.asked =>
    /\ disk.status = "awaiting-human"
    /\ disk.checked = Len(log) /\ disk.head = Len(log) /\ ~ dirty
    /\ \A t \in Task : ~ disk.task[t].merging

\* The workflow implements the promise about the integration branch.
Promise == INSTANCE IntegrationLog WITH
  merged <- [i \in DOMAIN log |-> log[i].task],
  offered <- IF disk.asked THEN disk.checked ELSE 0

ImplementsPromise == Promise!Spec

\* Every run and every resume ends: it parks, it settles, or its process dies.
Settles == flow \notin {"off", "down"} ~> flow \in {"off", "down"}

-----------------------------------------------------------------------------
(***************************************************************************)
(* Statements of the repository that the code does not keep.               *)
(***************************************************************************)
(***************************************************************************)
(* README.md:44: a pause settles the run as interrupted and keeps the      *)
(* checkpoint and the task worktrees.                                      *)
(***************************************************************************)
PauseKeepsWorktrees == flow = "cleanTrees" => abort # "pause"

(***************************************************************************)
(* scheduler.ts:223: a run does not park for approval with a phantom       *)
(* unfinished task.                                                        *)
(***************************************************************************)
NoPhantomTask ==
  disk.status = "awaiting-human" =>
    \A t \in Task : disk.task[t].status \in {"merged", "blocked"}

(***************************************************************************)
(* checkpoints.ts:243: where a resume keeps a task because its gates have  *)
(* passed, "worker and quality already finished": what it goes on to       *)
(* review and commit is what the gates passed on.                          *)
(***************************************************************************)
KeptWorkWasGated ==
  \A t \in Task : step[t] \in {"leftover", "commitLeftover"} => tree[PlaceOf(t)] = "gated"
=============================================================================

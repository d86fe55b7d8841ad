------------------------ MODULE EvolutionApplication ------------------------
(***************************************************************************)
(* The controlled application of evolution proposals to a repository       *)
(* (src/src/evolution).  A command promotes a proposal and writes its      *)
(* definition to a target (a strategy, or a role prompt that is committed  *)
(* with Git), or takes that back.  Three things change one after the       *)
(* other: the target, the catalog of proposals and the journal of          *)
(* applications.  The coordinator writes a pending operation into the      *)
(* journal first, and decides on its next opening what became of it.       *)
(*                                                                         *)
(* The coordinator executes one operation at a time (enqueue); what        *)
(* happens between its steps is the death of the process, a failed write,  *)
(* and people who edit the targets or commit to the repository.            *)
(***************************************************************************)
EXTENDS Integers, Sequences, FiniteSets

CONSTANTS
  Proposal,    \* ids of proposals
  Prompt,      \* those whose candidate is a role prompt; the others name the strategy
  Command,     \* ids of application commands, numbered in the order they are first accepted
  Content,     \* what a target can hold
  Definition,  \* what the candidate of a proposal makes of its target
  Absent,      \* the strategy does not exist
  None,
  Legacy,      \* worlds older than the journal: the revision of the catalog, the strategies it
               \* promoted one over the other (the latest first), the proposals that passed their
               \* evaluation, and what the targets hold
  MaxRevision, \* bound on the revision of the catalog
  MaxPreviews, \* bound on the previews that have not expired
  MaxTroubles  \* bound on failed writes, on deaths of the process in mid-operation, and on edits
               \* of a target and commits by people

ASSUME PromptAssumption == Prompt \subseteq Proposal
ASSUME CommandAssumption == Command \subseteq Nat \ {0}
ASSUME DefinitionAssumption == Definition \in [Proposal -> Content]
ASSUME OutsideAssumption ==
  /\ Absent \notin Content /\ None \notin Content \union {Absent}
  /\ None \notin Proposal \union Command
\* A proposal was promoted once at most; a prompt that is tracked by Git exists.
ASSUME LegacyAssumption ==
  \A old \in Legacy :
    /\ old.revision \in Nat /\ old.promoted \in Seq(Proposal \ Prompt)
    /\ \A i, j \in DOMAIN old.promoted : old.promoted[i] = old.promoted[j] => i = j
    /\ old.strategy \in Content \union {Absent} /\ old.prompt \in Content
ASSUME BoundAssumption ==
  MaxRevision \in Nat /\ MaxPreviews \in Nat /\ MaxTroubles \in Nat

VARIABLES
  journal,       \* application-state.json
  catalog,       \* catalog.json
  live,          \* what each target holds
  git,           \* the branch the prompt is committed on
  pc,            \* where the coordinator is; "down" when its process is
  opened,        \* its state can be used: no write of the journal has failed
  state,         \* the journal as the coordinator has it
  memory,        \* the catalog as its process has it
  indeterminate, \* the last commit of the catalog may or may not be durable
  previews,
  troubles,
  disturbed,     \* history: somebody edited the target since the last operation on it began
  blind          \* history: the pending operation began with the catalog indeterminate

vars == <<journal, catalog, live, git, pc, opened, state, memory, indeterminate, previews,
          troubles, disturbed, blind>>

-----------------------------------------------------------------------------
Target == {"strategy", "prompt"}
TargetOf(p) == IF p \in Prompt THEN "prompt" ELSE "strategy"
Holds == Content \union {Absent}

\* "passed" and "failed" are the evaluated proposals, by the result of the evaluation.
Status ==
  {"absent", "proposed", "evaluating", "passed", "failed", "promoted", "rolled-back", "rejected",
   "deleted"}
Known(c, p) == c.status[p] \notin {"absent", "deleted"}

Audit ==
  [kind : {"promotion", "rollback", "rejection", "archive", "unarchive"},
   command : Command \union {None}, restored : Proposal \union {None}]

\* The command id of the predecessor that a reconciliation captured ("legacy:" and its own id).
LegacyOf(command) == -command
LegacyId == {LegacyOf(command) : command \in Command}

\* A proof that a proposal was applied; a chain of them has the latest first, and every one
\* replaced the next (previousApplication).
Application ==
  [proposal : Proposal, command : Command \union LegacyId, status : {"applied", "adopted"},
   before : Holds, after : Holds, safe : BOOLEAN, revision : Nat]

Operation == {"promote", "rollback", "reconcile"}
Outcome == {"applied", "adopted", "rolled-back", "aborted"}
Pending ==
  [command : Command, op : Operation, proposal : Proposal, revision : Nat, expected : Nat,
   before : Holds, after : Holds, active : Proposal \union {None}, previous : Seq(Application),
   audit : Audit \union {None}, base : Nat \union {None}]
Completion ==
  [command : Command \union LegacyId, op : Operation, proposal : Proposal, status : Outcome,
   before : Holds, after : Holds, from : Nat, to : Nat]
Binding == [op : Operation, proposal : Proposal, snapshot : Status, status : Outcome]
ASSUME NoneAssumption == None \notin Pending \union Binding
Preview ==
  [op : {"promote", "rollback"}, proposal : Proposal, revision : Nat, before : Holds,
   after : Holds, active : Proposal \union {None}, previous : Seq(Application)]

Journal ==
  [pending : Pending \union {None}, completed : SUBSET Completion,
   commands : [Command -> Binding \union {None}], apps : [Proposal -> Seq(Application)],
   recovery : BOOLEAN]
Catalog ==
  [revision : Nat, status : [Proposal -> Status], active : [Target -> Proposal \union {None}],
   audits : [Proposal -> Seq(Audit)]]
Pc ==
  {"down", "idle", "apply", "stage", "commit", "verify", "promote", "record",  \* a command
   "refused", "lost", "unfinished",                                            \* one that failed
   "settle", "restored", "conclude"}                                           \* an opening

\* The branch: its length, what the last commit touched, the prompt at HEAD and in the index.
Git == [head : Nat, touched : {"prompt", "other"}, content : Content,
        staged : Content \union {None}]
Clean == live["prompt"] = git.content /\ git.staged = None

TypeOK ==
  /\ journal \in Journal /\ state \in Journal
  /\ catalog \in Catalog /\ memory \in Catalog
  /\ live \in [Target -> Holds] /\ git \in Git
  /\ pc \in Pc /\ opened \in BOOLEAN /\ indeterminate \in BOOLEAN
  /\ previews \in SUBSET Preview /\ Cardinality(previews) <= MaxPreviews
  /\ troubles \in 0..MaxTroubles
  /\ disturbed \in [Target -> BOOLEAN] /\ blind \in BOOLEAN

EmptyJournal ==
  [pending |-> None, completed |-> {}, commands |-> [c \in Command |-> None],
   apps |-> [p \in Proposal |-> <<>>], recovery |-> FALSE]

\* A catalog in which a chain was promoted when nothing was applied by it.
LegacyCatalog(old) ==
  LET promoted == {old.promoted[i] : i \in DOMAIN old.promoted}
      Below(p) == {old.promoted[i + 1] : i \in {i \in 1..Len(old.promoted) - 1 : old.promoted[i] = p}}
  IN [revision |-> old.revision,
      status |-> [p \in Proposal |-> IF p \in promoted THEN "promoted"
                                     ELSE IF p \in old.passed THEN "passed" ELSE "absent"],
      active |-> [t \in Target |-> IF t = "strategy" /\ promoted # {} THEN old.promoted[1] ELSE None],
      audits |-> [p \in Proposal |->
        IF p \notin promoted THEN <<>>
        ELSE <<[kind |-> "promotion", command |-> None,
                restored |-> IF Below(p) = {} THEN None ELSE CHOOSE q \in Below(p) : TRUE]>>]]

Init ==
  /\ journal = EmptyJournal /\ state = EmptyJournal
  /\ \E old \in Legacy :
       /\ catalog = LegacyCatalog(old) /\ memory = LegacyCatalog(old)
       /\ live = [t \in Target |-> IF t = "strategy" THEN old.strategy ELSE old.prompt]
       /\ git = [head |-> 0, touched |-> "other", content |-> old.prompt, staged |-> None]
  /\ pc = "down" /\ opened = FALSE /\ indeterminate = FALSE /\ previews = {}
  /\ troubles = 0
  /\ disturbed = [t \in Target |-> FALSE] /\ blind = FALSE

-----------------------------------------------------------------------------
\* The catalog's transitions.
Advance(c, p, s) == [c EXCEPT !.revision = @ + 1, !.status[p] = s]
Audited(c, p, kind, command, restored) ==
  [c EXCEPT !.audits[p] = Append(@, [kind |-> kind, command |-> command, restored |-> restored])]

AuditsOf(c, p) == {c.audits[p][i] : i \in DOMAIN c.audits[p]}
CommandIsFree(c, command) ==
  \A p \in Proposal : \A audit \in AuditsOf(c, p) : audit.command # command
\* The promotion of p, which every promoted or rolled back proposal has.
Promotion(c, p) == CHOOSE audit \in AuditsOf(c, p) : audit.kind = "promotion"
HasPromotion(c, p) == \E audit \in AuditsOf(c, p) : audit.kind = "promotion"
Replaced(c, p) == IF HasPromotion(c, p) THEN Promotion(c, p).restored ELSE None

Promote(c, p, command) ==
  [Audited(Advance(c, p, "promoted"), p, "promotion", command, c.active[TargetOf(p)])
     EXCEPT !.active[TargetOf(p)] = p]
CanRollBack(c, p) == c.status[p] = "promoted" /\ c.active[TargetOf(p)] = p
RollBack(c, p, command) ==
  [Audited(Advance(c, p, "rolled-back"), p, "rollback", command, Replaced(c, p))
     EXCEPT !.active[TargetOf(p)] = Replaced(c, p)]

Latest(sequence) == sequence[Len(sequence)]
IsArchived(c, p) ==
  \E i \in DOMAIN c.audits[p] :
    /\ c.audits[p][i].kind = "archive"
    /\ \A j \in DOMAIN c.audits[p] : j > i => c.audits[p][j].kind # "unarchive"

-----------------------------------------------------------------------------
(* What the coordinator checks when it loads its journal: the journal and  *)
(* the catalog tell the same story.                                        *)

\* The catalog has come to what the pending operation was going to make of it.
OutcomeReached(c, pending) ==
  LET p == pending.proposal IN
  /\ c.revision = pending.expected /\ Known(c, p)
  /\ pending.op # "reconcile" => c.audits[p] # <<>> /\ Latest(c.audits[p]) = pending.audit
  /\ IF pending.op = "rollback"
     THEN c.status[p] = "rolled-back" /\ c.active[TargetOf(p)] = pending.audit.restored
     ELSE c.status[p] = "promoted" /\ c.active[TargetOf(p)] = p

CompletionsOf(j, command) == {done \in j.completed : done.command = command}
IsBound(j, command) == command \in Command /\ j.commands[command] # None

\* The reconciliations that may have captured a predecessor without a command.
Owners(j, parent) ==
  (IF j.pending # None /\ j.pending.op = "reconcile" /\ parent = j.pending.command
   THEN {[command |-> j.pending.command, proposal |-> j.pending.proposal]} ELSE {})
    \union
  {[command |-> c, proposal |-> j.commands[c].proposal] :
     c \in {c \in Command : /\ j.commands[c] # None /\ j.commands[c].op = "reconcile"
                            /\ parent \in {None, c} /\ CompletionsOf(j, c) # {}}}

\* The i-th proof of a chain that the command "above" extends (None: nothing does) is that of a
\* predecessor which a reconciliation captured.
IsCaptured(j, c, chain, i, above) ==
  LET app == chain[i]
      parent == IF i = 1 THEN above ELSE chain[i - 1].command
  IN /\ ~IsBound(j, app.command) /\ app.command \in LegacyId
     /\ app.status = "adopted" /\ i = Len(chain) /\ ~app.safe /\ app.before = app.after
     /\ CompletionsOf(j, app.command) # {}
     /\ \E owner \in Owners(j, parent) :
          /\ app.command = LegacyOf(owner.command)
          /\ Replaced(c, owner.proposal) = app.proposal

ProofHolds(j, c, chain, i, above) ==
  LET app == chain[i]
      bound == IsBound(j, app.command)
      adopts == bound /\ j.commands[app.command].status = "adopted"
  IN /\ Known(c, app.proposal) /\ app.revision <= c.revision
     /\ app.after = Definition[app.proposal]
     /\ \E done \in CompletionsOf(j, app.command) :
          /\ done.proposal = app.proposal /\ done.status = app.status /\ done.to = app.revision
          /\ done.before = app.before /\ done.after = app.after
          /\ bound \/ done.from = app.revision
          /\ done.op = "promote" =>
               /\ bound /\ j.commands[app.command].op = "promote"
               /\ app.safe /\ app.status = "applied"
          /\ done.op = "reconcile" =>
               IF bound THEN /\ j.commands[app.command].op = "reconcile"
                             /\ app.status = j.commands[app.command].status
                             /\ app.safe = (~adopts \/ i < Len(chain))
               ELSE IsCaptured(j, c, chain, i, above)
     /\ bound => j.commands[app.command].status = app.status

ChainHolds(j, c, chain, above) == \A i \in DOMAIN chain : ProofHolds(j, c, chain, i, above)

InEffect(j, c, p) ==
  LET active == c.active[TargetOf(p)] IN
  \/ active # None /\ (active = p \/ Replaced(c, active) = p)
  \/ /\ j.pending # None /\ j.pending.op = "rollback" /\ j.pending.proposal = p
     /\ OutcomeReached(c, j.pending)

ApplicationsHold(j, c) ==
  \A p \in Proposal :
    j.apps[p] # <<>> => ChainHolds(j, c, j.apps[p], None) /\ InEffect(j, c, p)

PendingHolds(j, c) ==
  j.pending # None =>
    LET pending == j.pending
        p == pending.proposal
        previous == IF pending.op = "promote"
                    THEN IF pending.active = None THEN <<>> ELSE j.apps[pending.active]
                    ELSE IF pending.op = "rollback" THEN j.apps[p] ELSE pending.previous
    IN /\ Known(c, p)
       /\ pending.previous = previous
       /\ previous # <<>> => pending.before = previous[1].after
       /\ pending.after = IF pending.op = "rollback" /\ previous # <<>> THEN previous[1].before
                          ELSE Definition[p]
       /\ c.revision \in {pending.revision, pending.expected}
       /\ c.revision = pending.revision =>
            c.active[TargetOf(p)] = IF pending.op = "promote" THEN pending.active ELSE p
       /\ pending.op = "reconcile" =>
            /\ CanRollBack(c, p)
            /\ ChainHolds(j, c, previous, pending.command)
            /\ Replaced(c, p) = IF previous = <<>> THEN None ELSE previous[1].proposal

\* The captured predecessors that some proof rests on.
Captured(j, c) ==
  {id \in LegacyId :
     \/ \E p \in Proposal : \E i \in DOMAIN j.apps[p] :
          j.apps[p][i].command = id /\ IsCaptured(j, c, j.apps[p], i, None)
     \/ /\ j.pending # None /\ j.pending.op = "reconcile"
        /\ \E i \in DOMAIN j.pending.previous :
             /\ j.pending.previous[i].command = id
             /\ IsCaptured(j, c, j.pending.previous, i, j.pending.command)}

CompletionsHold(j, c) ==
  \A done \in j.completed :
    /\ Known(c, done.proposal) /\ done.from <= done.to /\ done.to <= c.revision
    /\ IsBound(j, done.command) \/ done.command \in Captured(j, c)
    /\ done.op # "reconcile" =>
         ((done.status \in {"applied", "rolled-back"}) <=>
            \E audit \in AuditsOf(c, done.proposal) :
              /\ audit.kind = IF done.op = "promote" THEN "promotion" ELSE "rollback"
              /\ audit.command = done.command)

\* The proposal a command answered with is an earlier one of what the proposal is now.
IsHistoryOf(snapshot, now) ==
  \/ snapshot = now
  \/ <<snapshot, now>> \in {<<"passed", "promoted">>, <<"passed", "rolled-back">>,
                            <<"passed", "rejected">>, <<"promoted", "rolled-back">>}

BindingsHold(j, c) ==
  \A command \in Command :
    j.commands[command] # None =>
      /\ \E done \in CompletionsOf(j, command) :
           /\ done.op = j.commands[command].op
           /\ done.proposal = j.commands[command].proposal
      /\ IsHistoryOf(j.commands[command].snapshot, c.status[j.commands[command].proposal])

AuditsOwned(j, c) ==
  \A p \in Proposal : \A audit \in AuditsOf(c, p) :
    audit.command # None =>
      LET done == CompletionsOf(j, audit.command) IN
      /\ \/ done # {}
         \/ j.pending # None /\ j.pending.command = audit.command /\ OutcomeReached(c, j.pending)
      /\ \A d \in done : d.proposal = p /\ d.status \in {"applied", "rolled-back"}

Loadable(j, c) ==
  /\ ApplicationsHold(j, c) /\ PendingHolds(j, c) /\ CompletionsHold(j, c)
  /\ BindingsHold(j, c) /\ AuditsOwned(j, c)

-----------------------------------------------------------------------------
Trouble == troubles < MaxTroubles /\ troubles' = troubles + 1

\* Writing the two documents.  A write that fails may have been made all the same.
Persist(j) == journal' = j /\ state' = j /\ UNCHANGED <<opened, troubles>>
PersistFails(j) ==
  /\ Trouble
  /\ journal' \in {journal, j} /\ state' = [j EXCEPT !.recovery = TRUE] /\ opened' = FALSE

Commit(c) ==
  ~indeterminate /\ catalog' = c /\ memory' = c /\ UNCHANGED <<indeterminate, troubles>>
\* Before the rename, or after it.
CommitFails(c) ==
  /\ ~indeterminate /\ Trouble
  /\ \/ UNCHANGED <<catalog, memory, indeterminate>>
     \/ catalog' \in {catalog, c} /\ indeterminate' = TRUE /\ UNCHANGED memory

Writable == opened /\ ~state.recovery /\ state.pending = None
Idle == pc = "idle" /\ Writable

-----------------------------------------------------------------------------
\* The operations that only change the catalog.
Mutate(c) ==
  /\ Idle /\ memory.revision < MaxRevision
  /\ Commit(c) \/ CommitFails(c)
  /\ UNCHANGED <<journal, live, git, pc, opened, state, previews, disturbed, blind>>

Propose(p) == memory.status[p] = "absent" /\ Mutate(Advance(memory, p, "proposed"))
BeginEvaluation(p) == memory.status[p] = "proposed" /\ Mutate(Advance(memory, p, "evaluating"))
Evaluate(p) ==
  /\ memory.status[p] = "evaluating"
  /\ \E result \in {"passed", "failed"} : Mutate(Advance(memory, p, result))
Reject(p) ==
  /\ memory.status[p] \in {"passed", "failed"}
  /\ Mutate(Audited(Advance(memory, p, "rejected"), p, "rejection", None, None))
Archive(p) ==
  /\ memory.status[p] \in {"passed", "failed", "promoted", "rejected", "rolled-back"}
  /\ ~IsArchived(memory, p)
  /\ Mutate(Audited(Advance(memory, p, memory.status[p]), p, "archive", None, None))
Unarchive(p) ==
  /\ IsArchived(memory, p)
  /\ Mutate(Audited(Advance(memory, p, memory.status[p]), p, "unarchive", None, None))
\* The proposal is gone; its tombstone keeps the id from being used again.
Delete(p) == memory.status[p] = "rejected" /\ Mutate(Advance(memory, p, "deleted"))

-----------------------------------------------------------------------------
\* Previews, which a command has to present.
Mint(v) ==
  /\ Idle /\ Cardinality(previews) < MaxPreviews
  /\ previews' = previews \union {v}
  /\ UNCHANGED <<journal, catalog, live, git, pc, opened, state, memory, indeterminate,
                 troubles, disturbed, blind>>

ProofsOf(p) == IF p = None THEN <<>> ELSE state.apps[p]
\* The proposal that is active has a proof.
NoUnreconciledConflict(p) ==
  memory.active[TargetOf(p)] # None => ProofsOf(memory.active[TargetOf(p)]) # <<>>

\* Mutant of PreviewPromotion: an edit of the target since the last application goes unnoticed.
PreviewOverEdit(p) ==
  LET t == TargetOf(p) IN
  /\ memory.status[p] = "passed" /\ NoUnreconciledConflict(p)
  /\ Mint([op |-> "promote", proposal |-> p, revision |-> memory.revision, before |-> live[t],
           after |-> Definition[p], active |-> memory.active[t],
           previous |-> ProofsOf(memory.active[t])])

PreviewPromotion(p) ==
  LET t == TargetOf(p)
      active == memory.active[t]
      previous == ProofsOf(active)
  IN /\ memory.status[p] = "passed" /\ NoUnreconciledConflict(p)
     /\ previous # <<>> => live[t] = previous[1].after
     /\ Mint([op |-> "promote", proposal |-> p, revision |-> memory.revision,
              before |-> live[t], after |-> Definition[p], active |-> active,
              previous |-> previous])

PreviewRollback(p) ==
  LET t == TargetOf(p)
      previous == state.apps[p]
  IN /\ CanRollBack(memory, p)
     /\ previous # <<>> /\ previous[1].safe /\ live[t] = previous[1].after
     /\ Mint([op |-> "rollback", proposal |-> p, revision |-> memory.revision,
              before |-> live[t], after |-> previous[1].before, active |-> p,
              previous |-> previous])

ExpirePreview(v) ==
  /\ previews' = previews \ {v}
  /\ UNCHANGED <<journal, catalog, live, git, pc, opened, state, memory, indeterminate,
                 troubles, disturbed, blind>>

-----------------------------------------------------------------------------
(* A command.                                                              *)

\* The pending operation is durable before anything else is touched.
Start(j, left) ==
  /\ \/ Persist(j) /\ pc' = "apply" /\ previews' = left
     \/ PersistFails(j) /\ pc' = "idle" /\ UNCHANGED previews
  /\ blind' = indeterminate
  /\ disturbed' = [disturbed EXCEPT ![TargetOf(j.pending.proposal)] = FALSE]
  /\ UNCHANGED <<catalog, live, git, memory, indeterminate>>

\* An id that has no answer yet; one that has is answered again and nothing happens.
Unanswered(command) ==
  /\ state.commands[command] = None
  /\ \A earlier \in Command : earlier < command => state.commands[earlier] # None

\* promoteAndApply and rollbackAppliedPromotion, up to the pending operation.
Execute(command, v) ==
  LET p == v.proposal
      t == TargetOf(p)
      next == IF v.op = "promote" THEN Promote(memory, p, command)
              ELSE RollBack(memory, p, command)
  IN /\ Idle /\ Unanswered(command)
     /\ memory.revision = v.revision /\ memory.revision < MaxRevision
     /\ CommandIsFree(memory, command)
     /\ \/ v.op = "promote" /\ memory.status[p] = "passed" /\ NoUnreconciledConflict(p)
        \/ /\ v.op = "rollback" /\ CanRollBack(memory, p) /\ state.apps[p] # <<>>
           /\ Replaced(memory, p) = IF Len(v.previous) > 1 THEN v.previous[2].proposal ELSE None
     /\ live[t] = v.before /\ memory.active[t] = v.active
     /\ v.after = IF v.op = "promote" THEN Definition[p] ELSE state.apps[p][1].before
     /\ t = "prompt" => Clean
     /\ Start([state EXCEPT !.pending =
                 [command |-> command, op |-> v.op, proposal |-> p, revision |-> v.revision,
                  expected |-> v.revision + 1, before |-> v.before, after |-> v.after,
                  active |-> v.active, previous |-> v.previous,
                  audit |-> Latest(next.audits[p]),
                  base |-> IF t = "prompt" THEN git.head ELSE None]],
              previews \ {v})

\* The proofs below that of a legacy promotion: none, the predecessor's, or one captured now.
Predecessor(p, command) ==
  LET below == Replaced(memory, p) IN
  IF below = None THEN <<>>
  ELSE IF state.apps[below] # <<>> THEN state.apps[below]
  ELSE <<[proposal |-> below, command |-> LegacyOf(command), status |-> "adopted",
          before |-> live[TargetOf(p)], after |-> live[TargetOf(p)], safe |-> FALSE,
          revision |-> memory.revision]>>
CapturedCompletion(chain) ==
  {[command |-> app.command, op |-> "reconcile", proposal |-> app.proposal, status |-> "adopted",
    before |-> app.before, after |-> app.after, from |-> app.revision, to |-> app.revision] :
     app \in {chain[i] : i \in {i \in DOMAIN chain : /\ chain[i].command \in LegacyId
                                                     /\ state.apps[chain[i].proposal] = <<>>}}}

Reconcilable(command, p) ==
  /\ Idle /\ Unanswered(command)
  /\ CanRollBack(memory, p) /\ state.apps[p] = <<>>
Forget(apps, chain) ==
  IF chain = <<>> THEN apps ELSE [apps EXCEPT ![chain[1].proposal] = <<>>]

\* reconcilePromoted in the mode "adopt": the target already is what the candidate says.
Adopt(command, p) ==
  LET chain == Predecessor(p, command)
      now == live[TargetOf(p)]
      before == IF chain = <<>> THEN now ELSE chain[1].after
      app == [proposal |-> p, command |-> command, status |-> "adopted", before |-> before,
              after |-> now, safe |-> chain # <<>>, revision |-> memory.revision]
      done == [command |-> command, op |-> "reconcile", proposal |-> p, status |-> "adopted",
               before |-> before, after |-> now, from |-> memory.revision,
               to |-> memory.revision]
      j == [state EXCEPT
              !.apps = [Forget(state.apps, chain) EXCEPT ![p] = <<app>> \o chain],
              !.completed = @ \union {done},
              !.commands[command] = [op |-> "reconcile", proposal |-> p,
                                     snapshot |-> memory.status[p], status |-> "adopted"]]
  IN /\ Reconcilable(command, p)
     /\ Replaced(memory, p) # None => state.apps[Replaced(memory, p)] # <<>>
     /\ now = Definition[p]
     /\ Persist(j) \/ PersistFails(j)
     /\ UNCHANGED <<catalog, live, git, pc, memory, indeterminate, previews, disturbed,
                    blind>>

\* reconcilePromoted in the mode "apply", up to the pending operation.
Reapply(command, p) ==
  LET t == TargetOf(p)
      chain == Predecessor(p, command)
      below == Replaced(memory, p)
  IN /\ Reconcilable(command, p)
     /\ below # None => live[t] = IF state.apps[below] # <<>> THEN state.apps[below][1].after
                                  ELSE Definition[below]
     /\ t = "prompt" => Clean
     /\ Start([state EXCEPT
                 !.completed = @ \union CapturedCompletion(chain),
                 !.pending = [command |-> command, op |-> "reconcile", proposal |-> p,
                              revision |-> memory.revision, expected |-> memory.revision,
                              before |-> live[t], after |-> Definition[p], active |-> p,
                              previous |-> chain, audit |-> None,
                              base |-> IF t = "prompt" THEN git.head ELSE None]],
              previews)

-----------------------------------------------------------------------------
\* What becomes of the journal when the pending operation is over.
Done(j, c, status, after) ==
  [command |-> j.pending.command, op |-> j.pending.op, proposal |-> j.pending.proposal,
   status |-> status, before |-> j.pending.before, after |-> after, from |-> j.pending.revision,
   to |-> c.revision]
Bound(j, c, status) ==
  [j.commands EXCEPT ![j.pending.command] =
     IF @ # None THEN @
     ELSE [op |-> j.pending.op, proposal |-> j.pending.proposal,
           snapshot |-> c.status[j.pending.proposal], status |-> status]]

\* Mutant of Aborted: what a reconciliation captured stays.
AbortedWithCapture(j, c) ==
  [j EXCEPT !.pending = None, !.recovery = FALSE, !.commands = Bound(j, c, "aborted"),
            !.completed = @ \union {Done(j, c, "aborted", j.pending.before)}]

\* finalizePendingAs("aborted"): what a reconciliation captured goes, unless a proof has it.
Aborted(j, c) ==
  LET used == UNION {{j.apps[p][i].command : i \in DOMAIN j.apps[p]} : p \in Proposal}
      dropped == {app.command : app \in {j.pending.previous[i] : i \in DOMAIN j.pending.previous}}
                   \intersect (LegacyId \ used)
      kept == {done \in j.completed : j.pending.op # "reconcile" \/ done.command \notin dropped}
  IN [j EXCEPT !.pending = None, !.recovery = FALSE, !.commands = Bound(j, c, "aborted"),
               !.completed = kept \union {Done(j, c, "aborted", j.pending.before)}]

\* Mutants of Finished: the proof of the replaced proposal stays; the one below a rollback is lost.
FinishedOver(j, c) ==
  LET q == j.pending
      app == [proposal |-> q.proposal, command |-> q.command, status |-> "applied",
              before |-> q.before, after |-> q.after, safe |-> TRUE, revision |-> c.revision]
  IN [j EXCEPT !.pending = None, !.commands = Bound(j, c, "applied"),
               !.completed = @ \union {Done(j, c, "applied", q.after)},
               !.apps[q.proposal] = <<app>> \o q.previous]
FinishedAlone(j, c) ==
  LET q == j.pending
      status == IF q.op = "rollback" THEN "rolled-back" ELSE "applied"
      app == [proposal |-> q.proposal, command |-> q.command, status |-> "applied",
              before |-> q.before, after |-> q.after, safe |-> TRUE, revision |-> c.revision]
  IN [j EXCEPT !.pending = None, !.recovery = FALSE, !.commands = Bound(j, c, status),
               !.completed = @ \union {Done(j, c, status, q.after)},
               !.apps = IF q.op = "rollback" THEN [@ EXCEPT ![q.proposal] = <<>>]
                        ELSE [Forget(@, q.previous) EXCEPT ![q.proposal] = <<app>> \o q.previous]]

\* completePendingFromLive, and the end of a command.
Finished(j, c) ==
  LET q == j.pending
      status == IF q.op = "rollback" THEN "rolled-back" ELSE "applied"
      app == [proposal |-> q.proposal, command |-> q.command, status |-> "applied",
              before |-> q.before, after |-> q.after, safe |-> TRUE, revision |-> c.revision]
      replaced == IF q.op = "promote" /\ q.active # None
                  THEN [j.apps EXCEPT ![q.active] = <<>>] ELSE Forget(j.apps, q.previous)
      apps == IF q.op # "rollback" THEN [replaced EXCEPT ![q.proposal] = <<app>> \o q.previous]
              ELSE IF Len(q.previous) < 2 THEN [j.apps EXCEPT ![q.proposal] = <<>>]
              ELSE [j.apps EXCEPT ![q.proposal] = <<>>,
                                  ![q.previous[2].proposal] = Tail(q.previous)]
  IN [j EXCEPT !.pending = None, !.recovery = FALSE, !.commands = Bound(j, c, status),
               !.completed = @ \union {Done(j, c, status, q.after)}, !.apps = apps]

-----------------------------------------------------------------------------
(* The steps of a command after its pending operation is durable.          *)
On(t) == state.pending # None /\ TargetOf(state.pending.proposal) = t
Hold(t, x) == live' = [live EXCEPT ![t] = x]
Step(at, next) == pc = at /\ pc' = next
\* A step that touches only the targets.
Touch == UNCHANGED <<journal, catalog, opened, state, memory, indeterminate, previews,
                     disturbed, blind>>

\* applyStrategyTarget: the catalog of strategies compares what it replaces.
ApplyStrategy ==
  /\ On("strategy") /\ Touch /\ UNCHANGED git
  /\ \/ live["strategy"] # state.pending.before /\ Step("apply", "refused")
        /\ UNCHANGED <<live, troubles>>
     \/ live["strategy"] = state.pending.before /\ Step("apply", "verify")
        /\ Hold("strategy", state.pending.after) /\ UNCHANGED troubles
     \/ live["strategy"] = state.pending.before /\ Step("apply", "refused") /\ Trouble
        /\ UNCHANGED live
     \/ live["strategy"] = state.pending.before /\ Step("apply", "lost") /\ Trouble
        /\ Hold("strategy", state.pending.after)

\* writePromptAtomically
WritePrompt ==
  /\ On("prompt") /\ Touch /\ UNCHANGED git
  /\ \/ live["prompt"] # state.pending.before /\ Step("apply", "refused")
        /\ UNCHANGED <<live, troubles>>
     \/ live["prompt"] = state.pending.before /\ Step("apply", "stage")
        /\ Hold("prompt", state.pending.after) /\ UNCHANGED troubles
     \/ live["prompt"] = state.pending.before /\ Step("apply", "refused") /\ Trouble
        /\ UNCHANGED live
     \/ live["prompt"] = state.pending.before /\ Step("apply", "lost") /\ Trouble
        /\ Hold("prompt", state.pending.after)

\* commitExactTrackedFile, up to the index: HEAD must not have moved, and something changed.
StagePrompt ==
  /\ On("prompt") /\ Touch /\ UNCHANGED <<live, troubles>>
  /\ IF git.head = state.pending.base /\ ~Clean
     THEN Step("stage", "commit") /\ git' = [git EXCEPT !.staged = live["prompt"]]
     ELSE Step("stage", "refused") /\ UNCHANGED git

\* commit-tree and update-ref, which compares HEAD.
CommitPrompt ==
  /\ On("prompt") /\ Touch /\ UNCHANGED live
  /\ \/ /\ git.head = state.pending.base /\ git.staged # None /\ Step("commit", "verify")
        /\ git' = [head |-> git.head + 1, touched |-> "prompt", content |-> git.staged,
                   staged |-> None]
        /\ UNCHANGED troubles
     \/ /\ git.head # state.pending.base \/ git.staged = None
        /\ Step("commit", "refused") /\ UNCHANGED <<git, troubles>>
     \/ Step("commit", "lost") /\ Trouble /\ UNCHANGED git

\* The target reads what was planned.
Verify ==
  /\ state.pending # None
  /\ Step("verify", IF live[TargetOf(state.pending.proposal)] # state.pending.after THEN "lost"
                    ELSE IF state.pending.op = "reconcile" THEN "record" ELSE "promote")
  /\ Touch /\ UNCHANGED <<live, git, troubles>>

\* Mutant of CatalogOutcome: the audit does not name the command.
UnnamedOutcome ==
  LET q == state.pending IN
  IF q.op = "promote" THEN Promote(memory, q.proposal, None) ELSE RollBack(memory, q.proposal, None)
CatalogOutcome ==
  LET q == state.pending IN
  IF q.op = "promote" THEN Promote(memory, q.proposal, q.command)
  ELSE RollBack(memory, q.proposal, q.command)

CommitCatalog ==
  /\ \/ Step("promote", "record") /\ Commit(CatalogOutcome)
     \/ Step("promote", "unfinished") /\ CommitFails(CatalogOutcome)
     \/ Step("promote", "unfinished") /\ indeterminate
        /\ UNCHANGED <<catalog, memory, indeterminate, troubles>>
  /\ UNCHANGED <<journal, live, git, opened, state, previews, disturbed, blind>>

Save(j) ==
  /\ Persist(j) \/ PersistFails(j)
  /\ UNCHANGED <<catalog, live, git, memory, indeterminate, previews, disturbed, blind>>

Record == Step("record", "idle") /\ Save(Finished(state, memory))

\* The target was not moved, so the command is over; otherwise the next opening decides.
SettleRefusal ==
  /\ state.pending # None
  /\ IF live[TargetOf(state.pending.proposal)] = state.pending.before
     THEN Step("refused", "idle") /\ Save(Aborted(state, memory))
     ELSE Step("refused", "lost") /\ Touch /\ UNCHANGED <<live, git, troubles>>
SettleLoss ==
  \/ Step("lost", "idle") /\ Save([state EXCEPT !.recovery = TRUE])
  \/ Step("unfinished", "idle") /\ Save([state EXCEPT !.recovery = FALSE])

-----------------------------------------------------------------------------
(* Opening.                                                                *)
Open ==
  /\ pc = "down" /\ Loadable(journal, catalog)
  /\ state' = journal /\ memory' = catalog
  /\ opened' = (journal.pending = None)
  /\ pc' = IF journal.pending = None THEN "idle" ELSE "settle"
  /\ UNCHANGED <<journal, catalog, live, git, indeterminate, previews, troubles, disturbed,
                 blind>>

\* HEAD is the commit that the operation q was going to make.
PromptCommitted(q) == git.head = q.base + 1 /\ git.touched = "prompt" /\ Clean

\* pickSituation
SituationOf(q, c) ==
  LET t == TargetOf(q.proposal)
      old == c.revision = q.revision
  IN IF live[t] = q.before /\ old THEN "aborted"
     ELSE IF live[t] = q.after /\ OutcomeReached(c, q) /\ (t = "prompt" => PromptCommitted(q))
     THEN "finalize"
     ELSE IF live[t] = q.after /\ old THEN "finish"
     ELSE "unknown"
Situation == SituationOf(state.pending, memory)

GiveUp(j) ==
  /\ pc' = "idle" /\ opened' = TRUE /\ state' = [j EXCEPT !.recovery = TRUE]
\* The journal is written and the coordinator opens; when the write fails, "otherwise".
EndsOpening(j, otherwise) ==
  /\ \/ journal' = j /\ state' = j /\ pc' = "idle" /\ opened' = TRUE /\ UNCHANGED troubles
     \/ Trouble /\ journal' \in {journal, j} /\ otherwise
  /\ UNCHANGED <<catalog, live, git, memory, indeterminate, previews, disturbed, blind>>
Closed == pc' = "down" /\ state' = journal' /\ opened' = FALSE

SettleAborted ==
  /\ pc = "settle" /\ Situation = "aborted"
  /\ IF On("prompt") /\ ~(git.head = state.pending.base /\ Clean)
     THEN GiveUp(state)
          /\ UNCHANGED <<journal, catalog, live, git, memory, indeterminate, previews, troubles, disturbed, blind>>
     ELSE EndsOpening(Aborted(state, memory), Closed)

SettleFinalize ==
  pc = "settle" /\ Situation = "finalize" /\ EndsOpening(Finished(state, memory), Closed)

\* Mutant of SettleFinish: the opening only reports what it found.
ReportUnfinished ==
  /\ pc = "settle" /\ Situation = "finish"
  /\ On("prompt") => PromptCommitted(state.pending)
  /\ GiveUp(state)
  /\ UNCHANGED <<journal, catalog, live, git, memory, indeterminate, previews, troubles,
                 disturbed, blind>>
\* The catalog is brought to where the target is.
SettleFinish ==
  /\ pc = "settle" /\ Situation = "finish"
  /\ On("prompt") => PromptCommitted(state.pending)
  /\ \/ Commit(CatalogOutcome) /\ pc' = "conclude" /\ UNCHANGED <<opened, state>>
     \/ CommitFails(CatalogOutcome) /\ GiveUp(state)
  /\ UNCHANGED <<journal, live, git, previews, disturbed, blind>>
\* finishCatalogMutation catches the failure of this write, and the coordinator opens.
Conclude == pc = "conclude" /\ EndsOpening(Finished(state, memory), GiveUp(Finished(state, memory)))

\* The process died after the prompt was written and before it was committed.
RestorePrompt ==
  /\ pc = "settle" /\ Situation = "finish"
  /\ On("prompt") /\ ~PromptCommitted(state.pending)
  /\ Hold("prompt", state.pending.before)
  /\ IF git.content = state.pending.before /\ git.staged = None
     THEN pc' = "restored" /\ UNCHANGED <<opened, state>>
     ELSE GiveUp(state)
  /\ UNCHANGED <<journal, catalog, git, memory, indeterminate, previews, troubles, disturbed,
                 blind>>
ConcludeRestored ==
  pc = "restored" /\ EndsOpening(Aborted(state, memory), GiveUp(Aborted(state, memory)))

SettleUnknown ==
  /\ pc = "settle" /\ Situation = "unknown" /\ GiveUp(state)
  /\ UNCHANGED <<journal, catalog, live, git, memory, indeterminate, previews, troubles,
                 disturbed, blind>>

\* The process ends, in the middle of an operation or between two.
Stop ==
  /\ pc # "down" /\ pc' = "down"
  /\ IF pc = "idle" THEN UNCHANGED troubles ELSE Trouble
  /\ state' = journal /\ memory' = catalog
  /\ opened' = FALSE /\ indeterminate' = FALSE /\ previews' = {}
  /\ UNCHANGED <<journal, catalog, live, git, disturbed, blind>>

-----------------------------------------------------------------------------
(* People.                                                                 *)
Meddle(t) ==
  /\ Trouble
  /\ disturbed' = [disturbed EXCEPT ![t] = TRUE]
  /\ UNCHANGED <<journal, catalog, pc, opened, state, memory, indeterminate, previews, blind>>

Edit(t, x) ==
  /\ x # live[t] /\ (t = "prompt" => x \in Content)
  /\ Hold(t, x) /\ UNCHANGED git /\ Meddle(t)
CommitOther ==
  git' = [git EXCEPT !.head = @ + 1, !.touched = "other"] /\ UNCHANGED live /\ Meddle("prompt")
CommitEdit ==
  /\ live["prompt"] # git.content
  /\ git' = [head |-> git.head + 1, touched |-> "prompt", content |-> live["prompt"],
             staged |-> None]
  /\ UNCHANGED live /\ Meddle("prompt")

-----------------------------------------------------------------------------
Executing ==
  \/ ApplyStrategy \/ WritePrompt \/ StagePrompt \/ CommitPrompt \/ Verify \/ CommitCatalog
  \/ Record \/ SettleRefusal \/ SettleLoss
Opening ==
  \/ Open \/ SettleAborted \/ SettleFinalize \/ SettleFinish \/ Conclude \/ RestorePrompt
  \/ ConcludeRestored \/ SettleUnknown

Next ==
  \/ \E p \in Proposal :
       \/ Propose(p) \/ BeginEvaluation(p) \/ Evaluate(p) \/ Reject(p) \/ Archive(p)
       \/ Unarchive(p) \/ Delete(p) \/ PreviewPromotion(p) \/ PreviewRollback(p)
  \/ \E v \in previews : ExpirePreview(v) \/ \E command \in Command : Execute(command, v)
  \/ \E command \in Command, p \in Proposal : Adopt(command, p) \/ Reapply(command, p)
  \/ Executing \/ Opening \/ Stop
  \/ \E t \in Target, x \in Holds : Edit(t, x)
  \/ CommitOther \/ CommitEdit

Spec == Init /\ [][Next]_vars

\* The steps of the coordinator, and an operator who restarts it when an operation was left.
Restart == pc = "idle" /\ journal.pending # None /\ Stop
Fairness == WF_vars(Executing) /\ WF_vars(Opening) /\ WF_vars(Restart)
FairSpec == Spec /\ Fairness

-----------------------------------------------------------------------------
(* What must hold.                                                         *)

\* A command answered for a proposal that was deleted afterwards: no journal with such an answer
\* passes the checks of an opening, which want every answered proposal in the catalog.
Forgotten(j, c) ==
  \E done \in j.completed : c.status[done.proposal] = "deleted"

\* A captured predecessor has got below a proof other than that of the reconciliation that captured
\* it: no journal with such a chain passes the checks of an opening, which look for the owner of
\* what was captured directly above it only.
Buried(j) ==
  \E p \in Proposal : \E i \in 2..Len(j.apps[p]) :
    LET below == j.apps[p][i].command IN
    below \in LegacyId /\ below # LegacyOf(j.apps[p][i - 1].command)

\* The journal and the catalog, whatever writes failed and wherever the process died, pass the
\* checks of the next opening (loadOrInit, validateRestoredState).  The exceptions are a deleted
\* proposal, a captured predecessor under another's proof, and an operation begun when it was not
\* known what the catalog on disk says.
Reopens ==
  \/ Loadable(journal, catalog)
  \/ Forgotten(journal, catalog) \/ Buried(journal)
  \/ journal.pending # None /\ blind

\* Somebody edited the target during the pending operation, or what the disk holds of the catalog
\* was unknown when it began, or the process died with the prompt in the index.
Disputed ==
  /\ journal.pending # None
  /\ \/ blind
     \/ disturbed[TargetOf(journal.pending.proposal)]
     \/ TargetOf(journal.pending.proposal) = "prompt" /\ git.staged # None

\* Whenever the process dies, what target and catalog say tells what became of the pending
\* operation, so that the next opening need not ask an operator (pickSituation).
Decidable ==
  journal.pending # None /\ ~Disputed => SituationOf(journal.pending, catalog) # "unknown"

\* When nothing is pending, only the proposal that is active on a target has a proof of its own:
\* the proof of what it replaced is below it and nowhere else (finishPromotion, finishRollback).
OneInForce ==
  journal.pending = None =>
    \A p \in Proposal : journal.apps[p] # <<>> => catalog.active[TargetOf(p)] = p

\* A chain of proofs can be rolled back to its end: every proof starts from what the one below it
\* made of the target, and is of a promotion that replaced that one's proposal.
ChainReplays ==
  \A p \in Proposal :
    \A i \in 1..Len(journal.apps[p]) - 1 :
      LET app == journal.apps[p][i]
          below == journal.apps[p][i + 1]
      IN app.before = below.after /\ Replaced(catalog, app.proposal) = below.proposal

\* While an operation is pending the promise has not changed: it happens in the step that takes
\* the pending operation out of the journal.
PendingOn(t) == journal.pending # None /\ TargetOf(journal.pending.proposal) = t
Values == [t \in Target |-> IF PendingOn(t) THEN journal.pending.before ELSE live[t]]
InForce == [t \in Target |-> IF PendingOn(t) THEN journal.pending.active ELSE catalog.active[t]]
Layer(app) == [proposal |-> app.proposal, covered |-> app.before]
LayersOf(chain) == [i \in DOMAIN chain |-> Layer(chain[i])]
Layers ==
  [t \in Target |-> LayersOf(IF InForce[t] = None THEN <<>> ELSE journal.apps[InForce[t]])]
AnswerTo(command) ==
  IF CompletionsOf(journal, command) = {} THEN None
  ELSE (CHOOSE done \in CompletionsOf(journal, command) : TRUE).status
Answers == [command \in Command |-> AnswerTo(command)]

Promised == INSTANCE ApplicationPromise WITH
  value <- Values, inForce <- InForce, layers <- Layers, answer <- Answers, meddled <- disturbed

\* Commands implement the promise: each is answered once and happens as a whole or not at all, and
\* a rollback puts back exactly what its promotion covered, across failed writes, deaths of the
\* process and openings that decide what became of a command.
KeepsPromise == Promised!Spec

\* An operation that was left pending is settled by the next openings, if the operator restarts
\* the process, unless it is disputed or its journal cannot be opened any more.
Settles ==
  journal.pending # None ~>
    journal.pending = None \/ Disputed \/ Forgotten(journal, catalog) \/ Buried(journal)
=============================================================================

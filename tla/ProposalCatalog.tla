--------------------------- MODULE ProposalCatalog ---------------------------
(***************************************************************************)
(* The evolution catalog: the lifecycle of proposals (evolution/domain.ts),*)
(* the commands of EvolutionCatalog with the audit records they append     *)
(* (catalog.ts), and what a catalog has to fulfil so that it can be read   *)
(* again: every command first restores a working copy from the material of *)
(* the last one, and an opening replays the audit history of the document  *)
(* (persistence.ts, audit-trail.ts).                                       *)
(*                                                                         *)
(* The document is what the memory says: how a command is made durable,    *)
(* and what happens when that fails, is in EvolutionApplication.  An id    *)
(* stands for its proposal, its candidate and the digest of that; a record *)
(* for its own digest.  Actors, reasons, the policy, the trust context     *)
(* (both as they were when the proposal was made) and who measured an      *)
(* evaluation are left out: no check of the catalog compares two of them.  *)
(***************************************************************************)
EXTENDS Naturals, Sequences, FiniteSets

CONSTANTS
  ProposalId,
  TargetKey,
  TargetKeyOf,       \* the target of each proposal's candidate
  Item,              \* the evidence there may be: sets of statuses and verdicts
  AppCommand,        \* ids of application commands
  Instant,           \* what the clock of the service may say, in any order
  Null,
  MaxCatalogRevision \* bound on the commands

ASSUME TargetKeyAssumption == TargetKeyOf \in [ProposalId -> TargetKey]
ASSUME CatalogBoundAssumption == Instant \subseteq Nat /\ MaxCatalogRevision \in Nat

VARIABLES
  proposals,         \* those there are; Null for the others
  auditRecords,      \* in the order they were appended
  activeByTarget,
  promotionRecords,  \* by proposal, kept for the rollback
  catalogRevision

catalogVars == <<proposals, auditRecords, activeByTarget, promotionRecords, catalogRevision>>

-----------------------------------------------------------------------------
(* Proposals and evidence.                                                 *)

Allowed ==
  {<<"proposed", "evaluating">>, <<"evaluating", "evaluated">>, <<"evaluated", "promoted">>,
   <<"evaluated", "rejected">>, <<"promoted", "rolled-back">>}
Archivable == {"evaluated", "promoted", "rejected", "rolled-back"}
WithEvidence == {"evaluated", "promoted", "rejected", "rolled-back"}
WithPromotion == {"promoted", "rolled-back"}
Lifecycle == {"proposed", "evaluating"} \union Archivable

EvidenceFor == [proposal : ProposalId, items : Item]

\* A deterministic failure vetoes what the advisors say; without any deterministic item there is
\* no result.
Conclusive(evidence) == evidence.items \intersect {"pass", "fail"} # {}
ResultOf(evidence) ==
  LET solid == "fail" \notin evidence.items
      backed == evidence.items \intersect {"request_changes", "escalate"} = {}
  IN [proposal |-> evidence.proposal, deterministic |-> solid, advisory |-> solid /\ backed,
      passed |-> solid /\ backed]

LastTransition(proposal) == proposal.transitions[Len(proposal.transitions)]
InOrder(proposal, at) ==
  /\ at >= proposal.createdAt
  /\ proposal.transitions # <<>> => at >= LastTransition(proposal).at

Moved(proposal, to, at) ==
  [proposal EXCEPT
     !.status = to, !.transitions = Append(@, [from |-> proposal.status, to |-> to, at |-> at])]

Record(kind, id, at) ==
  [kind |-> kind, proposal |-> id, at |-> at, evaluation |-> Null, active |-> Null,
   command |-> Null]

\* A promotion record speaks of this proposal, its evaluation and its promotion.
Matches(record, id) ==
  LET proposal == proposals[id] IN
  /\ record.proposal = id /\ proposal.status \in WithPromotion
  /\ proposal.evaluation # Null
  /\ record.evaluation = proposal.evaluation.result /\ record.evaluation.passed
  /\ \E i \in DOMAIN proposal.transitions :
       proposal.transitions[i] = [from |-> "evaluated", to |-> "promoted", at |-> record.at]
  /\ proposal.promotion = record

-----------------------------------------------------------------------------
(* What a proposal has to be so that it can be parsed.                     *)

Chronological(id) ==
  LET path == proposals[id].transitions
      TimeOf(i) == IF i = 0 THEN proposals[id].createdAt ELSE path[i].at
  IN /\ proposals[id].status = "proposed" <=> path = <<>>
     /\ path # <<>> =>
          path[1].from = "proposed" /\ LastTransition(proposals[id]).to = proposals[id].status
     /\ \A i \in DOMAIN path :
          /\ <<path[i].from, path[i].to>> \in Allowed
          /\ path[i].at >= TimeOf(i - 1)
          /\ i > 1 => path[i].from = path[i - 1].to

ArchivalIsValid(id) ==
  proposals[id].archivedAt # Null =>
    proposals[id].status \in Archivable /\ proposals[id].archivedAt >= proposals[id].createdAt

\* The evaluation is of this proposal, says what its evidence says, passed where that is needed,
\* and was made when the proposal became evaluated.
EvaluationIsValid(id) ==
  LET proposal == proposals[id]
      evaluation == proposal.evaluation
  IN /\ proposal.status \in WithEvidence <=> evaluation # Null
     /\ evaluation # Null =>
          /\ evaluation.evidence.proposal = id /\ Conclusive(evaluation.evidence)
          /\ evaluation.result = ResultOf(evaluation.evidence)
          /\ proposal.status \in WithPromotion => evaluation.result.passed
          /\ \E i \in DOMAIN proposal.transitions :
               proposal.transitions[i] =
                 [from |-> "evaluating", to |-> "evaluated", at |-> evaluation.at]

Parses(id) ==
  /\ Chronological(id) /\ ArchivalIsValid(id) /\ EvaluationIsValid(id)
  /\ proposals[id].status \in WithPromotion <=> proposals[id].promotion # Null

-----------------------------------------------------------------------------
(* The replay of the audit history.                                        *)

Exists(id) == proposals[id] # Null
Existing == {id \in ProposalId : Exists(id)}
Retained == {"rejection", "archive", "unarchive", "delete"}
Decision == {"promotion", "rejection", "rollback"}

\* The decision happened when the proposal says it went from one status to the other.
DecidedAt(id, from, to, at) ==
  LET path == proposals[id].transitions
      matching == {i \in DOMAIN path : path[i].from = from /\ path[i].to = to}
  IN Cardinality(matching) = 1 /\ \A i \in matching : path[i].at = at

Replay ==
  [ok |-> TRUE, promoted |-> [id \in ProposalId |-> Null],
   active |-> [key \in TargetKey |-> Null], decided |-> [id \in ProposalId |-> {}],
   commands |-> {}, archived |-> [id \in ProposalId |-> Null],
   trail |-> [id \in ProposalId |-> <<>>]]

PriorPromotion(replay, id, key) ==
  Exists(id) /\ TargetKeyOf[id] = key /\ replay.promoted[id] # Null

PromotionFits(replay, record) ==
  LET key == TargetKeyOf[record.proposal] IN
  /\ Matches(record, record.proposal)
  /\ DecidedAt(record.proposal, "evaluated", "promoted", record.at)
  /\ record.active = replay.active[key]
  /\ record.active # Null => PriorPromotion(replay, record.active, key)

RollbackFits(replay, record) ==
  LET key == TargetKeyOf[record.proposal]
      promotion == replay.promoted[record.proposal]
  IN /\ promotion # Null /\ replay.active[key] = record.proposal
     /\ DecidedAt(record.proposal, "promoted", "rolled-back", record.at)
     /\ record.active = promotion.active
     /\ record.active # Null => PriorPromotion(replay, record.active, key)

RejectionFits(record) ==
  /\ DecidedAt(record.proposal, "evaluated", "rejected", record.at)
  /\ proposals[record.proposal].evaluation # Null
  /\ record.evaluation = proposals[record.proposal].evaluation.result

Fits(replay, record) ==
  LET id == record.proposal IN
  IF ~Exists(id) THEN record.kind \in Retained
  ELSE /\ record.kind # "delete"
       /\ record.command # Null => record.command \notin replay.commands
       /\ record.kind = "archive" => replay.archived[id] = Null
       /\ record.kind = "unarchive" => replay.archived[id] # Null
       /\ record.kind \notin replay.decided[id]
       /\ record.kind = "promotion" => PromotionFits(replay, record)
       /\ record.kind = "rollback" => RollbackFits(replay, record)
       /\ record.kind = "rejection" => RejectionFits(record)

Replayed(replay, record) ==
  LET id == record.proposal
      key == TargetKeyOf[id]
  IN IF ~Exists(id) THEN [replay EXCEPT !.trail[id] = Append(@, record.kind)]
     ELSE CASE record.kind = "archive" -> [replay EXCEPT !.archived[id] = record.at]
            [] record.kind = "unarchive" -> [replay EXCEPT !.archived[id] = Null]
            [] OTHER ->
                 [replay EXCEPT
                    !.decided[id] = @ \union {record.kind},
                    !.commands = @ \union ({record.command} \ {Null}),
                    !.promoted[id] = IF record.kind = "promotion" THEN record ELSE @,
                    !.active[key] = CASE record.kind = "promotion" -> id
                                      [] record.kind = "rollback" -> record.active
                                      [] OTHER -> @]

ReplayStep(replay, record) ==
  IF replay.ok /\ Fits(replay, record) THEN Replayed(replay, record)
  ELSE [replay EXCEPT !.ok = FALSE]

ReplayedAfter[n \in 0..Len(auditRecords)] ==
  IF n = 0 THEN Replay ELSE ReplayStep(ReplayedAfter[n - 1], auditRecords[n])

ReplayOfAudit == ReplayedAfter[Len(auditRecords)]

\* What is kept of a deleted proposal: its rejection, then archivals and their ends in turn, then
\* the tombstone.
TrailIsValid(trail) ==
  LET markers == {i \in DOMAIN trail : trail[i] \in {"archive", "unarchive"}} IN
  /\ trail[1] = "rejection" /\ trail[Len(trail)] = "delete"
  /\ markers = 2..Len(trail) - 1
  /\ \A i \in markers : trail[i] = IF i % 2 = 0 THEN "archive" ELSE "unarchive"

\* The audit replays, and the other parts of the material are what it replays to.
Restores(replay) ==
  /\ \A id \in Existing : Parses(id)
  /\ \A id \in ProposalId :
       promotionRecords[id] # Null => Exists(id) /\ Matches(promotionRecords[id], id)
  /\ replay.ok
  /\ \A id \in ProposalId : replay.trail[id] # <<>> => TrailIsValid(replay.trail[id])
  /\ \A id \in Existing : replay.archived[id] = proposals[id].archivedAt
  /\ promotionRecords = replay.promoted
  /\ activeByTarget = replay.active
  /\ \A key \in TargetKey : activeByTarget[key] # Null =>
       /\ Exists(activeByTarget[key]) /\ TargetKeyOf[activeByTarget[key]] = key
       /\ proposals[activeByTarget[key]].status = "promoted"

DecisionsOf(status) ==
  CASE status = "rejected" -> {"rejection"}
    [] status = "promoted" -> {"promotion"}
    [] status = "rolled-back" -> {"promotion", "rollback"}
    [] OTHER -> {}

\* Every command counts once: a proposal and its transitions, an archival or its end, and five for
\* a deletion, which also removed a proposal with three transitions.
MutationsOf(id) == {id} \X (0..Len(proposals[id].transitions))
RecordsOf(kinds) == {i \in DOMAIN auditRecords : auditRecords[i].kind \in kinds}
RecordedMutations ==
  Cardinality(UNION {MutationsOf(id) : id \in Existing})
    + Cardinality(RecordsOf({"archive", "unarchive"})) + 5 * Cardinality(RecordsOf({"delete"}))

\* The document can be opened.  The replay by the catalog, which every command begins with, asks
\* for no more than this one.
Opens ==
  LET replay == ReplayOfAudit IN
  /\ Restores(replay)
  /\ catalogRevision = RecordedMutations
  /\ \A id \in Existing : replay.decided[id] = DecisionsOf(proposals[id].status)

-----------------------------------------------------------------------------
(* The commands.  One that is refused changes nothing.                     *)

\* What a command finds before it looks at its own conditions: the material of the last one can
\* be restored, and the document on disk can be read.
Usable == catalogRevision < MaxCatalogRevision /\ (catalogRevision # 0 => Opens)

CommitProposal(id, proposal) ==
  /\ Usable
  /\ proposals' = [proposals EXCEPT ![id] = proposal]
  /\ catalogRevision' = catalogRevision + 1
Appended(record) == auditRecords' = Append(auditRecords, record)
Unadorned == UNCHANGED <<activeByTarget, promotionRecords>>

\* Mutant of Tombstoned: the id of a deleted proposal can be used again.
Forgotten(id) == FALSE
Tombstoned(id) ==
  \E i \in DOMAIN auditRecords :
    auditRecords[i].kind = "delete" /\ auditRecords[i].proposal = id

Propose(id, at) ==
  /\ ~Exists(id) /\ ~Tombstoned(id)
  /\ CommitProposal(id, [status |-> "proposed", createdAt |-> at, archivedAt |-> Null,
                 transitions |-> <<>>, evaluation |-> Null, promotion |-> Null])
  /\ UNCHANGED auditRecords /\ Unadorned

BeginEvaluation(id, at) ==
  /\ Exists(id) /\ proposals[id].status = "proposed" /\ InOrder(proposals[id], at)
  /\ CommitProposal(id, Moved(proposals[id], "evaluating", at))
  /\ UNCHANGED auditRecords /\ Unadorned

\* Failed evidence is recorded as well; evidence of another proposal is refused.
Evaluate(id, evidence, at) ==
  /\ Exists(id) /\ proposals[id].status = "evaluating"
  /\ evidence.proposal = id /\ Conclusive(evidence) /\ InOrder(proposals[id], at)
  /\ CommitProposal(id, [Moved(proposals[id], "evaluated", at) EXCEPT
                   !.evaluation = [evidence |-> evidence, result |-> ResultOf(evidence), at |-> at]])
  /\ UNCHANGED auditRecords /\ Unadorned

CommandFree(command) ==
  \A i \in DOMAIN auditRecords : command # Null => auditRecords[i].command # command

Promote(id, command, at) ==
  LET key == TargetKeyOf[id]
      record == [Record("promotion", id, at) EXCEPT
                   !.evaluation = proposals[id].evaluation.result,
                   !.active = activeByTarget[key], !.command = command]
  IN /\ CommandFree(command)
     /\ Exists(id) /\ proposals[id].status = "evaluated" /\ proposals[id].evaluation.result.passed
     /\ InOrder(proposals[id], at)
     /\ CommitProposal(id, [Moved(proposals[id], "promoted", at) EXCEPT !.promotion = record])
     /\ Appended(record)
     /\ promotionRecords' = [promotionRecords EXCEPT ![id] = record]
     /\ activeByTarget' = [activeByTarget EXCEPT ![key] = id]

Reject(id, at) ==
  /\ Exists(id) /\ proposals[id].status = "evaluated" /\ InOrder(proposals[id], at)
  /\ CommitProposal(id, Moved(proposals[id], "rejected", at))
  /\ Appended([Record("rejection", id, at) EXCEPT !.evaluation = proposals[id].evaluation.result])
  /\ Unadorned

\* Mutant of IsActive: a promotion that was replaced can be rolled back too.
WasActive(id) == TRUE
IsActive(id) == activeByTarget[TargetKeyOf[id]] = id

Rollback(id, command, at) ==
  /\ CommandFree(command)
  /\ Exists(id) /\ proposals[id].status = "promoted"
  /\ promotionRecords[id] # Null /\ Matches(promotionRecords[id], id)
  /\ InOrder(proposals[id], at) /\ IsActive(id)
  /\ CommitProposal(id, Moved(proposals[id], "rolled-back", at))
  /\ Appended([Record("rollback", id, at) EXCEPT
                 !.active = promotionRecords[id].active, !.command = command])
  /\ activeByTarget' = [activeByTarget EXCEPT ![TargetKeyOf[id]] = promotionRecords[id].active]
  /\ UNCHANGED promotionRecords

Archive(id, at) ==
  /\ Exists(id) /\ proposals[id].status \in Archivable /\ proposals[id].archivedAt = Null
  /\ InOrder(proposals[id], at)
  /\ CommitProposal(id, [proposals[id] EXCEPT !.archivedAt = at])
  /\ Appended(Record("archive", id, at)) /\ Unadorned

Unarchive(id, at) ==
  /\ Exists(id) /\ proposals[id].archivedAt # Null /\ InOrder(proposals[id], at)
  /\ CommitProposal(id, [proposals[id] EXCEPT !.archivedAt = Null])
  /\ Appended(Record("unarchive", id, at)) /\ Unadorned

DeleteProposal(id, at) ==
  /\ Exists(id) /\ proposals[id].status = "rejected"
  /\ CommitProposal(id, Null)
  /\ Appended(Record("delete", id, at)) /\ Unadorned

CatalogInit ==
  /\ proposals = [id \in ProposalId |-> Null]
  /\ auditRecords = <<>>
  /\ activeByTarget = [key \in TargetKey |-> Null]
  /\ promotionRecords = [id \in ProposalId |-> Null]
  /\ catalogRevision = 0

CatalogNext ==
  \E id \in ProposalId, at \in Instant :
    \/ Propose(id, at) \/ BeginEvaluation(id, at)
    \/ \E evidence \in EvidenceFor : Evaluate(id, evidence, at)
    \/ \E command \in AppCommand \union {Null} :
         Promote(id, command, at) \/ Rollback(id, command, at)
    \/ Reject(id, at) \/ Archive(id, at) \/ Unarchive(id, at) \/ DeleteProposal(id, at)

CatalogSpec == CatalogInit /\ [][CatalogNext]_catalogVars

-----------------------------------------------------------------------------
(* What must hold.                                                         *)

Result ==
  [proposal : ProposalId, deterministic : BOOLEAN, advisory : BOOLEAN, passed : BOOLEAN]
AuditRecord ==
  [kind : Decision \union {"archive", "unarchive", "delete"}, proposal : ProposalId,
   at : Instant, evaluation : Result \union {Null}, active : ProposalId \union {Null},
   command : AppCommand \union {Null}]
Evaluation == [evidence : EvidenceFor, result : Result, at : Instant]
Proposal ==
  [status : Lifecycle, createdAt : Instant, archivedAt : Instant \union {Null},
   transitions : Seq([from : Lifecycle, to : Lifecycle, at : Instant]),
   evaluation : Evaluation \union {Null}, promotion : AuditRecord \union {Null}]

ASSUME NullAssumption ==
  Null \notin ProposalId \union Instant \union Evaluation \union AuditRecord \union Proposal

CatalogTypeOK ==
  /\ proposals \in [ProposalId -> Proposal \union {Null}]
  /\ auditRecords \in Seq(AuditRecord)
  /\ activeByTarget \in [TargetKey -> ProposalId \union {Null}]
  /\ promotionRecords \in [ProposalId -> AuditRecord \union {Null}]
  /\ catalogRevision \in Nat

\* What the audit keeps of a proposal.
TrailOf(id) == SelectSeq(auditRecords, LAMBDA record : record.proposal = id)
KindsOf(id) == [i \in DOMAIN TrailOf(id) |-> TrailOf(id)[i].kind]
ArchivedBeforeRejection(id) ==
  \E i \in DOMAIN auditRecords :
    /\ auditRecords[i].proposal = id /\ auditRecords[i].kind # "rejection"
    /\ \A j \in 1..i - 1 : auditRecords[j].proposal # id

\* The comment of auditTrailViolation (audit-trail.ts) says of a deleted proposal what its trail
\* reads.  Archiving an evaluated proposal, rejecting and deleting it makes another one.
TombstonesAreReadable ==
  \A id \in ProposalId : Tombstoned(id) => TrailIsValid(KindsOf(id))

\* Whatever legal commands made of it, and whatever the clock said meanwhile, the catalog can be
\* restored by the next command and its document opened after a restart.  The exception is a
\* deleted proposal that was archived before it was rejected.
CatalogReopens ==
  \/ catalogRevision = 0   \* no document yet
  \/ Opens
  \/ \E id \in ProposalId : Tombstoned(id) /\ ArchivedBeforeRejection(id)

\* The proposal in force for a target is the one promoted last of those not rolled back since:
\* rollbacks undo promotions one by one, never over a later one.
PromotedAt(id) ==
  CHOOSE i \in DOMAIN auditRecords :
    auditRecords[i].kind = "promotion" /\ auditRecords[i].proposal = id
LatestInForce ==
  \A id \in Existing : proposals[id].status = "promoted" =>
    LET active == activeByTarget[TargetKeyOf[id]] IN
    active # Null /\ proposals[active].status = "promoted" /\ PromotedAt(active) >= PromotedAt(id)
=============================================================================

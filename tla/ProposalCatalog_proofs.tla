------------------------ MODULE ProposalCatalog_proofs ------------------------
(***************************************************************************)
(* What the evolution catalog promises, for any proposals, targets,        *)
(* commands and clock.  The promotions of a target are kept in order by    *)
(* what the commands check themselves; that a document opens again is an   *)
(* induction over the commands, each of which begins with a document that  *)
(* opens, and in it an induction over the records of the audit: those      *)
(* there are go on fitting, and the new one fits what they replay to.      *)
(***************************************************************************)
EXTENDS ProposalCatalog, FiniteSetTheorems, SequenceTheorems, WellFoundedInduction, TLAPS

\* Record i of the audit is the promotion of this proposal.
IsPromotion(i, id) ==
  /\ i \in DOMAIN auditRecords
  /\ auditRecords[i].kind = "promotion" /\ auditRecords[i].proposal = id

\* What a status says of the evaluation.
EvaluatedInv ==
  \A id \in Existing :
    /\ proposals[id].status \in WithEvidence => proposals[id].evaluation # Null

\* A proposal was promoted once, when its record says, and is still there.
PromotionInv ==
  /\ \A i \in DOMAIN auditRecords : auditRecords[i].kind = "promotion" =>
       LET id == auditRecords[i].proposal IN
       /\ Exists(id) /\ proposals[id].status \in WithPromotion
       /\ \A j \in DOMAIN auditRecords : IsPromotion(j, id) => j = i
  /\ \A id \in Existing : proposals[id].status \in WithPromotion =>
       /\ \E i \in DOMAIN auditRecords : IsPromotion(i, id)
       /\ promotionRecords[id] # Null

\* The promotions that were not rolled back; those of one target compete.
Standing == {id \in Existing : proposals[id].status = "promoted"}
SameTarget(a, b) == TargetKeyOf[a] = TargetKeyOf[b]

\* The promotions in force for a target form a chain: each names the one
\* before it, and the last is active.
ChainInv ==
  /\ \A id \in Standing :
       LET before == promotionRecords[id].active IN
       /\ before # Null =>
            before \in Standing /\ SameTarget(before, id) /\ PromotedAt(before) < PromotedAt(id)
       /\ \A other \in Standing : SameTarget(other, id) /\ PromotedAt(other) < PromotedAt(id) =>
            before # Null /\ PromotedAt(other) <= PromotedAt(before)
  /\ \A key \in TargetKey :
       LET active == activeByTarget[key] IN
       /\ active # Null => active \in Standing /\ TargetKeyOf[active] = key
       /\ \A id \in Standing : TargetKeyOf[id] = key =>
            active # Null /\ PromotedAt(id) <= PromotedAt(active)

\* What keeps the promotions in order, whatever the restoring of the material says.
OrderInv == CatalogTypeOK /\ EvaluatedInv /\ PromotionInv /\ ChainInv

-----------------------------------------------------------------------------
(***************************************************************************)
(* What the steps do to the data.                                          *)
(***************************************************************************)
LEMMA MovedProposal ==
  ASSUME NEW p \in Proposal, NEW to \in Lifecycle, NEW at \in Instant
  PROVE  /\ Moved(p, to, at) \in Proposal /\ Moved(p, to, at).status = to
         /\ Moved(p, to, at).createdAt = p.createdAt /\ Moved(p, to, at).archivedAt = p.archivedAt
         /\ Moved(p, to, at).evaluation = p.evaluation /\ Moved(p, to, at).promotion = p.promotion
         /\ Moved(p, to, at).transitions =
              Append(p.transitions, [from |-> p.status, to |-> to, at |-> at])
<1>1. /\ p.status \in Lifecycle /\ [from |-> p.status, to |-> to, at |-> at] \in [from : Lifecycle, to : Lifecycle, at : Instant]
      /\ p.transitions \in Seq([from : Lifecycle, to : Lifecycle, at : Instant])
  BY DEF Proposal
<1>2. Append(p.transitions, [from |-> p.status, to |-> to, at |-> at])
        \in Seq([from : Lifecycle, to : Lifecycle, at : Instant])
  BY <1>1, AppendProperties
<1> QED
  BY <1>1, <1>2 DEF Proposal, Moved

\* A record is made with the kind and the proposal it is about.
LEMMA NewRecord ==
  ASSUME NEW kind \in Decision \union {"archive", "unarchive", "delete"}, NEW id \in ProposalId,
         NEW at \in Instant
  PROVE  /\ Record(kind, id, at) \in AuditRecord
         /\ Record(kind, id, at).kind = kind /\ Record(kind, id, at).proposal = id
BY DEF Record, AuditRecord

\* A commit replaces one proposal and counts one command.
LEMMA Committed ==
  ASSUME CatalogTypeOK, NEW id \in ProposalId, NEW p \in Proposal \union {Null}, CommitProposal(id, p)
  PROVE  /\ proposals' \in [ProposalId -> Proposal \union {Null}]
         /\ proposals'[id] = p /\ \A other \in ProposalId : other # id => proposals'[other] = proposals[other]
         /\ catalogRevision' \in Nat
BY DEF CatalogTypeOK, CommitProposal

\* An append leaves the records there are where they are.
LEMMA AppendedRecord ==
  ASSUME CatalogTypeOK, NEW r \in AuditRecord, Appended(r)
  PROVE  /\ auditRecords' \in Seq(AuditRecord) /\ Len(auditRecords) \in Nat
         /\ Len(auditRecords') = Len(auditRecords) + 1
         /\ DOMAIN auditRecords = 1..Len(auditRecords)
         /\ DOMAIN auditRecords' = 1..Len(auditRecords) + 1
         /\ auditRecords'[Len(auditRecords) + 1] = r
         /\ \A i \in DOMAIN auditRecords : auditRecords'[i] = auditRecords[i]
<1>1. auditRecords \in Seq(AuditRecord) /\ auditRecords' = Append(auditRecords, r)
  BY DEF CatalogTypeOK, Appended
<1>2. /\ auditRecords' \in Seq(AuditRecord) /\ Len(auditRecords') = Len(auditRecords) + 1
      /\ \A i \in 1..Len(auditRecords) : auditRecords'[i] = auditRecords[i]
      /\ auditRecords'[Len(auditRecords) + 1] = r
  BY <1>1, AppendProperties
<1> QED
  BY <1>1, <1>2

\* Every record of the audit is one, of a proposal.
LEMMA RecordFields ==
  ASSUME CatalogTypeOK, NEW i \in DOMAIN auditRecords
  PROVE  /\ auditRecords[i] \in AuditRecord /\ auditRecords[i].proposal \in ProposalId
         /\ i \in 1..Len(auditRecords) /\ Len(auditRecords) \in Nat
<1>1. auditRecords \in Seq(AuditRecord)
  BY DEF CatalogTypeOK
<1>2. auditRecords[i] \in AuditRecord
  BY <1>1
<1> QED
  BY <1>1, <1>2 DEF AuditRecord

\* A promotion is recorded in one place only.
LEMMA PromotedThere ==
  \A i \in DOMAIN auditRecords, id \in ProposalId :
    PromotionInv /\ IsPromotion(i, id) => PromotedAt(id) = i
BY DEF PromotionInv, IsPromotion, PromotedAt

\* The same of the next state.
LEMMA PromotedThereNext ==
  (\A i \in DOMAIN auditRecords, id \in ProposalId :
    PromotionInv /\ IsPromotion(i, id) => PromotedAt(id) = i)'
BY PromotedThere, PTL

\* Where a standing promotion is recorded.
LEMMA PlaceOfPromotion ==
  ASSUME CatalogTypeOK, PromotionInv, NEW id \in Existing, proposals[id].status \in WithPromotion
  PROVE  IsPromotion(PromotedAt(id), id) /\ PromotedAt(id) \in Nat
<1>1. PICK i \in DOMAIN auditRecords : IsPromotion(i, id)
  BY DEF PromotionInv
<1>2. PromotedAt(id) = i
  BY <1>1, PromotedThere DEF Existing
<1> QED
  BY <1>1, <1>2 DEF CatalogTypeOK

-----------------------------------------------------------------------------
(***************************************************************************)
(* A step that neither promotes nor rolls back.                            *)
(***************************************************************************)
LEMMA OrderStays ==
  ASSUME OrderInv, CatalogTypeOK', NEW id \in ProposalId, NEW p \in Proposal \union {Null},
         CommitProposal(id, p), Unadorned,
         \/ UNCHANGED auditRecords
         \/ \E r \in AuditRecord : r.kind # "promotion" /\ Appended(r),
         Exists(id) /\ proposals[id].status \in WithPromotion =>
           p # Null /\ p.status = proposals[id].status,
         p # Null /\ p.status \in WithPromotion => Exists(id) /\ p.status = proposals[id].status,
         p # Null /\ p.status \in WithEvidence => p.evaluation # Null
  PROVE  OrderInv'
<1> USE DEF OrderInv
<1>1. /\ proposals'[id] = p /\ \A other \in ProposalId : other # id => proposals'[other] = proposals[other]
      /\ promotionRecords' = promotionRecords /\ activeByTarget' = activeByTarget
  BY Committed DEF Unadorned
<1>2. EvaluatedInv'
  BY <1>1 DEF EvaluatedInv, Existing, Exists
<1>3. /\ DOMAIN auditRecords \subseteq DOMAIN auditRecords'
      /\ \A i \in DOMAIN auditRecords : auditRecords'[i] = auditRecords[i]
      /\ \A i \in DOMAIN auditRecords' :
           i \in DOMAIN auditRecords \/ auditRecords'[i].kind # "promotion"
  <2>1. CASE UNCHANGED auditRecords
    BY <2>1
  <2>2. ASSUME NEW r \in AuditRecord, r.kind # "promotion", Appended(r)
        PROVE  <1>3!1 /\ <1>3!2 /\ <1>3!3
    BY <2>2, AppendedRecord
  <2> QED
    BY <2>1, <2>2
<1>4. \A i, x : IsPromotion(i, x)' <=> IsPromotion(i, x)
  BY <1>3 DEF IsPromotion
<1>5. \A x \in ProposalId : Exists(x)' /\ proposals'[x].status \in WithPromotion <=>
                            Exists(x) /\ proposals[x].status \in WithPromotion
  BY <1>1 DEF Exists
<1>6. \A i \in DOMAIN auditRecords : auditRecords[i].proposal \in ProposalId
  BY RecordFields
<1>7. PromotionInv'
  <2>1. ASSUME NEW i \in DOMAIN auditRecords', auditRecords'[i].kind = "promotion",
               NEW x, x = auditRecords'[i].proposal
        PROVE  /\ Exists(x)' /\ proposals'[x].status \in WithPromotion
               /\ \A j \in DOMAIN auditRecords' : IsPromotion(j, x)' => j = i
    <3>1. i \in DOMAIN auditRecords /\ auditRecords'[i] = auditRecords[i]
      BY <1>3, <2>1
    <3>2. /\ x \in ProposalId /\ Exists(x) /\ proposals[x].status \in WithPromotion
          /\ \A j \in DOMAIN auditRecords : IsPromotion(j, x) => j = i
      BY <1>6, <2>1, <3>1 DEF PromotionInv
    <3> QED
      BY <1>4, <1>5, <3>2 DEF IsPromotion
  <2>2. ASSUME NEW x \in Existing', proposals'[x].status \in WithPromotion
        PROVE  (\E i \in DOMAIN auditRecords' : IsPromotion(i, x)') /\ promotionRecords'[x] # Null
    <3>1. x \in Existing /\ proposals[x].status \in WithPromotion
      BY <1>5, <2>2 DEF Existing
    <3> QED
      BY <1>1, <1>3, <1>4, <3>1 DEF PromotionInv
  <2> QED
    BY <2>1, <2>2 DEF PromotionInv
<1>8. Standing' = Standing
  BY <1>1 DEF Standing, Existing, Exists, WithPromotion
<1>9. \A x \in Standing : PromotedAt(x)' = PromotedAt(x)
  <2>1. SUFFICES ASSUME NEW x \in Standing PROVE PromotedAt(x)' = PromotedAt(x)
    OBVIOUS
  <2>2. x \in Existing /\ proposals[x].status \in WithPromotion /\ x \in ProposalId
    BY DEF Standing, WithPromotion, Existing
  <2>3. PICK i \in DOMAIN auditRecords : IsPromotion(i, x)
    BY <2>2 DEF PromotionInv
  <2> QED
    BY <1>3, <1>4, <1>7, <2>2, <2>3, PromotedThere, PromotedThereNext
<1>10. ChainInv'
  BY <1>1, <1>8, <1>9 DEF ChainInv, SameTarget
<1> QED
  BY <1>2, <1>7, <1>10

\* The types of a command that neither promotes nor rolls back.
LEMMA TypesStay ==
  ASSUME CatalogTypeOK, NEW id \in ProposalId, NEW p \in Proposal \union {Null}, CommitProposal(id, p),
         Unadorned,
         \/ UNCHANGED auditRecords
         \/ \E r \in AuditRecord : Appended(r)
  PROVE  CatalogTypeOK'
<1>1. auditRecords' \in Seq(AuditRecord)
  <2>1. ASSUME NEW r \in AuditRecord, Appended(r) PROVE auditRecords' \in Seq(AuditRecord)
    BY <2>1, AppendedRecord
  <2> QED
    BY <2>1 DEF CatalogTypeOK
<1> QED
  BY <1>1, Committed DEF CatalogTypeOK, Unadorned

\* A proposal there is has its type, and its evaluation when its status says so.
LEMMA EvaluatedProposal ==
  ASSUME OrderInv, NEW id \in ProposalId, Exists(id)
  PROVE  /\ proposals[id] \in Proposal /\ proposals[id] # Null
         /\ proposals[id].status \in WithEvidence =>
              /\ proposals[id].evaluation # Null /\ proposals[id].evaluation \in Evaluation
              /\ proposals[id].evaluation.result \in Result
<1>1. proposals[id] \in Proposal /\ proposals[id] # Null
  BY DEF OrderInv, CatalogTypeOK, Exists
<1>2. proposals[id].evaluation \in Evaluation \union {Null}
  BY <1>1 DEF Proposal
<1>3. proposals[id].status \in WithEvidence => proposals[id].evaluation # Null
  BY DEF OrderInv, EvaluatedInv, Existing
<1> QED
  BY <1>1, <1>2, <1>3 DEF Evaluation

\* The evaluation an evidence set gives is one.
LEMMA ResultTyped ==
  ASSUME NEW evidence \in EvidenceFor, NEW at \in Instant
  PROVE  [evidence |-> evidence, result |-> ResultOf(evidence), at |-> at] \in Evaluation
<1>1. ResultOf(evidence) \in Result
  BY DEF ResultOf, Result, EvidenceFor
<1> QED
  BY <1>1 DEF Evaluation

\* A new proposal changes no promotion.
LEMMA ProposeOrder ==
  ASSUME OrderInv, NEW id \in ProposalId, NEW at \in Instant, Propose(id, at)
  PROVE  OrderInv'
<1> DEFINE p == [status |-> "proposed", createdAt |-> at, archivedAt |-> Null,
                 transitions |-> <<>>, evaluation |-> Null, promotion |-> Null]
<1>1. p \in Proposal /\ p.status = "proposed"
  BY DEF Proposal, Lifecycle
<1>2. CommitProposal(id, p) /\ Unadorned /\ UNCHANGED auditRecords /\ ~Exists(id)
  BY DEF Propose
<1> HIDE DEF p
<1>3. CatalogTypeOK'
  BY <1>1, <1>2, TypesStay DEF OrderInv
<1> QED
  BY <1>1, <1>2, <1>3, OrderStays DEF WithPromotion, WithEvidence

\* Beginning an evaluation changes no promotion.
LEMMA BeginEvaluationOrder ==
  ASSUME OrderInv, NEW id \in ProposalId, NEW at \in Instant, BeginEvaluation(id, at)
  PROVE  OrderInv'
<1> DEFINE p == Moved(proposals[id], "evaluating", at)
<1>1. /\ CommitProposal(id, p) /\ Unadorned /\ UNCHANGED auditRecords
      /\ Exists(id) /\ proposals[id].status = "proposed"
  BY DEF BeginEvaluation
<1>2. p \in Proposal /\ p.status = "evaluating"
  BY <1>1, EvaluatedProposal, MovedProposal, ZenonT(40) DEF Lifecycle
<1> HIDE DEF p
<1>3. CatalogTypeOK'
  BY <1>1, <1>2, TypesStay DEF OrderInv
<1> QED
  BY <1>1, <1>2, <1>3, OrderStays DEF WithPromotion, WithEvidence

\* An evaluation changes no promotion.
LEMMA EvaluateOrder ==
  ASSUME OrderInv, NEW id \in ProposalId, NEW evidence \in EvidenceFor, NEW at \in Instant,
         Evaluate(id, evidence, at)
  PROVE  OrderInv'
<1> DEFINE moved == Moved(proposals[id], "evaluated", at)
           evaluation == [evidence |-> evidence, result |-> ResultOf(evidence), at |-> at]
           p == [moved EXCEPT !.evaluation = evaluation]
<1>1. /\ CommitProposal(id, p) /\ Unadorned /\ UNCHANGED auditRecords
      /\ Exists(id) /\ proposals[id].status = "evaluating"
  BY DEF Evaluate
<1>2. moved \in Proposal /\ moved.status = "evaluated"
  BY <1>1, EvaluatedProposal, MovedProposal, ZenonT(40) DEF Lifecycle, Archivable
<1>3. evaluation \in Evaluation /\ evaluation # Null
  BY ResultTyped, NullAssumption
<1> HIDE DEF moved, evaluation
<1>4. p \in Proposal /\ p.status = "evaluated" /\ p.evaluation = evaluation
  BY <1>2, <1>3 DEF Proposal
<1> HIDE DEF p
<1>5. CatalogTypeOK'
  BY <1>1, <1>4, TypesStay DEF OrderInv
<1> QED
  BY <1>1, <1>3, <1>4, <1>5, OrderStays DEF WithPromotion, WithEvidence

\* A rejection changes no promotion.
LEMMA RejectOrder ==
  ASSUME OrderInv, NEW id \in ProposalId, NEW at \in Instant, Reject(id, at)
  PROVE  OrderInv'
<1> DEFINE p == Moved(proposals[id], "rejected", at)
           r == [Record("rejection", id, at) EXCEPT !.evaluation = proposals[id].evaluation.result]
<1>1. /\ CommitProposal(id, p) /\ Unadorned /\ Appended(r)
      /\ Exists(id) /\ proposals[id].status = "evaluated"
  BY DEF Reject
<1>2. p \in Proposal /\ p.status = "rejected" /\ p.evaluation = proposals[id].evaluation
  <2>1. proposals[id] \in Proposal /\ "rejected" \in Lifecycle
    BY <1>1, EvaluatedProposal DEF Lifecycle, Archivable
  <2> QED
    BY <2>1, MovedProposal
<1>3. r \in AuditRecord /\ r.kind = "rejection" /\ proposals[id].evaluation # Null
  <2>1. proposals[id].evaluation.result \in Result /\ proposals[id].evaluation # Null
    BY <1>1, EvaluatedProposal DEF WithEvidence
  <2> QED
    BY <2>1 DEF AuditRecord, Record, Decision
<1> HIDE DEF p, r
<1>4. CatalogTypeOK'
  BY <1>1, <1>2, <1>3, TypesStay DEF OrderInv
<1> QED
  BY <1>1, <1>2, <1>3, <1>4, OrderStays DEF WithPromotion, WithEvidence

\* An archival and its end change no promotion.
LEMMA ArchiveOrder ==
  ASSUME OrderInv, NEW id \in ProposalId, NEW at \in Instant, Archive(id, at) \/ Unarchive(id, at)
  PROVE  OrderInv'
<1>1. ASSUME NEW mark \in Instant \union {Null}, NEW kind \in {"archive", "unarchive"}, Exists(id),
             CommitProposal(id, [proposals[id] EXCEPT !.archivedAt = mark]), Unadorned,
             Appended(Record(kind, id, at))
      PROVE  OrderInv'
  <2> DEFINE p == [proposals[id] EXCEPT !.archivedAt = mark]
  <2>1. proposals[id] \in Proposal
    BY <1>1, EvaluatedProposal
  <2>2. p \in Proposal /\ p.status = proposals[id].status /\ p.evaluation = proposals[id].evaluation
    BY <2>1 DEF Proposal
  <2>3. Record(kind, id, at) \in AuditRecord /\ Record(kind, id, at).kind # "promotion"
    BY <1>1, NewRecord
  <2>4. CommitProposal(id, p) /\ Unadorned /\ Appended(Record(kind, id, at)) /\ Exists(id)
    BY <1>1
  <2>5. proposals[id].status \in WithEvidence => proposals[id].evaluation # Null
    BY <1>1, EvaluatedProposal
  <2> HIDE DEF p
  <2>6. CatalogTypeOK'
    BY <2>2, <2>3, <2>4, TypesStay DEF OrderInv
  <2>7. p # Null
    BY <2>2, NullAssumption
  <2> QED
    BY <2>2, <2>3, <2>4, <2>5, <2>6, <2>7, OrderStays
<1>2. CASE Archive(id, at)
  BY <1>1, <1>2 DEF Archive
<1>3. CASE Unarchive(id, at)
  BY <1>1, <1>3 DEF Unarchive
<1> QED
  BY <1>2, <1>3

\* A deletion changes no promotion: only rejected proposals are deleted.
LEMMA DeleteProposalOrder ==
  ASSUME OrderInv, NEW id \in ProposalId, NEW at \in Instant, DeleteProposal(id, at)
  PROVE  OrderInv'
<1>1. /\ CommitProposal(id, Null) /\ Unadorned /\ Appended(Record("delete", id, at))
      /\ Exists(id) /\ proposals[id].status = "rejected"
  BY DEF DeleteProposal
<1>2. Record("delete", id, at) \in AuditRecord /\ Record("delete", id, at).kind # "promotion"
  BY NewRecord
<1>3. CatalogTypeOK'
  BY <1>1, <1>2, TypesStay DEF OrderInv
<1> QED
  BY <1>1, <1>2, <1>3, OrderStays DEF WithPromotion

\* Where the promotions are, after a step that appends one record.
LEMMA PlacesStay ==
  ASSUME OrderInv, CatalogTypeOK', PromotionInv', NEW r \in AuditRecord, Appended(r),
         NEW x \in Existing, proposals[x].status \in WithPromotion
  PROVE  /\ PromotedAt(x)' = PromotedAt(x) /\ PromotedAt(x) \in 1..Len(auditRecords)
         /\ IsPromotion(PromotedAt(x), x) /\ Len(auditRecords) \in Nat
<1>1. /\ IsPromotion(PromotedAt(x), x) /\ PromotedAt(x) \in DOMAIN auditRecords /\ x \in ProposalId
  BY PlaceOfPromotion DEF OrderInv, IsPromotion, Existing
<1>2. PICK i : i = PromotedAt(x)
  OBVIOUS
<1>3. i \in DOMAIN auditRecords /\ IsPromotion(i, x)
  BY <1>1, <1>2
<1>4. i \in DOMAIN auditRecords' /\ IsPromotion(i, x)'
  BY <1>3, AppendedRecord DEF OrderInv, IsPromotion
<1>5. PromotedAt(x)' = i
  BY <1>1, <1>4, PromotedThereNext
<1> QED
  BY <1>1, <1>2, <1>5, RecordFields DEF OrderInv

\* What a promotion leaves.
Promotes(id, command, at, record, p) ==
  /\ record.kind = "promotion" /\ record.proposal = id /\ record.at = at
  /\ record.evaluation = proposals[id].evaluation.result /\ record.command = command
  /\ record.active = activeByTarget[TargetKeyOf[id]]
  /\ CommitProposal(id, p) /\ Appended(record)
  /\ promotionRecords' = [promotionRecords EXCEPT ![id] = record]
  /\ activeByTarget' = [activeByTarget EXCEPT ![TargetKeyOf[id]] = id]
  /\ p.status = "promoted" /\ p.promotion = record /\ p.evaluation = proposals[id].evaluation
  /\ p.createdAt = proposals[id].createdAt /\ p.archivedAt = proposals[id].archivedAt
  /\ p.transitions =
       Append(proposals[id].transitions, [from |-> "evaluated", to |-> "promoted", at |-> at])

\* Promote makes such a record and such a proposal.
LEMMA PromoteTypes ==
  ASSUME OrderInv, NEW id \in ProposalId, NEW command \in AppCommand \union {Null}, NEW at \in Instant,
         Promote(id, command, at)
  PROVE  \E record \in AuditRecord, p \in Proposal : Promotes(id, command, at, record, p)
<1> DEFINE key == TargetKeyOf[id]
           record == [Record("promotion", id, at) EXCEPT
                        !.evaluation = proposals[id].evaluation.result,
                        !.active = activeByTarget[key], !.command = command]
           moved == Moved(proposals[id], "promoted", at)
           p == [moved EXCEPT !.promotion = record]
<1>1. /\ CommitProposal(id, p) /\ Appended(record) /\ Exists(id) /\ proposals[id].status = "evaluated"
      /\ promotionRecords' = [promotionRecords EXCEPT ![id] = record]
      /\ activeByTarget' = [activeByTarget EXCEPT ![key] = id]
  BY DEF Promote
<1>2. /\ proposals[id] \in Proposal /\ proposals[id].evaluation.result \in Result
      /\ activeByTarget[key] \in ProposalId \union {Null}
  BY <1>1, EvaluatedProposal, TargetKeyAssumption DEF WithEvidence, OrderInv, CatalogTypeOK
<1> HIDE DEF key
<1>3. /\ record \in AuditRecord /\ record.kind = "promotion" /\ record.proposal = id /\ record.at = at
      /\ record.evaluation = proposals[id].evaluation.result /\ record.active = activeByTarget[key]
      /\ record.command = command
  BY <1>2 DEF Record, AuditRecord, Decision
<1>4. "promoted" \in Lifecycle
  BY DEF Lifecycle, Archivable
<1>5. /\ moved \in Proposal /\ moved.status = "promoted" /\ moved.evaluation = proposals[id].evaluation
      /\ moved.createdAt = proposals[id].createdAt /\ moved.archivedAt = proposals[id].archivedAt
      /\ moved.transitions = Append(proposals[id].transitions,
                                [from |-> "evaluated", to |-> "promoted", at |-> at])
  BY <1>1, <1>2, <1>4, MovedProposal
<1> HIDE DEF record, moved
<1>6. /\ p \in Proposal /\ p.status = "promoted" /\ p.promotion = record
      /\ p.evaluation = proposals[id].evaluation
      /\ p.createdAt = proposals[id].createdAt /\ p.archivedAt = proposals[id].archivedAt
      /\ p.transitions = Append(proposals[id].transitions,
                                [from |-> "evaluated", to |-> "promoted", at |-> at])
  BY <1>3, <1>5 DEF Proposal
<1> HIDE DEF p
<1> QED
  BY <1>1, <1>3, <1>6 DEF key, Promotes

\* A promotion is the latest of its target, and its record names the one it replaces.
LEMMA PromoteOrder ==
  ASSUME OrderInv, NEW id \in ProposalId, NEW command \in AppCommand \union {Null}, NEW at \in Instant,
         Promote(id, command, at)
  PROVE  OrderInv'
<1> USE DEF OrderInv
<1> DEFINE key == TargetKeyOf[id]
           n == Len(auditRecords) + 1
<1>0. PICK record \in AuditRecord, p \in Proposal : Promotes(id, command, at, record, p)
  BY PromoteTypes
<1>1. /\ record.kind = "promotion" /\ record.proposal = id
      /\ record.active = activeByTarget[key]
      /\ CommitProposal(id, p) /\ Appended(record)
      /\ promotionRecords' = [promotionRecords EXCEPT ![id] = record]
      /\ activeByTarget' = [activeByTarget EXCEPT ![key] = id]
      /\ p.status = "promoted" /\ p.evaluation = proposals[id].evaluation
  BY <1>0 DEF Promotes
<1>2. /\ Exists(id) /\ proposals[id].status = "evaluated" /\ proposals[id].evaluation # Null
      /\ key \in TargetKey
  BY EvaluatedProposal, TargetKeyAssumption DEF Promote, WithEvidence
<1>3. /\ proposals'[id] = p /\ p # Null
      /\ \A other \in ProposalId : other # id => proposals'[other] = proposals[other]
      /\ promotionRecords'[id] = record /\ record # Null
      /\ \A other \in ProposalId : other # id => promotionRecords'[other] = promotionRecords[other]
      /\ activeByTarget'[key] = id
      /\ \A other \in TargetKey : other # key => activeByTarget'[other] = activeByTarget[other]
  BY <1>1, <1>2, Committed, NullAssumption DEF CatalogTypeOK
<1>4. /\ auditRecords' \in Seq(AuditRecord) /\ Len(auditRecords) \in Nat
      /\ DOMAIN auditRecords = 1..Len(auditRecords) /\ DOMAIN auditRecords' = 1..n
      /\ auditRecords'[n] = record
      /\ \A i \in DOMAIN auditRecords : auditRecords'[i] = auditRecords[i]
  BY <1>1, AppendedRecord
<1>5. CatalogTypeOK'
  BY <1>1, <1>2, <1>4, Committed DEF CatalogTypeOK
<1>6. EvaluatedInv'
  BY <1>1, <1>2, <1>3 DEF EvaluatedInv, Existing, Exists
<1>7. ~\E i \in DOMAIN auditRecords : IsPromotion(i, id)
  BY <1>2 DEF PromotionInv, IsPromotion, WithPromotion
<1>8. PromotionInv'
  <2>1. ASSUME NEW i \in DOMAIN auditRecords', auditRecords'[i].kind = "promotion",
               NEW x, x = auditRecords'[i].proposal
        PROVE  /\ Exists(x)' /\ proposals'[x].status \in WithPromotion
               /\ \A j \in DOMAIN auditRecords' : IsPromotion(j, x)' => j = i
    <3>1. CASE i = n
      <4>1. x = id
        BY <1>1, <1>4, <2>1, <3>1
      <4>2. Exists(x)' /\ proposals'[x].status \in WithPromotion
        BY <1>1, <1>3, <4>1 DEF Exists, WithPromotion
      <4>3. \A j \in DOMAIN auditRecords : ~IsPromotion(j, id)'
        BY <1>4, <1>7 DEF IsPromotion
      <4> QED
        BY <1>4, <3>1, <4>1, <4>2, <4>3
    <3>2. CASE i # n
      <4>1. i \in DOMAIN auditRecords /\ IsPromotion(i, x) /\ x \in ProposalId
        BY <1>4, <2>1, <3>2, RecordFields DEF IsPromotion
      <4>2. x # id /\ Exists(x) /\ proposals[x].status \in WithPromotion
        BY <1>7, <4>1 DEF PromotionInv, IsPromotion
      <4>3. \A j \in DOMAIN auditRecords : IsPromotion(j, x) => j = i
        BY <4>1 DEF PromotionInv, IsPromotion
      <4>4. \A j \in DOMAIN auditRecords' : IsPromotion(j, x)' => j \in DOMAIN auditRecords /\ IsPromotion(j, x)
        BY <1>1, <1>4, <4>2 DEF IsPromotion
      <4> QED
        BY <1>3, <4>1, <4>2, <4>3, <4>4 DEF Exists
    <3> QED
      BY <3>1, <3>2
  <2>2. ASSUME NEW x \in Existing', proposals'[x].status \in WithPromotion
        PROVE  (\E i \in DOMAIN auditRecords' : IsPromotion(i, x)') /\ promotionRecords'[x] # Null
    <3>1. CASE x = id
      BY <1>1, <1>3, <1>4, <3>1 DEF IsPromotion
    <3>2. CASE x # id
      <4>1. x \in Existing /\ proposals[x].status \in WithPromotion /\ x \in ProposalId
        BY <1>3, <2>2, <3>2 DEF Existing, Exists
      <4>2. PICK i \in DOMAIN auditRecords : IsPromotion(i, x)
        BY <4>1 DEF PromotionInv
      <4>3. promotionRecords[x] # Null
        BY <4>1 DEF PromotionInv
      <4> QED
        BY <1>3, <1>4, <3>2, <4>1, <4>2, <4>3 DEF IsPromotion
    <3> QED
      BY <3>1, <3>2
  <2> QED
    BY <2>1, <2>2 DEF PromotionInv
<1>9. /\ Standing' = Standing \union {id} /\ id \notin Standing
  BY <1>1, <1>2, <1>3 DEF Standing, Existing, Exists
<1>10. \A x \in Standing : /\ PromotedAt(x)' = PromotedAt(x) /\ PromotedAt(x) \in 1..Len(auditRecords)
  BY <1>1, <1>5, <1>8, PlacesStay DEF Standing, WithPromotion
<1>11. PromotedAt(id)' = n
  BY <1>1, <1>4, <1>8, PromotedThereNext DEF IsPromotion
<1>12. ChainInv'
  <2>1. \A x \in Standing : x \in ProposalId /\ x # id /\ promotionRecords'[x] = promotionRecords[x]
    BY <1>3, <1>9 DEF Standing, Existing
  <2>2. ASSUME NEW x \in Standing', NEW before, before = promotionRecords'[x].active
        PROVE  /\ before # Null =>
                    before \in Standing' /\ SameTarget(before, x) /\ PromotedAt(before)' < PromotedAt(x)'
               /\ \A other \in Standing' : SameTarget(other, x) /\ PromotedAt(other)' < PromotedAt(x)' =>
                    before # Null /\ PromotedAt(other)' <= PromotedAt(before)'
    <3>1. CASE x = id
      <4>1. before = activeByTarget[key]
        BY <1>1, <1>3, <2>2, <3>1
      <4>2. before # Null => before \in Standing /\ TargetKeyOf[before] = key
        BY <1>2, <4>1 DEF ChainInv
      <4>3. \A other \in Standing : TargetKeyOf[other] = key =>
              before # Null /\ PromotedAt(other) <= PromotedAt(before)
        BY <1>2, <4>1 DEF ChainInv
      <4>4. before # Null => PromotedAt(before)' = PromotedAt(before) /\ PromotedAt(before)' < n
        BY <1>4, <1>10, <4>2
      <4>5. \A other \in Standing' : PromotedAt(other)' < PromotedAt(id)' => other \in Standing
        BY <1>4, <1>9, <1>11
      <4> QED
        BY <1>9, <1>10, <1>11, <3>1, <4>2, <4>3, <4>4, <4>5 DEF SameTarget
    <3>2. CASE x # id
      <4>1. x \in Standing /\ before = promotionRecords[x].active
        BY <1>9, <2>1, <2>2, <3>2
      <4>2. before # Null =>
              before \in Standing /\ SameTarget(before, x) /\ PromotedAt(before) < PromotedAt(x)
        BY <4>1 DEF ChainInv
      <4>3. \A other \in Standing : SameTarget(other, x) /\ PromotedAt(other) < PromotedAt(x) =>
              before # Null /\ PromotedAt(other) <= PromotedAt(before)
        BY <4>1 DEF ChainInv
      <4>4. \A other \in Standing' : PromotedAt(other)' < PromotedAt(x)' => other \in Standing
        BY <1>4, <1>9, <1>10, <1>11, <4>1
      <4> QED
        BY <1>9, <1>10, <4>1, <4>2, <4>3, <4>4
    <3> QED
      BY <3>1, <3>2
  <2>3. ASSUME NEW k \in TargetKey, NEW active, active = activeByTarget'[k]
        PROVE  /\ active # Null => active \in Standing' /\ TargetKeyOf[active] = k
               /\ \A x \in Standing' : TargetKeyOf[x] = k =>
                    active # Null /\ PromotedAt(x)' <= PromotedAt(active)'
    <3>1. CASE k = key
      <4>1. active = id /\ id # Null
        BY <1>3, <2>3, <3>1, NullAssumption
      <4>2. \A x \in Standing' : PromotedAt(x)' <= n
        BY <1>4, <1>9, <1>10, <1>11
      <4> QED
        BY <1>9, <1>11, <3>1, <4>1, <4>2
    <3>2. CASE k # key
      <4>1. active = activeByTarget[k]
        BY <1>3, <2>3, <3>2
      <4>2. /\ active # Null => active \in Standing /\ TargetKeyOf[active] = k
            /\ \A x \in Standing : TargetKeyOf[x] = k =>
                 active # Null /\ PromotedAt(x) <= PromotedAt(active)
        BY <4>1 DEF ChainInv
      <4> QED
        BY <1>9, <1>10, <3>2, <4>2
    <3> QED
      BY <3>1, <3>2
  <2> QED
    BY <2>2, <2>3 DEF ChainInv, SameTarget
<1> QED
  BY <1>5, <1>6, <1>8, <1>12

\* What a rollback leaves.
RollsBack(id, command, at, record, p) ==
  /\ record.kind = "rollback" /\ record.proposal = id /\ record.at = at /\ record.evaluation = Null
  /\ record.command = command /\ record.active = promotionRecords[id].active
  /\ CommitProposal(id, p) /\ Appended(record) /\ UNCHANGED promotionRecords
  /\ activeByTarget' = [activeByTarget EXCEPT ![TargetKeyOf[id]] = promotionRecords[id].active]
  /\ p.status = "rolled-back" /\ p.promotion = proposals[id].promotion
  /\ p.evaluation = proposals[id].evaluation
  /\ p.createdAt = proposals[id].createdAt /\ p.archivedAt = proposals[id].archivedAt
  /\ p.transitions =
       Append(proposals[id].transitions, [from |-> "promoted", to |-> "rolled-back", at |-> at])

\* Rollback makes such a record and such a proposal.
LEMMA RollbackTypes ==
  ASSUME OrderInv, NEW id \in ProposalId, NEW command \in AppCommand \union {Null}, NEW at \in Instant,
         Rollback(id, command, at)
  PROVE  \E record \in AuditRecord, p \in Proposal : RollsBack(id, command, at, record, p)
<1> DEFINE record == [Record("rollback", id, at) EXCEPT
                        !.active = promotionRecords[id].active, !.command = command]
           p == Moved(proposals[id], "rolled-back", at)
<1>1. /\ CommitProposal(id, p) /\ Appended(record) /\ Exists(id) /\ proposals[id].status = "promoted"
      /\ UNCHANGED promotionRecords /\ promotionRecords[id] # Null
      /\ activeByTarget' = [activeByTarget EXCEPT ![TargetKeyOf[id]] = promotionRecords[id].active]
  BY DEF Rollback
<1>2. proposals[id] \in Proposal /\ promotionRecords[id] \in AuditRecord
  BY <1>1, EvaluatedProposal DEF OrderInv, CatalogTypeOK
<1>3. promotionRecords[id].active \in ProposalId \union {Null}
  BY <1>2 DEF AuditRecord
<1>4. /\ record \in AuditRecord /\ record.kind = "rollback" /\ record.proposal = id /\ record.at = at
      /\ record.evaluation = Null /\ record.command = command
      /\ record.active = promotionRecords[id].active
  BY <1>3 DEF Record, AuditRecord, Decision
<1>5. "rolled-back" \in Lifecycle
  BY DEF Lifecycle, Archivable
<1>6. /\ p \in Proposal /\ p.status = "rolled-back" /\ p.promotion = proposals[id].promotion
      /\ p.evaluation = proposals[id].evaluation
      /\ p.createdAt = proposals[id].createdAt /\ p.archivedAt = proposals[id].archivedAt
      /\ p.transitions = Append(proposals[id].transitions,
                                [from |-> "promoted", to |-> "rolled-back", at |-> at])
  BY <1>1, <1>2, <1>5, MovedProposal
<1> HIDE DEF record, p
<1> QED
  BY <1>1, <1>4, <1>6 DEF RollsBack

\* A rollback takes the latest promotion of a target away; the one before it is in force.
LEMMA RollbackOrder ==
  ASSUME OrderInv, NEW id \in ProposalId, NEW command \in AppCommand \union {Null}, NEW at \in Instant,
         Rollback(id, command, at)
  PROVE  OrderInv'
<1> USE DEF OrderInv
<1> DEFINE key == TargetKeyOf[id]
           n == Len(auditRecords) + 1
           before == promotionRecords[id].active
<1>0. PICK record \in AuditRecord, p \in Proposal : RollsBack(id, command, at, record, p)
  BY RollbackTypes
<1>1. /\ record.kind = "rollback" /\ CommitProposal(id, p) /\ Appended(record)
      /\ UNCHANGED promotionRecords /\ activeByTarget' = [activeByTarget EXCEPT ![key] = before]
      /\ p.status = "rolled-back" /\ p.evaluation = proposals[id].evaluation
  BY <1>0 DEF RollsBack
<1>2. /\ Exists(id) /\ proposals[id].status = "promoted" /\ proposals[id].evaluation # Null
      /\ key \in TargetKey /\ activeByTarget[key] = id /\ promotionRecords[id] \in AuditRecord
      /\ before \in ProposalId \union {Null}
  <2>1. promotionRecords[id] \in AuditRecord
    BY DEF Rollback, CatalogTypeOK
  <2> QED
    BY <2>1, EvaluatedProposal, TargetKeyAssumption DEF Rollback, WithEvidence, IsActive, AuditRecord
<1>3. /\ proposals'[id] = p /\ p # Null
      /\ \A other \in ProposalId : other # id => proposals'[other] = proposals[other]
      /\ activeByTarget'[key] = before
      /\ \A other \in TargetKey : other # key => activeByTarget'[other] = activeByTarget[other]
  BY <1>1, <1>2, Committed, NullAssumption DEF CatalogTypeOK
<1>4. /\ auditRecords' \in Seq(AuditRecord) /\ Len(auditRecords) \in Nat
      /\ DOMAIN auditRecords = 1..Len(auditRecords) /\ DOMAIN auditRecords' = 1..n
      /\ auditRecords'[n] = record
      /\ \A i \in DOMAIN auditRecords : auditRecords'[i] = auditRecords[i]
  BY <1>1, AppendedRecord
<1>5. CatalogTypeOK'
  BY <1>1, <1>2, <1>4, Committed DEF CatalogTypeOK
<1>6. EvaluatedInv'
  BY <1>1, <1>2, <1>3 DEF EvaluatedInv, Existing, Exists
<1>7. \A i, x : IsPromotion(i, x)' <=> IsPromotion(i, x)
  BY <1>1, <1>4 DEF IsPromotion
<1>8. \A x \in ProposalId : Exists(x)' /\ proposals'[x].status \in WithPromotion <=>
                            Exists(x) /\ proposals[x].status \in WithPromotion
  BY <1>1, <1>2, <1>3 DEF Exists, WithPromotion
<1>9. PromotionInv'
  <2>1. ASSUME NEW i \in DOMAIN auditRecords', auditRecords'[i].kind = "promotion",
               NEW x, x = auditRecords'[i].proposal
        PROVE  /\ Exists(x)' /\ proposals'[x].status \in WithPromotion
               /\ \A j \in DOMAIN auditRecords' : IsPromotion(j, x)' => j = i
    <3>1. i \in DOMAIN auditRecords /\ auditRecords'[i] = auditRecords[i]
      BY <1>1, <1>4, <2>1
    <3>2. /\ x \in ProposalId /\ Exists(x) /\ proposals[x].status \in WithPromotion
          /\ \A j \in DOMAIN auditRecords : IsPromotion(j, x) => j = i
      BY <2>1, <3>1, RecordFields DEF PromotionInv
    <3> QED
      BY <1>7, <1>8, <3>2 DEF IsPromotion
  <2>2. ASSUME NEW x \in Existing', proposals'[x].status \in WithPromotion
        PROVE  (\E i \in DOMAIN auditRecords' : IsPromotion(i, x)') /\ promotionRecords'[x] # Null
    <3>1. x \in Existing /\ proposals[x].status \in WithPromotion
      BY <1>8, <2>2 DEF Existing
    <3>2. (\E i \in DOMAIN auditRecords : IsPromotion(i, x)) /\ promotionRecords[x] # Null
      BY <3>1 DEF PromotionInv
    <3> QED
      BY <1>1, <1>4, <1>7, <3>2
  <2> QED
    BY <2>1, <2>2 DEF PromotionInv
<1>10. Standing' = Standing \ {id} /\ id \in Standing
  BY <1>1, <1>2, <1>3 DEF Standing, Existing, Exists
<1>11. \A x \in Standing :
         /\ PromotedAt(x)' = PromotedAt(x) /\ PromotedAt(x) \in Nat /\ IsPromotion(PromotedAt(x), x)
         /\ x \in ProposalId
  <2>1. \A x \in Standing : x \in Existing /\ proposals[x].status \in WithPromotion /\ x \in ProposalId
    BY DEF Standing, WithPromotion, Existing
  <2> QED
    BY <1>1, <1>4, <1>5, <1>9, <2>1, PlacesStay
<1>12. \A x \in Standing : PromotedAt(x) = PromotedAt(id) => x = id
  BY <1>10, <1>11 DEF IsPromotion
<1>13. \A x \in Standing : TargetKeyOf[x] = key => PromotedAt(x) <= PromotedAt(id)
  BY <1>2 DEF ChainInv
<1>14. ChainInv'
  <2>1. ASSUME NEW x \in Standing', NEW b, b = promotionRecords'[x].active
        PROVE  /\ b # Null =>
                    b \in Standing' /\ SameTarget(b, x) /\ PromotedAt(b)' < PromotedAt(x)'
               /\ \A other \in Standing' : SameTarget(other, x) /\ PromotedAt(other)' < PromotedAt(x)' =>
                    b # Null /\ PromotedAt(other)' <= PromotedAt(b)'
    <3>1. x \in Standing /\ x # id /\ b = promotionRecords[x].active
      BY <1>1, <1>10, <2>1
    <3>2. b # Null => b \in Standing /\ SameTarget(b, x) /\ PromotedAt(b) < PromotedAt(x)
      BY <3>1 DEF ChainInv
    <3>3. \A other \in Standing : SameTarget(other, x) /\ PromotedAt(other) < PromotedAt(x) =>
            b # Null /\ PromotedAt(other) <= PromotedAt(b)
      BY <3>1 DEF ChainInv
    <3>4. b # id
      <4>1. SUFFICES ASSUME b = id PROVE FALSE
        OBVIOUS
      <4>2. id # Null
        BY NullAssumption
      <4>3. TargetKeyOf[x] = key /\ PromotedAt(id) < PromotedAt(x)
        BY <3>2, <4>1, <4>2 DEF SameTarget
      <4> QED
        BY <1>10, <1>11, <1>13, <3>1, <4>3
    <3> QED
      BY <1>10, <1>11, <3>1, <3>2, <3>3, <3>4
  <2>2. ASSUME NEW k \in TargetKey, NEW active, active = activeByTarget'[k]
        PROVE  /\ active # Null => active \in Standing' /\ TargetKeyOf[active] = k
               /\ \A x \in Standing' : TargetKeyOf[x] = k =>
                    active # Null /\ PromotedAt(x)' <= PromotedAt(active)'
    <3>1. CASE k = key
      <4>1. active = before
        BY <1>3, <2>2, <3>1
      <4>2. before # Null => before \in Standing /\ SameTarget(before, id) /\ PromotedAt(before) < PromotedAt(id)
        BY <1>10 DEF ChainInv
      <4>3. \A other \in Standing : SameTarget(other, id) /\ PromotedAt(other) < PromotedAt(id) =>
              before # Null /\ PromotedAt(other) <= PromotedAt(before)
        BY <1>10 DEF ChainInv
      <4>4. before # Null => before # id
        BY <1>10, <1>11, <4>2
      <4>5. \A x \in Standing' : TargetKeyOf[x] = k => PromotedAt(x) < PromotedAt(id)
        BY <1>10, <1>11, <1>12, <1>13, <3>1
      <4> HIDE DEF before, key
      <4>6. key = TargetKeyOf[id]
        BY DEF key
      <4> QED
        BY <1>10, <1>11, <3>1, <4>1, <4>2, <4>3, <4>4, <4>5, <4>6 DEF SameTarget
    <3>2. CASE k # key
      <4>1. active = activeByTarget[k]
        BY <1>3, <2>2, <3>2
      <4>2. /\ active # Null => active \in Standing /\ TargetKeyOf[active] = k
            /\ \A x \in Standing : TargetKeyOf[x] = k =>
                 active # Null /\ PromotedAt(x) <= PromotedAt(active)
        BY <4>1 DEF ChainInv
      <4> QED
        BY <1>10, <1>11, <3>2, <4>2
    <3> QED
      BY <3>1, <3>2
  <2> QED
    BY <2>1, <2>2 DEF ChainInv, SameTarget
<1> QED
  BY <1>5, <1>6, <1>9, <1>14

-----------------------------------------------------------------------------
(***************************************************************************)
(* The order of promotions is an invariant.                                *)
(***************************************************************************)
LEMMA OrderInitially == CatalogInit => OrderInv
<1> SUFFICES ASSUME CatalogInit PROVE OrderInv
  OBVIOUS
<1>1. CatalogTypeOK /\ Existing = {} /\ DOMAIN auditRecords = {}
  BY DEF CatalogInit, CatalogTypeOK, Existing, Exists
<1> QED
  BY <1>1 DEF CatalogInit, OrderInv, EvaluatedInv, PromotionInv, ChainInv, Standing

\* Every command keeps the order.
LEMMA OrderNext == OrderInv /\ [CatalogNext]_catalogVars => OrderInv'
<1> SUFFICES ASSUME OrderInv, [CatalogNext]_catalogVars PROVE OrderInv'
  OBVIOUS
<1>1. CASE UNCHANGED catalogVars
  <2>1. /\ proposals' = proposals /\ auditRecords' = auditRecords /\ activeByTarget' = activeByTarget
        /\ promotionRecords' = promotionRecords /\ catalogRevision' = catalogRevision
    BY <1>1 DEF catalogVars
  <2>2. CatalogTypeOK' /\ EvaluatedInv'
    BY <2>1 DEF OrderInv, CatalogTypeOK, EvaluatedInv, Existing, Exists
  <2>3. PromotionInv'
    BY <2>1 DEF OrderInv, PromotionInv, Existing, Exists, IsPromotion
  <2>4. Standing' = Standing /\ \A x : PromotedAt(x)' = PromotedAt(x)
    BY <2>1 DEF Standing, Existing, Exists, PromotedAt
  <2>5. ChainInv'
    BY <2>1, <2>4 DEF OrderInv, ChainInv
  <2> QED
    BY <2>2, <2>3, <2>5 DEF OrderInv
<1>2. ASSUME NEW id \in ProposalId, NEW at \in Instant, Propose(id, at) PROVE OrderInv'
  BY <1>2, ProposeOrder
<1>3. ASSUME NEW id \in ProposalId, NEW at \in Instant, BeginEvaluation(id, at) PROVE OrderInv'
  BY <1>3, BeginEvaluationOrder
<1>4. ASSUME NEW id \in ProposalId, NEW at \in Instant, NEW evidence \in EvidenceFor,
             Evaluate(id, evidence, at)
      PROVE  OrderInv'
  BY <1>4, EvaluateOrder
<1>5. ASSUME NEW id \in ProposalId, NEW at \in Instant, NEW command \in AppCommand \union {Null},
             Promote(id, command, at)
      PROVE  OrderInv'
  BY <1>5, PromoteOrder
<1>6. ASSUME NEW id \in ProposalId, NEW at \in Instant, NEW command \in AppCommand \union {Null},
             Rollback(id, command, at)
      PROVE  OrderInv'
  BY <1>6, RollbackOrder
<1>7. ASSUME NEW id \in ProposalId, NEW at \in Instant, Reject(id, at) PROVE OrderInv'
  BY <1>7, RejectOrder
<1>8. ASSUME NEW id \in ProposalId, NEW at \in Instant, Archive(id, at) \/ Unarchive(id, at)
      PROVE  OrderInv'
  BY <1>8, ArchiveOrder
<1>9. ASSUME NEW id \in ProposalId, NEW at \in Instant, DeleteProposal(id, at) PROVE OrderInv'
  BY <1>9, DeleteProposalOrder
<1> QED
  BY <1>1, <1>2, <1>3, <1>4, <1>5, <1>6, <1>7, <1>8, <1>9 DEF CatalogNext

-----------------------------------------------------------------------------
(***************************************************************************)
(* Every proposal can be parsed.                                           *)
(***************************************************************************)
Transition == [from : Lifecycle, to : Lifecycle, at : Instant]
\* Every proposal there is can be parsed.
ParseInv == \A id \in Existing : Parses(id)

\* The statuses, and which may follow which.
LEMMA Lifecycles ==
  /\ Lifecycle = {"proposed", "evaluating", "evaluated", "promoted", "rejected", "rolled-back"}
  /\ Archivable = {"evaluated", "promoted", "rejected", "rolled-back"}
  /\ WithEvidence = {"evaluated", "promoted", "rejected", "rolled-back"}
  /\ WithPromotion = {"promoted", "rolled-back"}
  /\ \A a, b : <<a, b>> \in Allowed <=>
       \/ a = "proposed" /\ b = "evaluating"
       \/ a = "evaluating" /\ b = "evaluated"
       \/ a = "evaluated" /\ b \in {"promoted", "rejected"}
       \/ a = "promoted" /\ b = "rolled-back"
BY DEF Lifecycle, Archivable, WithEvidence, WithPromotion, Allowed

\* A step leaves what the other proposals are.
LEMMA ParsesStill ==
  ASSUME NEW id \in ProposalId, proposals'[id] = proposals[id], Parses(id)
  PROVE  Parses(id)'
<1>1. Chronological(id)'
  BY DEF Parses, Chronological, LastTransition
<1>2. ArchivalIsValid(id)' /\ EvaluationIsValid(id)'
  BY DEF Parses, ArchivalIsValid, EvaluationIsValid
<1> QED
  BY <1>1, <1>2 DEF Parses

\* A command that leaves its own proposal parseable leaves all of them so.
LEMMA ParseStays ==
  ASSUME OrderInv, ParseInv, NEW id \in ProposalId, NEW p \in Proposal \union {Null},
         CommitProposal(id, p), p # Null => Parses(id)'
  PROVE  ParseInv'
<1>1. proposals'[id] = p /\ \A other \in ProposalId : other # id => proposals'[other] = proposals[other]
  BY Committed DEF OrderInv
<1> SUFFICES ASSUME NEW x \in Existing' PROVE Parses(x)'
  BY DEF ParseInv
<1>2. x \in ProposalId /\ proposals'[x] # Null
  BY DEF Existing, Exists
<1>3. CASE x = id
  BY <1>1, <1>2, <1>3
<1>4. CASE x # id
  <2>1. x \in Existing
    BY <1>1, <1>2, <1>4 DEF Existing, Exists
  <2> QED
    BY <1>1, <1>2, <1>4, <2>1, ParsesStill DEF ParseInv
<1> QED
  BY <1>3, <1>4

\* The path of a proposal, by its status.
LEMMA PathShape ==
  ASSUME NEW id \in ProposalId, proposals[id] \in Proposal, Chronological(id),
         NEW path, path = proposals[id].transitions, NEW status, status = proposals[id].status
  PROVE  /\ path \in Seq(Transition) /\ DOMAIN path = 1..Len(path) /\ Len(path) \in Nat
         /\ status = "proposed" => Len(path) = 0
         /\ status = "evaluating" => Len(path) = 1
         /\ status = "evaluated" => Len(path) = 2
         /\ status \in {"promoted", "rejected"} => Len(path) = 3
         /\ status = "rolled-back" => Len(path) = 4
         /\ Len(path) >= 1 => path[1].from = "proposed" /\ path[1].to = "evaluating"
         /\ Len(path) >= 2 => path[2].from = "evaluating" /\ path[2].to = "evaluated"
         /\ Len(path) >= 3 => path[3].from = "evaluated"
         /\ Len(path) = 3 => path[3].to = status
         /\ Len(path) = 4 => path[3].to = "promoted" /\ path[4].from = "promoted" /\ path[4].to = "rolled-back"
<1>1. path \in Seq(Transition) /\ DOMAIN path = 1..Len(path) /\ Len(path) \in Nat /\ status \in Lifecycle
  BY DEF Proposal, Transition
<1>2. /\ status = "proposed" <=> path = <<>>
      /\ path # <<>> => path[1].from = "proposed" /\ path[Len(path)].to = status
      /\ \A i \in DOMAIN path :
           /\ <<path[i].from, path[i].to>> \in Allowed
           /\ i > 1 => path[i].from = path[i - 1].to
  BY DEF Chronological, LastTransition
<1>3. path = <<>> <=> Len(path) = 0
  BY <1>1
<1>11. \A i, j \in DOMAIN path : j = i + 1 => path[j].from = path[i].to
  <2> SUFFICES ASSUME NEW i \in DOMAIN path, NEW j \in DOMAIN path, j = i + 1
               PROVE  path[j].from = path[i].to
    OBVIOUS
  <2>1. i \in 1..Len(path) /\ j > 1 /\ j - 1 = i
    BY <1>1
  <2> QED
    BY <1>2, <2>1
<1>12. \A i \in DOMAIN path :
         \/ path[i].from = "proposed" /\ path[i].to = "evaluating"
         \/ path[i].from = "evaluating" /\ path[i].to = "evaluated"
         \/ path[i].from = "evaluated" /\ path[i].to \in {"promoted", "rejected"}
         \/ path[i].from = "promoted" /\ path[i].to = "rolled-back"
  <2> SUFFICES ASSUME NEW i \in DOMAIN path, NEW a, a = path[i].from, NEW b, b = path[i].to
               PROVE  \/ a = "proposed" /\ b = "evaluating"
                      \/ a = "evaluating" /\ b = "evaluated"
                      \/ a = "evaluated" /\ b \in {"promoted", "rejected"}
                      \/ a = "promoted" /\ b = "rolled-back"
    OBVIOUS
  <2>1. <<a, b>> \in Allowed
    BY <1>2
  <2> QED
    BY <2>1, Lifecycles
<1>4. Len(path) >= 1 => path[1].from = "proposed" /\ path[1].to = "evaluating"
  <2>1. Len(path) >= 1 => 1 \in DOMAIN path
    BY <1>1
  <2> QED
    BY <1>2, <1>3, <1>12, <2>1
<1>5. Len(path) >= 2 => path[2].from = "evaluating" /\ path[2].to = "evaluated"
  <2>1. Len(path) >= 2 => 1 \in DOMAIN path /\ 2 \in DOMAIN path /\ 2 = 1 + 1 /\ Len(path) >= 1
    BY <1>1
  <2> QED
    BY <1>4, <1>11, <1>12, <2>1
<1>6. Len(path) >= 3 => path[3].from = "evaluated" /\ path[3].to \in {"promoted", "rejected"}
  <2>1. Len(path) >= 3 => 2 \in DOMAIN path /\ 3 \in DOMAIN path /\ 3 = 2 + 1 /\ Len(path) >= 2
    BY <1>1
  <2> QED
    BY <1>5, <1>11, <1>12, <2>1
<1>7. Len(path) >= 4 => /\ path[3].to = "promoted" /\ path[4].from = "promoted" /\ path[4].to = "rolled-back"
  <2>1. Len(path) >= 4 => 3 \in DOMAIN path /\ 4 \in DOMAIN path /\ 4 = 3 + 1 /\ Len(path) >= 3
    BY <1>1
  <2> QED
    BY <1>6, <1>11, <1>12, <2>1
<1>8. Len(path) <= 4
  <2>1. SUFFICES ASSUME Len(path) >= 5 PROVE FALSE
    BY <1>1
  <2>2. 4 \in DOMAIN path /\ 5 \in DOMAIN path /\ 5 = 4 + 1 /\ Len(path) >= 4
    BY <1>1, <2>1
  <2>3. path[5].from = path[4].to
    BY <1>11, <2>2
  <2> QED
    BY <1>7, <1>12, <2>2, <2>3
<1>9. Len(path) = 0 \/ Len(path) = 1 \/ Len(path) = 2 \/ Len(path) = 3 \/ Len(path) = 4
  <2> DEFINE n == Len(path)
  <2>1. n \in Nat /\ n <= 4
    BY <1>1, <1>8
  <2> HIDE DEF n
  <2>2. n = 0 \/ n = 1 \/ n = 2 \/ n = 3 \/ n = 4
    BY <2>1
  <2> QED
    BY <2>2 DEF n
<1>10. /\ Len(path) = 0 => status = "proposed"
       /\ \A n \in Nat : Len(path) = n /\ n # 0 => path[n].to = status
  <2>1. \A n \in Nat : Len(path) = n /\ n # 0 => path # <<>> /\ path[Len(path)] = path[n]
    BY <1>3
  <2> QED
    BY <1>2, <1>3, <2>1
<1>13. /\ Len(path) = 1 => status = "evaluating"
       /\ Len(path) = 2 => status = "evaluated"
       /\ Len(path) = 3 => status \in {"promoted", "rejected"} /\ path[3].to = status
       /\ Len(path) = 4 => status = "rolled-back"
  <2>1. /\ 1 \in Nat /\ 2 \in Nat /\ 3 \in Nat /\ 4 \in Nat
    OBVIOUS
  <2>2. /\ Len(path) = 1 => status = path[1].to /\ Len(path) >= 1
        /\ Len(path) = 2 => status = path[2].to /\ Len(path) >= 2
        /\ Len(path) = 3 => status = path[3].to /\ Len(path) >= 3
        /\ Len(path) = 4 => status = path[4].to /\ Len(path) >= 4
    <3> DEFINE n == Len(path)
    <3>1. \A m \in Nat : n = m /\ m # 0 => path[m].to = status
      BY <1>10
    <3> HIDE DEF n
    <3>2. /\ n = 1 => status = path[1].to /\ n >= 1
          /\ n = 2 => status = path[2].to /\ n >= 2
          /\ n = 3 => status = path[3].to /\ n >= 3
          /\ n = 4 => status = path[4].to /\ n >= 4
      BY <2>1, <3>1
    <3> QED
      BY <3>2 DEF n
  <2> QED
    BY <1>4, <1>5, <1>6, <1>7, <2>2
<1> QED
  BY <1>1, <1>4, <1>5, <1>6, <1>7, <1>9, <1>10, <1>13

\* A path that grows by one transition, in order.
LEMMA MovedChronological ==
  ASSUME NEW id \in ProposalId, proposals[id] \in Proposal, Chronological(id),
         NEW q, q = proposals'[id], NEW to \in Lifecycle, NEW at \in Instant,
         <<proposals[id].status, to>> \in Allowed, InOrder(proposals[id], at),
         q.status = to, q.createdAt = proposals[id].createdAt,
         q.transitions = Append(proposals[id].transitions,
                                [from |-> proposals[id].status, to |-> to, at |-> at])
  PROVE  /\ Chronological(id)' /\ DOMAIN proposals[id].transitions \subseteq DOMAIN q.transitions
         /\ \A i \in DOMAIN proposals[id].transitions : q.transitions[i] = proposals[id].transitions[i]
         /\ Len(q.transitions) = Len(proposals[id].transitions) + 1
         /\ Len(proposals[id].transitions) + 1 \in DOMAIN q.transitions
         /\ q.transitions[Len(proposals[id].transitions) + 1] =
              [from |-> proposals[id].status, to |-> to, at |-> at]
<1> DEFINE p == proposals[id]
           path == p.transitions
           n == Len(path) + 1
           t == [from |-> p.status, to |-> to, at |-> at]
<1>1. path \in Seq(Transition) /\ DOMAIN path = 1..Len(path) /\ Len(path) \in Nat
  BY PathShape
<1>2. t \in Transition /\ t.from = p.status /\ t.to = to /\ t.at = at /\ p.createdAt \in Nat /\ at \in Nat
  BY CatalogBoundAssumption DEF Proposal, Transition
<1>3. q.transitions = Append(path, t)
  OBVIOUS
<1> HIDE DEF t
<1>4. /\ q.transitions \in Seq(Transition) /\ Len(q.transitions) = n /\ DOMAIN q.transitions = 1..n
      /\ \A i \in 1..Len(path) : q.transitions[i] = path[i]
      /\ q.transitions[n] = t
  BY <1>1, <1>2, <1>3, AppendProperties
<1>5. /\ p.status = "proposed" <=> path = <<>>
      /\ path # <<>> => path[1].from = "proposed" /\ path[Len(path)].to = p.status
      /\ \A i \in DOMAIN path :
           /\ <<path[i].from, path[i].to>> \in Allowed
           /\ path[i].at >= (IF i - 1 = 0 THEN p.createdAt ELSE path[i - 1].at)
           /\ i > 1 => path[i].from = path[i - 1].to
  BY DEF Chronological, LastTransition
<1>6. /\ at >= p.createdAt /\ (path # <<>> => at >= path[Len(path)].at)
  BY DEF InOrder, LastTransition
<1>7. path = <<>> <=> Len(path) = 0
  BY <1>1
<1>8. ASSUME NEW i \in 1..n
      PROVE  /\ <<q.transitions[i].from, q.transitions[i].to>> \in Allowed
             /\ q.transitions[i].at >= (IF i - 1 = 0 THEN p.createdAt ELSE q.transitions[i - 1].at)
             /\ i > 1 => q.transitions[i].from = q.transitions[i - 1].to
  <2>1. CASE i = n
    <3>1. n - 1 = Len(path) /\ (n > 1 <=> path # <<>>) /\ (n - 1 = 0 <=> path = <<>>)
      BY <1>1, <1>7
    <3>2. n > 1 => n - 1 \in 1..Len(path) /\ q.transitions[n - 1] = path[Len(path)]
      BY <1>1, <1>4, <3>1
    <3> QED
      BY <1>2, <1>4, <1>5, <1>6, <2>1, <3>1, <3>2
  <2>2. CASE i # n
    <3>1. i \in 1..Len(path) /\ i \in DOMAIN path /\ (i - 1 # 0 => i - 1 \in 1..Len(path))
      BY <1>1, <2>2
    <3> QED
      BY <1>1, <1>4, <1>5, <3>1
  <2> QED
    BY <2>1, <2>2
<1>9. q.transitions # <<>> /\ q.transitions[1].from = "proposed" /\ q.transitions[Len(q.transitions)].to = to
  <2>1. CASE Len(path) = 0
    BY <1>1, <1>2, <1>4, <1>5, <1>7, <2>1
  <2>2. CASE Len(path) # 0
    BY <1>1, <1>2, <1>4, <1>5, <1>7, <2>2, SMTT(40)
  <2> QED
    BY <2>1, <2>2
<1>10. to # "proposed"
  BY Lifecycles
<1>11. Chronological(id)'
  BY <1>4, <1>8, <1>9, <1>10 DEF Chronological, LastTransition
<1> QED
  BY <1>1, <1>4, <1>11 DEF t

\* A proposal that moves on and keeps its evaluation.
LEMMA MovedParses ==
  ASSUME NEW id \in ProposalId, proposals[id] \in Proposal, Parses(id),
         NEW q, q = proposals'[id], NEW to \in Lifecycle, NEW at \in Instant,
         <<proposals[id].status, to>> \in Allowed, InOrder(proposals[id], at),
         q.status = to, q.createdAt = proposals[id].createdAt, q.archivedAt = proposals[id].archivedAt,
         q.transitions = Append(proposals[id].transitions,
                                [from |-> proposals[id].status, to |-> to, at |-> at]),
         q.evaluation = proposals[id].evaluation,
         proposals[id].status \in WithEvidence <=> to \in WithEvidence,
         to \in WithPromotion => q.evaluation.result.passed,
         q.promotion # Null <=> to \in WithPromotion
  PROVE  Parses(id)'
<1>1. Chronological(id) /\ ArchivalIsValid(id) /\ EvaluationIsValid(id)
  BY DEF Parses
<1>2. /\ Chronological(id)' /\ DOMAIN proposals[id].transitions \subseteq DOMAIN q.transitions
      /\ \A i \in DOMAIN proposals[id].transitions : q.transitions[i] = proposals[id].transitions[i]
  BY <1>1, MovedChronological, SMTT(40)
<1>3. ArchivalIsValid(id)'
  <2>1. Archivable = WithEvidence
    BY Lifecycles
  <2> QED
    BY <1>1, <2>1 DEF ArchivalIsValid
<1>4. EvaluationIsValid(id)'
  BY <1>1, <1>2 DEF EvaluationIsValid
<1> QED
  BY <1>2, <1>3, <1>4 DEF Parses

\* A new proposal parses.
LEMMA ProposeParses ==
  ASSUME OrderInv, ParseInv, NEW id \in ProposalId, NEW at \in Instant, Propose(id, at)
  PROVE  ParseInv'
<1> DEFINE p == [status |-> "proposed", createdAt |-> at, archivedAt |-> Null,
                 transitions |-> <<>>, evaluation |-> Null, promotion |-> Null]
<1>1. p \in Proposal /\ CommitProposal(id, p)
  BY DEF Proposal, Lifecycle, Propose
<1>2. proposals'[id] = p
  BY <1>1, Committed DEF OrderInv
<1>3. Parses(id)'
  <2>1. /\ proposals'[id].status = "proposed" /\ proposals'[id].transitions = <<>>
        /\ proposals'[id].archivedAt = Null /\ proposals'[id].evaluation = Null
        /\ proposals'[id].promotion = Null
    BY <1>2
  <2>2. Chronological(id)'
    BY <2>1 DEF Chronological
  <2> QED
    BY <2>1, <2>2, Lifecycles DEF Parses, ArchivalIsValid, EvaluationIsValid
<1> QED
  BY <1>1, <1>3, ParseStays

\* A proposal whose evaluation begins parses.
LEMMA BeginEvaluationParses ==
  ASSUME OrderInv, ParseInv, NEW id \in ProposalId, NEW at \in Instant, BeginEvaluation(id, at)
  PROVE  ParseInv'
<1> DEFINE p == Moved(proposals[id], "evaluating", at)
<1>1. /\ CommitProposal(id, p) /\ Exists(id) /\ proposals[id].status = "proposed"
      /\ InOrder(proposals[id], at)
  BY DEF BeginEvaluation
<1>2. proposals[id] \in Proposal /\ Parses(id) /\ "evaluating" \in Lifecycle
  BY <1>1, EvaluatedProposal, Lifecycles DEF ParseInv, Existing
<1>3. /\ p \in Proposal /\ p.status = "evaluating" /\ p.createdAt = proposals[id].createdAt
      /\ p.archivedAt = proposals[id].archivedAt /\ p.evaluation = proposals[id].evaluation
      /\ p.promotion = proposals[id].promotion
      /\ p.transitions = Append(proposals[id].transitions,
                                [from |-> proposals[id].status, to |-> "evaluating", at |-> at])
  BY <1>2, MovedProposal
<1> HIDE DEF p
<1>4. proposals'[id] = p
  BY <1>1, <1>3, Committed DEF OrderInv
<1>5. p.promotion = Null
  BY <1>1, <1>2, <1>3, Lifecycles DEF Parses
<1>6. <<proposals[id].status, "evaluating">> \in Allowed
  BY <1>1 DEF Allowed
<1>7. Parses(id)'
  BY <1>1, <1>2, <1>3, <1>4, <1>5, <1>6, MovedParses DEF WithEvidence, WithPromotion
<1> QED
  BY <1>1, <1>3, <1>7, ParseStays

\* An evaluated proposal parses: its evaluation has the instant of its transition.
LEMMA EvaluateParses ==
  ASSUME OrderInv, ParseInv, NEW id \in ProposalId, NEW evidence \in EvidenceFor, NEW at \in Instant,
         Evaluate(id, evidence, at)
  PROVE  ParseInv'
<1> DEFINE moved == Moved(proposals[id], "evaluated", at)
           evaluation == [evidence |-> evidence, result |-> ResultOf(evidence), at |-> at]
           p == [moved EXCEPT !.evaluation = evaluation]
           path == proposals[id].transitions
<1>1. /\ CommitProposal(id, p) /\ Exists(id) /\ proposals[id].status = "evaluating"
      /\ InOrder(proposals[id], at) /\ evidence.proposal = id /\ Conclusive(evidence)
  BY DEF Evaluate
<1>2. proposals[id] \in Proposal /\ Parses(id) /\ "evaluated" \in Lifecycle
  BY <1>1, EvaluatedProposal, Lifecycles DEF ParseInv, Existing
<1>3. /\ moved \in Proposal /\ moved.status = "evaluated" /\ moved.createdAt = proposals[id].createdAt
      /\ moved.archivedAt = proposals[id].archivedAt /\ moved.promotion = proposals[id].promotion
      /\ moved.transitions =
           Append(path, [from |-> proposals[id].status, to |-> "evaluated", at |-> at])
  BY <1>2, MovedProposal
<1>4. evaluation \in Evaluation /\ evaluation # Null
  BY ResultTyped, NullAssumption
<1>5. evaluation.evidence = evidence /\ evaluation.result = ResultOf(evidence) /\ evaluation.at = at
  OBVIOUS
<1> HIDE DEF moved, evaluation
<1>6. /\ p \in Proposal /\ p.status = "evaluated" /\ p.createdAt = proposals[id].createdAt
      /\ p.archivedAt = proposals[id].archivedAt /\ p.evaluation = evaluation
      /\ p.promotion = proposals[id].promotion
      /\ p.transitions =
           Append(path, [from |-> proposals[id].status, to |-> "evaluated", at |-> at])
  BY <1>3, <1>4 DEF Proposal
<1> HIDE DEF p
<1>7. proposals'[id] = p
  BY <1>1, <1>6, Committed DEF OrderInv
<1>8. p.promotion = Null /\ p.archivedAt = Null
  BY <1>1, <1>2, <1>6, Lifecycles DEF Parses, ArchivalIsValid
<1>9. <<proposals[id].status, "evaluated">> \in Allowed /\ Chronological(id)
  BY <1>1, <1>2 DEF Allowed, Parses
<1>10. /\ Chronological(id)' /\ Len(path) + 1 \in DOMAIN p.transitions
       /\ p.transitions[Len(path) + 1] = [from |-> proposals[id].status, to |-> "evaluated", at |-> at]
  BY <1>1, <1>2, <1>6, <1>7, <1>9, MovedChronological, SMTT(40)
<1>11. EvaluationIsValid(id)'
  BY <1>1, <1>4, <1>5, <1>6, <1>7, <1>10, Lifecycles DEF EvaluationIsValid
<1>12. ArchivalIsValid(id)' /\ "evaluated" \notin WithPromotion
  BY <1>7, <1>8, Lifecycles DEF ArchivalIsValid
<1>13. Parses(id)'
  BY <1>6, <1>7, <1>8, <1>10, <1>11, <1>12 DEF Parses
<1> QED
  BY <1>1, <1>6, <1>13, ParseStays

\* A promoted proposal parses: it has its promotion record.
LEMMA PromoteParses ==
  ASSUME OrderInv, ParseInv, NEW id \in ProposalId, NEW command \in AppCommand \union {Null},
         NEW at \in Instant, Promote(id, command, at)
  PROVE  ParseInv'
<1>1. PICK record \in AuditRecord, p \in Proposal : Promotes(id, command, at, record, p)
  BY PromoteTypes
<1>2. /\ CommitProposal(id, p) /\ p.status = "promoted" /\ p.createdAt = proposals[id].createdAt
      /\ p.archivedAt = proposals[id].archivedAt /\ p.evaluation = proposals[id].evaluation
      /\ p.promotion = record
      /\ p.transitions = Append(proposals[id].transitions,
                                [from |-> "evaluated", to |-> "promoted", at |-> at])
  BY <1>1 DEF Promotes
<1>3. /\ Exists(id) /\ proposals[id].status = "evaluated" /\ InOrder(proposals[id], at)
      /\ proposals[id].evaluation.result.passed
  BY DEF Promote
<1>4. /\ proposals[id] \in Proposal /\ Parses(id) /\ "promoted" \in Lifecycle /\ record # Null
  BY <1>3, EvaluatedProposal, Lifecycles, NullAssumption DEF ParseInv, Existing
<1>5. proposals'[id] = p
  BY <1>2, Committed DEF OrderInv
<1>6. <<proposals[id].status, "promoted">> \in Allowed
  BY <1>3 DEF Allowed
<1>7. Parses(id)'
  BY <1>2, <1>3, <1>4, <1>5, <1>6, MovedParses DEF WithEvidence, WithPromotion
<1> QED
  BY <1>2, <1>7, ParseStays

\* A proposal that was rolled back parses and keeps its promotion record.
LEMMA RollbackParses ==
  ASSUME OrderInv, ParseInv, NEW id \in ProposalId, NEW command \in AppCommand \union {Null},
         NEW at \in Instant, Rollback(id, command, at)
  PROVE  ParseInv'
<1>1. PICK record \in AuditRecord, p \in Proposal : RollsBack(id, command, at, record, p)
  BY RollbackTypes
<1>2. /\ CommitProposal(id, p) /\ p.status = "rolled-back" /\ p.createdAt = proposals[id].createdAt
      /\ p.archivedAt = proposals[id].archivedAt /\ p.evaluation = proposals[id].evaluation
      /\ p.promotion = proposals[id].promotion
      /\ p.transitions = Append(proposals[id].transitions,
                                [from |-> "promoted", to |-> "rolled-back", at |-> at])
  BY <1>1 DEF RollsBack
<1>3. /\ Exists(id) /\ proposals[id].status = "promoted" /\ InOrder(proposals[id], at)
  BY DEF Rollback
<1>4. /\ proposals[id] \in Proposal /\ Parses(id) /\ "rolled-back" \in Lifecycle
  BY <1>3, EvaluatedProposal, Lifecycles DEF ParseInv, Existing
<1>5. proposals'[id] = p
  BY <1>2, Committed DEF OrderInv
<1>6. <<proposals[id].status, "rolled-back">> \in Allowed
  BY <1>3 DEF Allowed
<1>7. proposals[id].promotion # Null /\ proposals[id].evaluation.result.passed
  BY <1>3, <1>4, Lifecycles DEF Parses, EvaluationIsValid
<1>8. Parses(id)'
  BY <1>2, <1>3, <1>4, <1>5, <1>6, <1>7, MovedParses DEF WithEvidence, WithPromotion
<1> QED
  BY <1>2, <1>8, ParseStays

\* A rejected proposal parses.
LEMMA RejectParses ==
  ASSUME OrderInv, ParseInv, NEW id \in ProposalId, NEW at \in Instant, Reject(id, at)
  PROVE  ParseInv'
<1> DEFINE p == Moved(proposals[id], "rejected", at)
<1>1. /\ CommitProposal(id, p) /\ Exists(id) /\ proposals[id].status = "evaluated"
      /\ InOrder(proposals[id], at)
  BY DEF Reject
<1>2. proposals[id] \in Proposal /\ Parses(id) /\ "rejected" \in Lifecycle
  BY <1>1, EvaluatedProposal, Lifecycles DEF ParseInv, Existing
<1>3. /\ p \in Proposal /\ p.status = "rejected" /\ p.createdAt = proposals[id].createdAt
      /\ p.archivedAt = proposals[id].archivedAt /\ p.evaluation = proposals[id].evaluation
      /\ p.promotion = proposals[id].promotion
      /\ p.transitions = Append(proposals[id].transitions,
                                [from |-> proposals[id].status, to |-> "rejected", at |-> at])
  BY <1>2, MovedProposal
<1> HIDE DEF p
<1>4. proposals'[id] = p
  BY <1>1, <1>3, Committed DEF OrderInv
<1>5. p.promotion = Null
  BY <1>1, <1>2, <1>3, Lifecycles DEF Parses
<1>6. <<proposals[id].status, "rejected">> \in Allowed
  BY <1>1 DEF Allowed
<1>7. Parses(id)'
  BY <1>1, <1>2, <1>3, <1>4, <1>5, <1>6, MovedParses DEF WithEvidence, WithPromotion
<1> QED
  BY <1>1, <1>3, <1>7, ParseStays

\* A marker is no transition.
LEMMA ArchiveParses ==
  ASSUME OrderInv, ParseInv, NEW id \in ProposalId, NEW at \in Instant,
         Archive(id, at) \/ Unarchive(id, at)
  PROVE  ParseInv'
<1>1. ASSUME NEW mark \in Instant \union {Null}, Exists(id),
             CommitProposal(id, [proposals[id] EXCEPT !.archivedAt = mark]),
             mark # Null => proposals[id].status \in Archivable /\ mark >= proposals[id].createdAt
      PROVE  ParseInv'
  <2> DEFINE p == [proposals[id] EXCEPT !.archivedAt = mark]
  <2>1. proposals[id] \in Proposal /\ Parses(id)
    BY <1>1, EvaluatedProposal DEF ParseInv, Existing
  <2>2. /\ p \in Proposal /\ p.archivedAt = mark /\ p.status = proposals[id].status
        /\ p.createdAt = proposals[id].createdAt /\ p.transitions = proposals[id].transitions
        /\ p.evaluation = proposals[id].evaluation /\ p.promotion = proposals[id].promotion
    BY <2>1 DEF Proposal
  <2>3. CommitProposal(id, p)
    BY <1>1
  <2> HIDE DEF p
  <2>4. proposals'[id] = p
    BY <2>2, <2>3, Committed DEF OrderInv
  <2>5. Chronological(id)'
    BY <2>1, <2>2, <2>4 DEF Parses, Chronological, LastTransition
  <2>6. ArchivalIsValid(id)' /\ EvaluationIsValid(id)'
    BY <1>1, <2>1, <2>2, <2>4 DEF Parses, ArchivalIsValid, EvaluationIsValid
  <2>7. Parses(id)'
    BY <2>1, <2>2, <2>4, <2>5, <2>6 DEF Parses
  <2> QED
    BY <2>2, <2>3, <2>7, ParseStays
<1>2. CASE Archive(id, at)
  <2>1. /\ Exists(id) /\ proposals[id].status \in Archivable /\ at >= proposals[id].createdAt
        /\ CommitProposal(id, [proposals[id] EXCEPT !.archivedAt = at])
    BY <1>2 DEF Archive, InOrder
  <2> QED
    BY <1>1, <2>1
<1>3. CASE Unarchive(id, at)
  BY <1>1, <1>3 DEF Unarchive
<1> QED
  BY <1>2, <1>3

\* A deleted proposal is not parsed any more.
LEMMA DeleteProposalParses ==
  ASSUME OrderInv, ParseInv, NEW id \in ProposalId, NEW at \in Instant, DeleteProposal(id, at)
  PROVE  ParseInv'
BY ParseStays DEF DeleteProposal

\* An empty catalog parses.
LEMMA ParseInitially == CatalogInit => ParseInv
BY DEF CatalogInit, ParseInv, Existing, Exists

\* Every command keeps the proposals parseable.
LEMMA ParseNext == OrderInv /\ ParseInv /\ [CatalogNext]_catalogVars => ParseInv'
<1> SUFFICES ASSUME OrderInv, ParseInv, [CatalogNext]_catalogVars PROVE ParseInv'
  OBVIOUS
<1>1. CASE UNCHANGED catalogVars
  <2>1. proposals' = proposals /\ Existing' = Existing
    BY <1>1 DEF catalogVars, Existing, Exists
  <2> QED
    BY <2>1, ParsesStill DEF ParseInv, Existing
<1>2. ASSUME NEW id \in ProposalId, NEW at \in Instant, Propose(id, at) PROVE ParseInv'
  BY <1>2, ProposeParses
<1>3. ASSUME NEW id \in ProposalId, NEW at \in Instant, BeginEvaluation(id, at) PROVE ParseInv'
  BY <1>3, BeginEvaluationParses
<1>4. ASSUME NEW id \in ProposalId, NEW at \in Instant, NEW evidence \in EvidenceFor,
             Evaluate(id, evidence, at)
      PROVE  ParseInv'
  BY <1>4, EvaluateParses
<1>5. ASSUME NEW id \in ProposalId, NEW at \in Instant, NEW command \in AppCommand \union {Null},
             Promote(id, command, at)
      PROVE  ParseInv'
  BY <1>5, PromoteParses
<1>6. ASSUME NEW id \in ProposalId, NEW at \in Instant, NEW command \in AppCommand \union {Null},
             Rollback(id, command, at)
      PROVE  ParseInv'
  BY <1>6, RollbackParses
<1>7. ASSUME NEW id \in ProposalId, NEW at \in Instant, Reject(id, at) PROVE ParseInv'
  BY <1>7, RejectParses
<1>8. ASSUME NEW id \in ProposalId, NEW at \in Instant, Archive(id, at) \/ Unarchive(id, at)
      PROVE  ParseInv'
  BY <1>8, ArchiveParses
<1>9. ASSUME NEW id \in ProposalId, NEW at \in Instant, DeleteProposal(id, at) PROVE ParseInv'
  BY <1>9, DeleteProposalParses
<1> QED
  BY <1>1, <1>2, <1>3, <1>4, <1>5, <1>6, <1>7, <1>8, <1>9 DEF CatalogNext

\* What a rejection leaves.
Rejects(id, at, record, p) ==
  /\ record.kind = "rejection" /\ record.proposal = id /\ record.at = at
  /\ record.evaluation = proposals[id].evaluation.result /\ record.command = Null
  /\ CommitProposal(id, p) /\ Appended(record) /\ Unadorned
  /\ p.status = "rejected" /\ p.evaluation = proposals[id].evaluation
  /\ p.promotion = proposals[id].promotion
  /\ p.createdAt = proposals[id].createdAt /\ p.archivedAt = proposals[id].archivedAt
  /\ p.transitions =
       Append(proposals[id].transitions, [from |-> "evaluated", to |-> "rejected", at |-> at])

\* Reject makes such a record and such a proposal.
LEMMA RejectTypes ==
  ASSUME OrderInv, NEW id \in ProposalId, NEW at \in Instant, Reject(id, at)
  PROVE  \E record \in AuditRecord, p \in Proposal : Rejects(id, at, record, p)
<1> DEFINE record == [Record("rejection", id, at) EXCEPT !.evaluation = proposals[id].evaluation.result]
           p == Moved(proposals[id], "rejected", at)
<1>1. /\ CommitProposal(id, p) /\ Appended(record) /\ Unadorned
      /\ Exists(id) /\ proposals[id].status = "evaluated"
  BY DEF Reject
<1>2. proposals[id] \in Proposal /\ proposals[id].evaluation.result \in Result
  BY <1>1, EvaluatedProposal DEF WithEvidence
<1>3. /\ record \in AuditRecord /\ record.kind = "rejection" /\ record.proposal = id /\ record.at = at
      /\ record.evaluation = proposals[id].evaluation.result /\ record.command = Null
  BY <1>2 DEF Record, AuditRecord, Decision
<1>4. "rejected" \in Lifecycle
  BY DEF Lifecycle, Archivable
<1>5. /\ p \in Proposal /\ p.status = "rejected" /\ p.evaluation = proposals[id].evaluation
      /\ p.promotion = proposals[id].promotion
      /\ p.createdAt = proposals[id].createdAt /\ p.archivedAt = proposals[id].archivedAt
      /\ p.transitions = Append(proposals[id].transitions,
                                [from |-> "evaluated", to |-> "rejected", at |-> at])
  BY <1>1, <1>2, <1>4, MovedProposal
<1> HIDE DEF record, p
<1> QED
  BY <1>1, <1>3, <1>5 DEF Rejects

\* What an archival or its end leaves.
Marks(id, mark, at, record, p) ==
  /\ Exists(id)
  /\ record.kind = IF mark = Null THEN "unarchive" ELSE "archive"
  /\ record.kind \in {"archive", "unarchive"}
  /\ record.proposal = id /\ record.at = at /\ record.command = Null
  /\ mark # Null => mark = at /\ proposals[id].archivedAt = Null
  /\ mark = Null => proposals[id].archivedAt # Null
  /\ CommitProposal(id, p) /\ Appended(record) /\ Unadorned
  /\ p.status = proposals[id].status /\ p.evaluation = proposals[id].evaluation
  /\ p.promotion = proposals[id].promotion /\ p.archivedAt = mark
  /\ p.createdAt = proposals[id].createdAt /\ p.transitions = proposals[id].transitions

\* Archive and Unarchive make such a record and such a proposal.
LEMMA ArchiveTypes ==
  ASSUME OrderInv, NEW id \in ProposalId, NEW at \in Instant, Archive(id, at) \/ Unarchive(id, at)
  PROVE  \E mark \in Instant \union {Null}, record \in AuditRecord, p \in Proposal :
           Marks(id, mark, at, record, p)
<1>1. ASSUME NEW mark \in Instant \union {Null}, NEW kind \in {"archive", "unarchive"}, Exists(id),
             kind = IF mark = Null THEN "unarchive" ELSE "archive",
             mark # Null => mark = at /\ proposals[id].archivedAt = Null,
             mark = Null => proposals[id].archivedAt # Null,
             CommitProposal(id, [proposals[id] EXCEPT !.archivedAt = mark]), Unadorned,
             Appended(Record(kind, id, at))
      PROVE  \E record \in AuditRecord, p \in Proposal : Marks(id, mark, at, record, p)
  <2> DEFINE p == [proposals[id] EXCEPT !.archivedAt = mark]
             r == Record(kind, id, at)
  <2>1. proposals[id] \in Proposal
    BY <1>1, EvaluatedProposal
  <2>2. /\ p \in Proposal /\ p.status = proposals[id].status /\ p.evaluation = proposals[id].evaluation
        /\ p.promotion = proposals[id].promotion /\ p.archivedAt = mark
        /\ p.createdAt = proposals[id].createdAt /\ p.transitions = proposals[id].transitions
    BY <2>1 DEF Proposal
  <2>3. /\ r \in AuditRecord /\ r.kind = kind /\ r.proposal = id /\ r.at = at /\ r.command = Null
    BY DEF Record, AuditRecord
  <2>4. CommitProposal(id, p) /\ Appended(r)
    BY <1>1
  <2> HIDE DEF p, r
  <2> QED
    BY <1>1, <2>2, <2>3, <2>4 DEF Marks
<1>2. CASE Archive(id, at)
  <2>1. /\ Exists(id) /\ proposals[id].archivedAt = Null /\ Unadorned
        /\ CommitProposal(id, [proposals[id] EXCEPT !.archivedAt = at])
        /\ Appended(Record("archive", id, at)) /\ at # Null
    BY <1>2, NullAssumption DEF Archive
  <2> QED
    BY <1>1, <2>1
<1>3. CASE Unarchive(id, at)
  <2>1. /\ Exists(id) /\ proposals[id].archivedAt # Null /\ Unadorned
        /\ CommitProposal(id, [proposals[id] EXCEPT !.archivedAt = Null])
        /\ Appended(Record("unarchive", id, at))
    BY <1>3 DEF Unarchive
  <2> QED
    BY <1>1, <2>1
<1> QED
  BY <1>2, <1>3

-----------------------------------------------------------------------------
(***************************************************************************)
(* Every command counts once.                                              *)
(***************************************************************************)
Mutations == UNION {MutationsOf(id) : id \in Existing}
\* The revision of the catalog is the number of mutations its material records.
CountInv == IsFiniteSet(Mutations) /\ catalogRevision = RecordedMutations

\* The mutations counted for a proposal: itself and its transitions.
LEMMA MutationsIn ==
  ASSUME NEW id \in ProposalId, NEW i
  PROVE  <<id, i>> \in Mutations <=> Exists(id) /\ i \in 0..Len(proposals[id].transitions)
BY DEF Mutations, MutationsOf, Existing

\* Nothing else is counted.
LEMMA MutationIs ==
  ASSUME NEW e \in Mutations
  PROVE  \E id \in ProposalId : \E i : e = <<id, i>>
BY DEF Mutations, MutationsOf, Existing

\* The same of the next state.
LEMMA MutationsInNext ==
  ASSUME NEW id \in ProposalId, NEW i
  PROVE  <<id, i>> \in Mutations' <=> Exists(id)' /\ i \in 0..Len(proposals'[id].transitions)
BY DEF Mutations, MutationsOf, Existing

\* The same of the next state.
LEMMA MutationIsNext ==
  ASSUME NEW e \in Mutations'
  PROVE  \E id \in ProposalId : \E i : e = <<id, i>>
BY DEF Mutations, MutationsOf, Existing

\* There are finitely many records of any kinds.
LEMMA RecordsFinite ==
  ASSUME CatalogTypeOK, NEW kinds
  PROVE  IsFiniteSet(RecordsOf(kinds)) /\ Cardinality(RecordsOf(kinds)) \in Nat
<1>1. Len(auditRecords) \in Nat /\ RecordsOf(kinds) \subseteq 1..Len(auditRecords)
  BY DEF CatalogTypeOK, RecordsOf
<1>2. IsFiniteSet(1..Len(auditRecords))
  BY <1>1, FS_Interval
<1> QED
  BY <1>1, <1>2, FS_Subset, FS_CardinalityType

\* An appended record counts with those of its kind.
LEMMA RecordsCounted ==
  ASSUME CatalogTypeOK, NEW kinds, NEW r \in AuditRecord, Appended(r)
  PROVE  Cardinality(RecordsOf(kinds)') =
           Cardinality(RecordsOf(kinds)) + (IF r.kind \in kinds THEN 1 ELSE 0)
<1> DEFINE n == Len(auditRecords) + 1
<1>1. /\ DOMAIN auditRecords = 1..Len(auditRecords) /\ DOMAIN auditRecords' = 1..n
      /\ auditRecords'[n] = r /\ Len(auditRecords) \in Nat
      /\ \A i \in DOMAIN auditRecords : auditRecords'[i] = auditRecords[i]
  BY AppendedRecord
<1>2. RecordsOf(kinds)' = RecordsOf(kinds) \union (IF r.kind \in kinds THEN {n} ELSE {})
  BY <1>1 DEF RecordsOf
<1>3. n \notin RecordsOf(kinds)
  BY <1>1 DEF RecordsOf
<1>4. IsFiniteSet(RecordsOf(kinds)) /\ Cardinality(RecordsOf(kinds)) \in Nat
  BY RecordsFinite
<1>5. CASE r.kind \in kinds
  <2>1. RecordsOf(kinds)' = RecordsOf(kinds) \union {n}
    BY <1>2, <1>5
  <2> QED
    BY <1>3, <1>4, <1>5, <2>1, FS_AddElement
<1>6. CASE r.kind \notin kinds
  BY <1>2, <1>4, <1>6
<1> QED
  BY <1>5, <1>6

\* A proposal that is new, or has one transition more.
LEMMA OneMore ==
  ASSUME OrderInv, CountInv, NEW id \in ProposalId, NEW p \in Proposal, CommitProposal(id, p),
         NEW n \in Nat, Len(p.transitions) = n,
         n # 0 => Exists(id) /\ Len(proposals[id].transitions) = n - 1,
         n = 0 => ~Exists(id),
         \/ UNCHANGED auditRecords
         \/ \E r \in AuditRecord : r.kind \in Decision /\ Appended(r)
  PROVE  CountInv'
<1>1. /\ proposals'[id] = p /\ p # Null /\ catalogRevision' = catalogRevision + 1
      /\ \A other \in ProposalId : other # id => proposals'[other] = proposals[other]
  BY Committed, NullAssumption DEF OrderInv, CommitProposal
<1>2. <<id, n>> \notin Mutations
  BY MutationsIn
<1>3. Mutations' = Mutations \union {<<id, n>>}
  <2>1. ASSUME NEW x \in ProposalId, NEW i
        PROVE  <<x, i>> \in Mutations' <=> <<x, i>> \in Mutations \/ (x = id /\ i = n)
    <3>1. CASE x = id
      <4>1. <<x, i>> \in Mutations' <=> i \in 0..n
        BY <1>1, <3>1, MutationsInNext DEF Exists
      <4>2. <<x, i>> \in Mutations <=> n # 0 /\ i \in 0..n - 1
        BY <3>1, MutationsIn
      <4> QED
        BY <3>1, <4>1, <4>2
    <3>2. CASE x # id
      BY <1>1, <3>2, MutationsIn, MutationsInNext DEF Exists
    <3> QED
      BY <3>1, <3>2
  <2>2. \A e \in Mutations' : e \in Mutations \union {<<id, n>>}
    BY <2>1, MutationIsNext
  <2>3. \A e \in Mutations \union {<<id, n>>} : e \in Mutations'
    BY <2>1, MutationIs
  <2> QED
    BY <2>2, <2>3
<1>4. /\ IsFiniteSet(Mutations') /\ Cardinality(Mutations') = Cardinality(Mutations) + 1
      /\ Cardinality(Mutations) \in Nat
  BY <1>2, <1>3, FS_AddElement, FS_CardinalityType DEF CountInv
<1>5. /\ Cardinality(RecordsOf({"archive", "unarchive"})') = Cardinality(RecordsOf({"archive", "unarchive"}))
      /\ Cardinality(RecordsOf({"delete"})') = Cardinality(RecordsOf({"delete"}))
  <2>1. CASE UNCHANGED auditRecords
    BY <2>1 DEF RecordsOf
  <2>2. ASSUME NEW r \in AuditRecord, r.kind \in Decision, Appended(r) PROVE <1>5!1 /\ <1>5!2
    <3>1. r.kind \notin {"archive", "unarchive"} /\ r.kind \notin {"delete"}
      BY <2>2 DEF Decision
    <3>2. /\ Cardinality(RecordsOf({"archive", "unarchive"})') =
               Cardinality(RecordsOf({"archive", "unarchive"})) + 0
          /\ Cardinality(RecordsOf({"delete"})') = Cardinality(RecordsOf({"delete"})) + 0
      BY <2>2, <3>1, RecordsCounted DEF OrderInv
    <3> QED
      BY <3>2, RecordsFinite DEF OrderInv
  <2> QED
    BY <2>1, <2>2
<1>6. /\ Cardinality(RecordsOf({"archive", "unarchive"})) \in Nat
      /\ Cardinality(RecordsOf({"delete"})) \in Nat
  BY RecordsFinite DEF OrderInv
<1> QED
  BY <1>1, <1>4, <1>5, <1>6 DEF CountInv, RecordedMutations, Mutations

\* A marker or its end.
LEMMA OneMarker ==
  ASSUME OrderInv, CountInv, NEW id \in ProposalId, NEW p \in Proposal, CommitProposal(id, p),
         Exists(id), p.transitions = proposals[id].transitions,
         NEW r \in AuditRecord, r.kind \in {"archive", "unarchive"}, Appended(r)
  PROVE  CountInv'
<1>1. /\ proposals'[id] = p /\ p # Null /\ catalogRevision' = catalogRevision + 1
      /\ \A other \in ProposalId : other # id => proposals'[other] = proposals[other]
  BY Committed, NullAssumption DEF OrderInv, CommitProposal
<1>2. Mutations' = Mutations
  <2>1. ASSUME NEW x \in ProposalId, NEW i
        PROVE  <<x, i>> \in Mutations' <=> <<x, i>> \in Mutations
    BY <1>1, MutationsIn, MutationsInNext DEF Exists
  <2>2. \A e \in Mutations' : e \in Mutations
    BY <2>1, MutationIsNext
  <2>3. \A e \in Mutations : e \in Mutations'
    BY <2>1, MutationIs
  <2> QED
    BY <2>2, <2>3
<1>3. r.kind \notin {"delete"}
  OBVIOUS
<1>4. /\ Cardinality(RecordsOf({"archive", "unarchive"})') =
           Cardinality(RecordsOf({"archive", "unarchive"})) + 1
      /\ Cardinality(RecordsOf({"delete"})') = Cardinality(RecordsOf({"delete"})) + 0
  BY <1>3, RecordsCounted DEF OrderInv
<1>5. /\ Cardinality(RecordsOf({"archive", "unarchive"})) \in Nat
      /\ Cardinality(RecordsOf({"delete"})) \in Nat /\ Cardinality(Mutations) \in Nat
  BY RecordsFinite, FS_CardinalityType DEF OrderInv, CountInv
<1>6. IsFiniteSet(Mutations') /\ Cardinality(Mutations') = Cardinality(Mutations)
  BY <1>2 DEF CountInv
<1> QED
  BY <1>1, <1>4, <1>5, <1>6 DEF CountInv, RecordedMutations, Mutations

\* A deletion removes a proposal with three transitions, and counts for five.
LEMMA FiveMore ==
  ASSUME OrderInv, ParseInv, CountInv, NEW id \in ProposalId, NEW at \in Instant, DeleteProposal(id, at)
  PROVE  CountInv'
<1> DEFINE r == Record("delete", id, at)
           four == {<<id, 0>>, <<id, 1>>, <<id, 2>>, <<id, 3>>}
<1>1. /\ CommitProposal(id, Null) /\ Exists(id) /\ proposals[id].status = "rejected" /\ Appended(r)
      /\ catalogRevision' = catalogRevision + 1
  BY DEF DeleteProposal, CommitProposal
<1>2. /\ proposals'[id] = Null
      /\ \A other \in ProposalId : other # id => proposals'[other] = proposals[other]
  BY <1>1, Committed DEF OrderInv
<1>3. Len(proposals[id].transitions) = 3
  <2>1. proposals[id] \in Proposal /\ Chronological(id)
    BY <1>1, EvaluatedProposal DEF ParseInv, Parses, Existing
  <2> QED
    BY <1>1, <2>1, PathShape
<1>4. Mutations' = Mutations \ four /\ four \subseteq Mutations
  <2>1. ASSUME NEW x \in ProposalId, NEW i
        PROVE  <<x, i>> \in Mutations' <=> <<x, i>> \in Mutations /\ x # id
    BY <1>2, MutationsIn, MutationsInNext DEF Exists
  <2>2. ASSUME NEW x \in ProposalId, NEW i, <<x, i>> \in Mutations
        PROVE  x = id <=> <<x, i>> \in four
    <3>1. x = id => i \in {0, 1, 2, 3}
      <4>1. x = id => i \in 0..3
        BY <1>3, <2>2, MutationsIn
      <4>2. i \in 0..3 => i \in {0, 1, 2, 3}
        OBVIOUS
      <4> QED
        BY <4>1, <4>2
    <3> QED
      BY <3>1
  <2>3. four \subseteq Mutations
    <3>1. /\ 0 \in 0..3 /\ 1 \in 0..3 /\ 2 \in 0..3 /\ 3 \in 0..3
      OBVIOUS
    <3> QED
      BY <1>1, <1>3, <3>1, MutationsIn
  <2>4. \A e \in Mutations' : e \in Mutations \ four
    BY <2>1, <2>2, MutationIsNext
  <2>5. \A e \in Mutations \ four : e \in Mutations'
    BY <2>1, <2>2, MutationIs
  <2> QED
    BY <2>3, <2>4, <2>5
<1>5. /\ IsFiniteSet(Mutations') /\ Cardinality(Mutations) \in Nat /\ Cardinality(Mutations') \in Nat
      /\ Cardinality(Mutations') = Cardinality(Mutations) - 4
  <2> DEFINE M1 == Mutations \ {<<id, 0>>}
             M2 == M1 \ {<<id, 1>>}
             M3 == M2 \ {<<id, 2>>}
             M4 == M3 \ {<<id, 3>>}
  <2>1. /\ <<id, 0>> \in Mutations /\ <<id, 1>> \in M1 /\ <<id, 2>> \in M2 /\ <<id, 3>> \in M3
    BY <1>4
  <2>2. Mutations' = M4
    BY <1>4
  <2>3. IsFiniteSet(Mutations) /\ Cardinality(Mutations) \in Nat
    BY FS_CardinalityType DEF CountInv
  <2>4. IsFiniteSet(M1) /\ Cardinality(M1) = Cardinality(Mutations) - 1 /\ Cardinality(M1) \in Nat
    BY <2>1, <2>3, FS_RemoveElement, FS_CardinalityType
  <2> HIDE DEF M1
  <2>5. IsFiniteSet(M2) /\ Cardinality(M2) = Cardinality(M1) - 1 /\ Cardinality(M2) \in Nat
    BY <2>1, <2>4, FS_RemoveElement, FS_CardinalityType
  <2> HIDE DEF M2
  <2>6. IsFiniteSet(M3) /\ Cardinality(M3) = Cardinality(M2) - 1 /\ Cardinality(M3) \in Nat
    BY <2>1, <2>5, FS_RemoveElement, FS_CardinalityType
  <2> HIDE DEF M3
  <2>7. IsFiniteSet(M4) /\ Cardinality(M4) = Cardinality(M3) - 1 /\ Cardinality(M4) \in Nat
    BY <2>1, <2>6, FS_RemoveElement, FS_CardinalityType
  <2> HIDE DEF M4
  <2> QED
    BY <2>2, <2>3, <2>4, <2>5, <2>6, <2>7
<1>6. r \in AuditRecord /\ r.kind = "delete"
  BY NewRecord
<1> HIDE DEF r
<1>7. r.kind \in {"delete"} /\ r.kind \notin {"archive", "unarchive"}
  BY <1>6
<1>8. /\ Cardinality(RecordsOf({"archive", "unarchive"})') =
           Cardinality(RecordsOf({"archive", "unarchive"})) + 0
      /\ Cardinality(RecordsOf({"delete"})') = Cardinality(RecordsOf({"delete"})) + 1
  BY <1>1, <1>6, <1>7, RecordsCounted DEF OrderInv
<1>9. /\ Cardinality(RecordsOf({"archive", "unarchive"})) \in Nat
      /\ Cardinality(RecordsOf({"delete"})) \in Nat
  BY RecordsFinite DEF OrderInv
<1> QED
  BY <1>1, <1>5, <1>8, <1>9 DEF CountInv, RecordedMutations, Mutations

\* An empty catalog counts no mutation.
LEMMA CountInitially == CatalogInit => CountInv
<1> SUFFICES ASSUME CatalogInit PROVE CountInv
  OBVIOUS
<1>1. /\ Mutations = {} /\ RecordsOf({"archive", "unarchive"}) = {} /\ RecordsOf({"delete"}) = {}
      /\ catalogRevision = 0
  BY DEF CatalogInit, Mutations, Existing, Exists, RecordsOf
<1>2. IsFiniteSet({}) /\ Cardinality({}) = 0
  BY FS_EmptySet
<1>3. RecordedMutations = Cardinality(Mutations) + Cardinality(RecordsOf({"archive", "unarchive"}))
                              + 5 * Cardinality(RecordsOf({"delete"}))
  BY DEF RecordedMutations, Mutations
<1> QED
  BY <1>1, <1>2, <1>3 DEF CountInv

\* Where a proposal that moves stood, and where it stands then.
LEMMA PathGrows ==
  ASSUME OrderInv, ParseInv, NEW id \in ProposalId, Exists(id), NEW t \in Transition, NEW n \in Nat,
         \/ proposals[id].status = "proposed" /\ n = 1
         \/ proposals[id].status = "evaluating" /\ n = 2
         \/ proposals[id].status = "evaluated" /\ n = 3
         \/ proposals[id].status = "promoted" /\ n = 4
  PROVE  Len(proposals[id].transitions) = n - 1 /\ Len(Append(proposals[id].transitions, t)) = n
<1>1. proposals[id] \in Proposal /\ Chronological(id)
  BY EvaluatedProposal DEF ParseInv, Parses, Existing
<1>2. Len(proposals[id].transitions) = n - 1 /\ proposals[id].transitions \in Seq(Transition)
  <2> DEFINE m == Len(proposals[id].transitions)
  <2>1. /\ proposals[id].transitions \in Seq(Transition)
        /\ proposals[id].status = "proposed" => m = 0
        /\ proposals[id].status = "evaluating" => m = 1
        /\ proposals[id].status = "evaluated" => m = 2
        /\ proposals[id].status = "promoted" => m = 3
    BY <1>1, PathShape
  <2> HIDE DEF m
  <2>2. m = n - 1
    BY <2>1
  <2> QED
    BY <2>1, <2>2 DEF m
<1> QED
  BY <1>2, AppendProperties

\* Every command counts once.
LEMMA CountNext == OrderInv /\ ParseInv /\ CountInv /\ [CatalogNext]_catalogVars => CountInv'
<1> SUFFICES ASSUME OrderInv, ParseInv, CountInv, [CatalogNext]_catalogVars PROVE CountInv'
  OBVIOUS
<1>1. CASE UNCHANGED catalogVars
  BY <1>1 DEF catalogVars, CountInv, Mutations, MutationsOf, RecordedMutations, RecordsOf, Existing, Exists
<1>2. ASSUME NEW id \in ProposalId, NEW at \in Instant, Propose(id, at) PROVE CountInv'
  <2> DEFINE p == [status |-> "proposed", createdAt |-> at, archivedAt |-> Null,
                   transitions |-> <<>>, evaluation |-> Null, promotion |-> Null]
  <2>1. p \in Proposal /\ Len(p.transitions) = 0
    BY DEF Proposal, Lifecycle
  <2>2. CommitProposal(id, p) /\ UNCHANGED auditRecords /\ ~Exists(id)
    BY <1>2 DEF Propose
  <2> HIDE DEF p
  <2> QED
    BY <2>1, <2>2, OneMore
<1>3. ASSUME NEW id \in ProposalId, Exists(id), NEW at \in Instant, NEW to \in Lifecycle, NEW n \in Nat,
             \/ proposals[id].status = "proposed" /\ n = 1
             \/ proposals[id].status = "evaluating" /\ n = 2
             \/ proposals[id].status = "evaluated" /\ n = 3
             \/ proposals[id].status = "promoted" /\ n = 4,
             NEW p \in Proposal, CommitProposal(id, p),
             p.transitions = Append(proposals[id].transitions,
                                    [from |-> proposals[id].status, to |-> to, at |-> at]),
             \/ UNCHANGED auditRecords
             \/ \E r \in AuditRecord : r.kind \in Decision /\ Appended(r)
      PROVE  CountInv'
  <2> DEFINE t == [from |-> proposals[id].status, to |-> to, at |-> at]
  <2>1. t \in Transition /\ n # 0
    BY <1>3, Lifecycles DEF Transition
  <2>2. p.transitions = Append(proposals[id].transitions, t)
    BY <1>3
  <2> HIDE DEF t
  <2>3. Len(proposals[id].transitions) = n - 1 /\ Len(p.transitions) = n
    BY <1>3, <2>1, <2>2, PathGrows
  <2> QED
    BY <1>3, <2>1, <2>3, OneMore
<1>4. ASSUME NEW id \in ProposalId, NEW at \in Instant, BeginEvaluation(id, at) PROVE CountInv'
  <2> DEFINE p == Moved(proposals[id], "evaluating", at)
  <2>1. /\ CommitProposal(id, p) /\ UNCHANGED auditRecords /\ Exists(id)
        /\ proposals[id].status = "proposed"
    BY <1>4 DEF BeginEvaluation
  <2>2. proposals[id] \in Proposal /\ "evaluating" \in Lifecycle
    BY <2>1, EvaluatedProposal, Lifecycles
  <2>3. /\ p \in Proposal
        /\ p.transitions = Append(proposals[id].transitions,
                                  [from |-> proposals[id].status, to |-> "evaluating", at |-> at])
    BY <2>2, MovedProposal
  <2> HIDE DEF p
  <2> QED
    BY <1>3, <2>1, <2>2, <2>3
<1>5. ASSUME NEW id \in ProposalId, NEW at \in Instant, NEW evidence \in EvidenceFor,
             Evaluate(id, evidence, at)
      PROVE  CountInv'
  <2> DEFINE moved == Moved(proposals[id], "evaluated", at)
             evaluation == [evidence |-> evidence, result |-> ResultOf(evidence), at |-> at]
             p == [moved EXCEPT !.evaluation = evaluation]
  <2>1. /\ CommitProposal(id, p) /\ UNCHANGED auditRecords /\ Exists(id)
        /\ proposals[id].status = "evaluating"
    BY <1>5 DEF Evaluate
  <2>2. proposals[id] \in Proposal /\ "evaluated" \in Lifecycle
    BY <2>1, EvaluatedProposal, Lifecycles
  <2>3. /\ moved \in Proposal
        /\ moved.transitions = Append(proposals[id].transitions,
                                  [from |-> proposals[id].status, to |-> "evaluated", at |-> at])
    BY <2>2, MovedProposal
  <2>4. evaluation \in Evaluation
    BY ResultTyped
  <2> HIDE DEF moved, evaluation
  <2>5. p \in Proposal /\ p.transitions = moved.transitions
    BY <2>3, <2>4 DEF Proposal
  <2> HIDE DEF p
  <2> QED
    BY <1>3, <2>1, <2>2, <2>3, <2>5
<1>6. ASSUME NEW id \in ProposalId, NEW at \in Instant, NEW command \in AppCommand \union {Null},
             Promote(id, command, at)
      PROVE  CountInv'
  <2>1. PICK record \in AuditRecord, p \in Proposal : Promotes(id, command, at, record, p)
    BY <1>6, PromoteTypes
  <2>2. /\ record.kind \in Decision /\ CommitProposal(id, p) /\ Appended(record)
        /\ p.transitions = Append(proposals[id].transitions,
                                  [from |-> "evaluated", to |-> "promoted", at |-> at])
    BY <2>1 DEF Promotes, Decision
  <2>3. Exists(id) /\ proposals[id].status = "evaluated" /\ "promoted" \in Lifecycle
    BY <1>6, Lifecycles DEF Promote
  <2> QED
    BY <1>3, <2>2, <2>3
<1>7. ASSUME NEW id \in ProposalId, NEW at \in Instant, NEW command \in AppCommand \union {Null},
             Rollback(id, command, at)
      PROVE  CountInv'
  <2>1. PICK record \in AuditRecord, p \in Proposal : RollsBack(id, command, at, record, p)
    BY <1>7, RollbackTypes
  <2>2. /\ record.kind \in Decision /\ CommitProposal(id, p) /\ Appended(record)
        /\ p.transitions = Append(proposals[id].transitions,
                                  [from |-> "promoted", to |-> "rolled-back", at |-> at])
    BY <2>1 DEF RollsBack, Decision
  <2>3. Exists(id) /\ proposals[id].status = "promoted" /\ "rolled-back" \in Lifecycle
    BY <1>7, Lifecycles DEF Rollback
  <2> QED
    BY <1>3, <2>2, <2>3
<1>8. ASSUME NEW id \in ProposalId, NEW at \in Instant, Reject(id, at) PROVE CountInv'
  <2>1. PICK r \in AuditRecord, p \in Proposal : Rejects(id, at, r, p)
    BY <1>8, RejectTypes
  <2>2. /\ r.kind \in Decision /\ CommitProposal(id, p) /\ Appended(r)
        /\ p.transitions = Append(proposals[id].transitions,
                                  [from |-> "evaluated", to |-> "rejected", at |-> at])
    BY <2>1 DEF Rejects, Decision
  <2>3. Exists(id) /\ proposals[id].status = "evaluated" /\ "rejected" \in Lifecycle
    BY <1>8, Lifecycles DEF Reject
  <2> QED
    BY <1>3, <2>2, <2>3
<1>9. ASSUME NEW id \in ProposalId, NEW at \in Instant, Archive(id, at) \/ Unarchive(id, at)
      PROVE  CountInv'
  <2>1. PICK mark \in Instant \union {Null}, r \in AuditRecord, p \in Proposal : Marks(id, mark, at, r, p)
    BY <1>9, ArchiveTypes
  <2> QED
    BY <2>1, OneMarker DEF Marks
<1>10. ASSUME NEW id \in ProposalId, NEW at \in Instant, DeleteProposal(id, at) PROVE CountInv'
  BY <1>10, FiveMore
<1> QED
  BY <1>1, <1>2, <1>4, <1>5, <1>6, <1>7, <1>8, <1>9, <1>10 DEF CatalogNext

-----------------------------------------------------------------------------
(***************************************************************************)
(* The replay of the audit, record by record.                              *)
(***************************************************************************)
Kind == Decision \union {"archive", "unarchive", "delete"}
\* The records that decide nothing.
Marker == {"archive", "unarchive"}

\* What a replay may have come to.
ReplayState ==
  [ok : BOOLEAN, promoted : [ProposalId -> AuditRecord \union {Null}],
   active : [TargetKey -> ProposalId \union {Null}], decided : [ProposalId -> SUBSET Kind],
   commands : SUBSET AppCommand, archived : [ProposalId -> Instant \union {Null}],
   trail : [ProposalId -> Seq(Kind)]]

\* What holds of 0, and of a number after each it holds of, holds up to any.
LEMMA Climb ==
  ASSUME NEW N \in Nat, NEW S, 0 \in S, \A n \in 0..N : n < N /\ n \in S => n + 1 \in S
  PROVE  \A n \in 0..N : n \in S
<1> DEFINE T == {n \in 0..N : n \notin S}
           Less == {ss \in Nat \X Nat : ss[1] < ss[2]}
<1>1. IsWellFoundedOn(Less, Nat)
  BY NatLessThanWellFounded DEF OpToRel
<1> SUFFICES ASSUME T # {} PROVE FALSE
  OBVIOUS
<1>2. T \subseteq Nat
  OBVIOUS
<1> HIDE DEF Less
<1>3. PICK n \in T : \A m \in T : <<m, n>> \notin Less
  BY <1>1, <1>2, WFMin
<1>4. n \in 0..N /\ n \notin S /\ n # 0
  OBVIOUS
<1>5. n - 1 \in 0..N /\ n - 1 < N /\ n - 1 < n /\ (n - 1) + 1 = n
  BY <1>4
<1>6. n - 1 \notin T
  <2>1. n \in Nat /\ n - 1 \in Nat
    BY <1>4, <1>5
  <2> DEFINE ss == <<n - 1, n>>
  <2>2. ss \in Nat \X Nat /\ ss[1] = n - 1 /\ ss[2] = n
    BY <2>1
  <2>3. ss \in Less
    BY <1>5, <2>2 DEF Less
  <2> QED
    BY <1>3, <2>3
<1> QED
  BY <1>4, <1>5, <1>6

\* A replay begins with nothing.
LEMMA ReplayFields ==
  /\ Replay \in ReplayState /\ Replay.ok = TRUE
  /\ \A id \in ProposalId : /\ Replay.promoted[id] = Null /\ Replay.decided[id] = {}
                            /\ Replay.archived[id] = Null /\ Replay.trail[id] = <<>>
  /\ \A key \in TargetKey : Replay.active[key] = Null
  /\ Replay.commands = {}
BY DEF Replay, ReplayState

\* What one record adds.
Adds(replay, record, id, next) ==
  /\ next \in ReplayState /\ next.ok = replay.ok
  /\ \A x \in ProposalId :
       /\ next.trail[x] = IF x = id /\ ~Exists(id) THEN Append(replay.trail[x], record.kind)
                          ELSE replay.trail[x]
       /\ next.archived[x] = IF x = id /\ Exists(id) /\ record.kind \in Marker
                             THEN IF record.kind = "archive" THEN record.at ELSE Null
                             ELSE replay.archived[x]
       /\ next.decided[x] = IF x = id /\ Exists(id) /\ record.kind \notin Marker
                            THEN replay.decided[x] \union {record.kind}
                            ELSE replay.decided[x]
       /\ next.promoted[x] = IF x = id /\ Exists(id) /\ record.kind = "promotion" THEN record
                             ELSE replay.promoted[x]
  /\ \A key \in TargetKey :
       next.active[key] = IF key = TargetKeyOf[id] /\ Exists(id) /\ record.kind = "promotion" THEN id
                          ELSE IF key = TargetKeyOf[id] /\ Exists(id) /\ record.kind = "rollback"
                          THEN record.active ELSE replay.active[key]
  /\ next.commands = IF Exists(id) /\ record.kind \notin Marker
                     THEN replay.commands \union ({record.command} \ {Null})
                     ELSE replay.commands

\* Replayed adds to a replay what Adds says.
LEMMA ReplayedFields ==
  ASSUME NEW replay \in ReplayState, NEW record \in AuditRecord,
         NEW next, next = Replayed(replay, record), NEW id, id = record.proposal
  PROVE  Adds(replay, record, id, next)
<1>1. /\ id \in ProposalId /\ record.kind \in Kind /\ record.at \in Instant
      /\ record.active \in ProposalId \union {Null} /\ record.command \in AppCommand \union {Null}
      /\ TargetKeyOf[id] \in TargetKey
  BY TargetKeyAssumption DEF AuditRecord, Kind
<1>2. /\ replay.promoted \in [ProposalId -> AuditRecord \union {Null}]
      /\ replay.active \in [TargetKey -> ProposalId \union {Null}]
      /\ replay.decided \in [ProposalId -> SUBSET Kind] /\ replay.commands \subseteq AppCommand
      /\ replay.archived \in [ProposalId -> Instant \union {Null}]
      /\ replay.trail \in [ProposalId -> Seq(Kind)] /\ replay.ok \in BOOLEAN
      /\ replay = [ok |-> replay.ok, promoted |-> replay.promoted, active |-> replay.active,
                   decided |-> replay.decided, commands |-> replay.commands,
                   archived |-> replay.archived, trail |-> replay.trail]
  BY DEF ReplayState
<1>3. CASE ~Exists(id)
  <2>1. next = [replay EXCEPT !.trail[id] = Append(@, record.kind)]
    BY <1>3 DEF Replayed
  <2>2. Append(replay.trail[id], record.kind) \in Seq(Kind)
    BY <1>1, <1>2, AppendProperties
  <2>3. next \in ReplayState
    <3>1. next = [ok |-> replay.ok, promoted |-> replay.promoted, active |-> replay.active,
                  decided |-> replay.decided, commands |-> replay.commands,
                  archived |-> replay.archived,
                  trail |-> [replay.trail EXCEPT ![id] = Append(replay.trail[id], record.kind)]]
      BY <1>2, <2>1
    <3>2. [replay.trail EXCEPT ![id] = Append(replay.trail[id], record.kind)] \in [ProposalId -> Seq(Kind)]
      BY <1>1, <1>2, <2>2
    <3> QED
      BY <1>2, <3>1, <3>2 DEF ReplayState
  <2> QED
    BY <1>1, <1>2, <1>3, <2>1, <2>3 DEF Adds
<1>4. CASE Exists(id) /\ record.kind = "archive"
  <2>1. next = [replay EXCEPT !.archived[id] = record.at]
    BY <1>4 DEF Replayed
  <2>2. next \in ReplayState
    <3>1. next = [ok |-> replay.ok, promoted |-> replay.promoted, active |-> replay.active,
                  decided |-> replay.decided, commands |-> replay.commands,
                  archived |-> [replay.archived EXCEPT ![id] = record.at], trail |-> replay.trail]
      BY <1>2, <2>1
    <3>2. [replay.archived EXCEPT ![id] = record.at] \in [ProposalId -> Instant \union {Null}]
      BY <1>1, <1>2
    <3> QED
      BY <1>2, <3>1, <3>2 DEF ReplayState
  <2> QED
    BY <1>1, <1>2, <1>4, <2>1, <2>2 DEF Marker, Adds
<1>5. CASE Exists(id) /\ record.kind = "unarchive"
  <2>1. next = [replay EXCEPT !.archived[id] = Null]
    BY <1>5 DEF Replayed
  <2>2. next \in ReplayState
    <3>1. next = [ok |-> replay.ok, promoted |-> replay.promoted, active |-> replay.active,
                  decided |-> replay.decided, commands |-> replay.commands,
                  archived |-> [replay.archived EXCEPT ![id] = Null], trail |-> replay.trail]
      BY <1>2, <2>1
    <3>2. [replay.archived EXCEPT ![id] = Null] \in [ProposalId -> Instant \union {Null}]
      BY <1>1, <1>2
    <3> QED
      BY <1>2, <3>1, <3>2 DEF ReplayState
  <2> QED
    BY <1>1, <1>2, <1>5, <2>1, <2>2 DEF Marker, Adds
<1>6. CASE Exists(id) /\ record.kind \notin Marker
  <2> DEFINE decided == replay.decided[id] \union {record.kind}
             commands == replay.commands \union ({record.command} \ {Null})
             promoted == IF record.kind = "promotion" THEN record ELSE replay.promoted[id]
             active == CASE record.kind = "promotion" -> id
                         [] record.kind = "rollback" -> record.active
                         [] OTHER -> replay.active[TargetKeyOf[id]]
  <2>1. next = [replay EXCEPT !.decided[id] = decided, !.commands = commands,
                              !.promoted[id] = promoted, !.active[TargetKeyOf[id]] = active]
    BY <1>6 DEF Replayed, Marker
  <2>2. /\ decided \in SUBSET Kind /\ commands \in SUBSET AppCommand
        /\ promoted \in AuditRecord \union {Null} /\ active \in ProposalId \union {Null}
    BY <1>1, <1>2
  <2>3. /\ active = IF record.kind = "promotion" THEN id
                    ELSE IF record.kind = "rollback" THEN record.active ELSE replay.active[TargetKeyOf[id]]
    OBVIOUS
  <2> HIDE DEF decided, commands, promoted, active
  <2>4. next = [ok |-> replay.ok, promoted |-> [replay.promoted EXCEPT ![id] = promoted],
                active |-> [replay.active EXCEPT ![TargetKeyOf[id]] = active],
                decided |-> [replay.decided EXCEPT ![id] = decided], commands |-> commands,
                archived |-> replay.archived, trail |-> replay.trail]
    BY <1>2, <2>1
  <2>6. /\ [replay.promoted EXCEPT ![id] = promoted] \in [ProposalId -> AuditRecord \union {Null}]
        /\ [replay.active EXCEPT ![TargetKeyOf[id]] = active] \in [TargetKey -> ProposalId \union {Null}]
        /\ [replay.decided EXCEPT ![id] = decided] \in [ProposalId -> SUBSET Kind]
    BY <1>1, <1>2, <2>2
  <2>5. next \in ReplayState
    BY <1>2, <2>2, <2>4, <2>6 DEF ReplayState
  <2>7. /\ next.ok = replay.ok /\ next.commands = commands /\ next.trail = replay.trail
        /\ next.archived = replay.archived
        /\ next.decided = [replay.decided EXCEPT ![id] = decided]
        /\ next.promoted = [replay.promoted EXCEPT ![id] = promoted]
        /\ next.active = [replay.active EXCEPT ![TargetKeyOf[id]] = active]
    BY <2>4
  <2>8. \A x \in ProposalId :
          /\ next.decided[x] = IF x = id THEN decided ELSE replay.decided[x]
          /\ next.promoted[x] = IF x = id THEN promoted ELSE replay.promoted[x]
    BY <1>1, <1>2, <2>7
  <2>9. \A key \in TargetKey :
          next.active[key] = IF key = TargetKeyOf[id] THEN active ELSE replay.active[key]
    BY <1>1, <1>2, <2>7
  <2>10. /\ promoted = IF record.kind = "promotion" THEN record ELSE replay.promoted[id]
         /\ decided = replay.decided[id] \union {record.kind}
         /\ commands = replay.commands \union ({record.command} \ {Null})
    BY DEF promoted, decided, commands
  <2>11. \A key \in TargetKey :
           next.active[key] = IF key = TargetKeyOf[id] /\ Exists(id) /\ record.kind = "promotion" THEN id
                              ELSE IF key = TargetKeyOf[id] /\ Exists(id) /\ record.kind = "rollback"
                              THEN record.active ELSE replay.active[key]
    <3> SUFFICES ASSUME NEW key \in TargetKey
                 PROVE  <2>11!(key)
      OBVIOUS
    <3>1. CASE key # TargetKeyOf[id]
      BY <2>9, <3>1
    <3>2. CASE key = TargetKeyOf[id]
      BY <1>6, <2>3, <2>9, <3>2
    <3> QED
      BY <3>1, <3>2
  <2>12. \A x \in ProposalId :
           /\ next.decided[x] = IF x = id /\ Exists(id) /\ record.kind \notin Marker
                                THEN replay.decided[x] \union {record.kind}
                                ELSE replay.decided[x]
           /\ next.promoted[x] = IF x = id /\ Exists(id) /\ record.kind = "promotion" THEN record
                                 ELSE replay.promoted[x]
    BY <1>6, <2>8, <2>10
  <2>13. \A x \in ProposalId :
           /\ next.trail[x] = IF x = id /\ ~Exists(id) THEN Append(replay.trail[x], record.kind)
                              ELSE replay.trail[x]
           /\ next.archived[x] = IF x = id /\ Exists(id) /\ record.kind \in Marker
                                 THEN IF record.kind = "archive" THEN record.at ELSE Null
                                 ELSE replay.archived[x]
    BY <1>6, <2>7
  <2>14. next.commands = IF Exists(id) /\ record.kind \notin Marker
                         THEN replay.commands \union ({record.command} \ {Null})
                         ELSE replay.commands
    BY <1>6, <2>7, <2>10
  <2> QED
    BY <2>5, <2>7, <2>11, <2>12, <2>13, <2>14 DEF Adds
<1> QED
  BY <1>3, <1>4, <1>5, <1>6 DEF Marker

\* A step of the replay is right only when the record fits and nothing was wrong before.
LEMMA ReplayStepTyped ==
  ASSUME NEW replay \in ReplayState, NEW record \in AuditRecord
  PROVE  /\ ReplayStep(replay, record) \in ReplayState
         /\ ReplayStep(replay, record).ok =>
              replay.ok /\ Fits(replay, record) /\ ReplayStep(replay, record) = Replayed(replay, record)
<1>1. Replayed(replay, record) \in ReplayState
  BY ReplayedFields DEF Adds
<1>2. [replay EXCEPT !.ok = FALSE] \in ReplayState /\ [replay EXCEPT !.ok = FALSE].ok = FALSE
  BY DEF ReplayState
<1> QED
  BY <1>1, <1>2 DEF ReplayStep

\* The recursion of the replay has a solution.
LEMMA ReplayedAfterSteps ==
  CatalogTypeOK =>
    /\ ReplayedAfter[0] = Replay
    /\ \A m, n \in 0..Len(auditRecords) :
         n = m + 1 => ReplayedAfter[n] = ReplayStep(ReplayedAfter[m], auditRecords[n])
<1> SUFFICES ASSUME CatalogTypeOK
             PROVE  /\ ReplayedAfter[0] = Replay
                    /\ \A m, n \in 0..Len(auditRecords) :
                         n = m + 1 => ReplayedAfter[n] = ReplayStep(ReplayedAfter[m], auditRecords[n])
  OBVIOUS
<1> DEFINE L == Len(auditRecords)
           Solves(f, N) == f = [n \in 0..N |-> IF n = 0 THEN Replay
                                               ELSE ReplayStep(f[n - 1], auditRecords[n])]
           S == {N \in 0..L : \E f : Solves(f, N)}
<1>1. L \in Nat
  BY DEF CatalogTypeOK
<1>2. 0 \in S
  <2>1. Solves([n \in 0..0 |-> Replay], 0)
    OBVIOUS
  <2> HIDE DEF Solves
  <2>2. \E f : Solves(f, 0)
    BY <2>1
  <2> QED
    BY <1>1, <2>2
<1>3. ASSUME NEW N \in 0..L, N < L, N \in S PROVE N + 1 \in S
  <2>1. PICK f : Solves(f, N)
    BY <1>3
  <2> DEFINE g == [n \in 0..N + 1 |-> IF n = N + 1 THEN ReplayStep(f[N], auditRecords[n]) ELSE f[n]]
  <2>2. N + 1 \in 0..L /\ N \in Nat /\ N \in 0..N + 1 /\ N # N + 1
    BY <1>1, <1>3
  <2>3. \A n \in 0..N : g[n] = f[n] /\ n \in 0..N + 1
    BY <2>2
  <2>4. \A n \in 0..N : f[n] = IF n = 0 THEN Replay ELSE ReplayStep(f[n - 1], auditRecords[n])
    BY <2>1
  <2>5. ASSUME NEW n \in 0..N + 1
        PROVE  g[n] = IF n = 0 THEN Replay ELSE ReplayStep(g[n - 1], auditRecords[n])
    <3>1. CASE n = N + 1
      <4>1. n - 1 = N /\ n # 0 /\ N \in 0..N
        BY <2>2, <3>1
      <4>2. g[n] = ReplayStep(f[N], auditRecords[n]) /\ g[N] = f[N]
        BY <2>2, <2>3, <3>1, <4>1
      <4> QED
        BY <4>1, <4>2
    <3>2. CASE n # N + 1
      <4>1. n \in 0..N /\ (n # 0 => n - 1 \in 0..N)
        BY <2>2, <3>2
      <4> QED
        BY <2>3, <2>4, <4>1
    <3> QED
      BY <3>1, <3>2
  <2>6. g = [n \in 0..N + 1 |-> g[n]]
    OBVIOUS
  <2> HIDE DEF g
  <2>7. Solves(g, N + 1)
    BY <2>5, <2>6
  <2> QED
    BY <2>2, <2>7
<1> HIDE DEF S
<1>4. L \in S
  <2> HIDE DEF L
  <2>1. \A n \in 0..L : n < L /\ n \in S => n + 1 \in S
    BY <1>3
  <2>2. \A n \in 0..L : n \in S
    BY <1>1, <1>2, <2>1, Climb
  <2> QED
    BY <1>1, <2>2
<1>5. \E f : Solves(f, L)
  BY <1>4 DEF S
<1>6. Solves(ReplayedAfter, L)
  BY <1>5 DEF ReplayedAfter
<1> HIDE DEF L
<1>7. \A n \in 0..L : ReplayedAfter[n] = IF n = 0 THEN Replay
                                         ELSE ReplayStep(ReplayedAfter[n - 1], auditRecords[n])
  BY <1>6
<1>8. ReplayedAfter[0] = Replay
  BY <1>1, <1>7
<1>9. ASSUME NEW m \in 0..L, NEW n \in 0..L, n = m + 1
      PROVE  ReplayedAfter[n] = ReplayStep(ReplayedAfter[m], auditRecords[n])
  <2>1. n # 0 /\ n - 1 = m
    BY <1>1, <1>9
  <2> QED
    BY <1>7, <2>1
<1> QED
  BY <1>8, <1>9 DEF L

\* ReplayedFields, for every replay and record.
LEMMA ReplayedAdds ==
  \A replay \in ReplayState, record \in AuditRecord :
    Adds(replay, record, record.proposal, Replayed(replay, record))
BY ReplayedFields

\* The same of the next state.
LEMMA ReplayedAddsNext ==
  (\A replay \in ReplayState, record \in AuditRecord :
    Adds(replay, record, record.proposal, Replayed(replay, record)))'
BY ReplayedAdds, PTL

\* The recursion in the next state.
LEMMA ReplayedAfterStepsNext ==
  (CatalogTypeOK =>
    /\ ReplayedAfter[0] = Replay
    /\ \A m, n \in 0..Len(auditRecords) :
         n = m + 1 => ReplayedAfter[n] = ReplayStep(ReplayedAfter[m], auditRecords[n]))'
BY ReplayedAfterSteps, PTL

\* The records between two numbers of them.
LEMMA Between ==
  ASSUME CatalogTypeOK, NEW n \in 0..Len(auditRecords), n < Len(auditRecords)
  PROVE  /\ n + 1 \in 0..Len(auditRecords) /\ n + 1 \in DOMAIN auditRecords
         /\ auditRecords[n + 1] \in AuditRecord /\ auditRecords[n + 1].proposal \in ProposalId
         /\ 1..n + 1 = 1..n \union {n + 1} /\ n \in Nat /\ Len(auditRecords) \in Nat
<1>1. Len(auditRecords) \in Nat /\ DOMAIN auditRecords = 1..Len(auditRecords)
  BY DEF CatalogTypeOK
<1>2. n + 1 \in 0..Len(auditRecords) /\ n + 1 \in DOMAIN auditRecords /\ 1..n + 1 = 1..n \union {n + 1} /\ n \in Nat
  BY <1>1
<1> QED
  BY <1>1, <1>2, RecordFields

\* What replays: each record fits what those before it replay to.
Replays ==
  /\ \A n \in 0..Len(auditRecords) : ReplayedAfter[n] \in ReplayState /\ ReplayedAfter[n].ok
  /\ ReplayedAfter[0] = Replay
  /\ \A m, n \in 0..Len(auditRecords) : n = m + 1 =>
       /\ Fits(ReplayedAfter[m], auditRecords[n])
       /\ ReplayedAfter[n] = Replayed(ReplayedAfter[m], auditRecords[n])

\* A replay that ends well was well all along.
LEMMA OkReplays == CatalogTypeOK /\ ReplayOfAudit.ok => Replays
<1> SUFFICES ASSUME CatalogTypeOK, ReplayOfAudit.ok PROVE Replays
  OBVIOUS
<1> DEFINE L == Len(auditRecords)
           S == {n \in 0..L : /\ ReplayedAfter[n] \in ReplayState
                              /\ ReplayedAfter[n].ok => \A m \in 0..n : ReplayedAfter[m].ok}
<1>1. L \in Nat
  BY DEF CatalogTypeOK
<1>2. 0 \in S
  BY <1>1, ReplayedAfterSteps, ReplayFields
<1>3. ASSUME NEW n \in 0..L, n < L, n \in S PROVE n + 1 \in S
  <2>1. n + 1 \in 0..L /\ auditRecords[n + 1] \in AuditRecord
    BY <1>3, Between
  <2>2. ReplayedAfter[n + 1] = ReplayStep(ReplayedAfter[n], auditRecords[n + 1])
    BY <1>3, <2>1, ReplayedAfterSteps
  <2>3. ReplayedAfter[n + 1] \in ReplayState /\ (ReplayedAfter[n + 1].ok => ReplayedAfter[n].ok)
    BY <1>3, <2>1, <2>2, ReplayStepTyped
  <2>4. \A m \in 0..n + 1 : m \in 0..n \/ m = n + 1
    BY <1>1
  <2> QED
    BY <1>3, <2>1, <2>3, <2>4
<1> HIDE DEF S, L
<1>4. \A n \in 0..L : n \in S
  <2>1. \A n \in 0..L : n < L /\ n \in S => n + 1 \in S
    BY <1>3
  <2> QED
    BY <1>1, <1>2, <2>1, Climb
<1>5. \A n \in 0..L : ReplayedAfter[n] \in ReplayState /\ ReplayedAfter[n].ok
  <2>1. L \in 0..L /\ ReplayedAfter[L].ok
    BY <1>1 DEF ReplayOfAudit, L
  <2> QED
    BY <1>4, <2>1 DEF S
<1>6. ASSUME NEW m \in 0..L, NEW n \in 0..L, n = m + 1
      PROVE  /\ Fits(ReplayedAfter[m], auditRecords[n])
             /\ ReplayedAfter[n] = Replayed(ReplayedAfter[m], auditRecords[n])
  <2>1. ReplayedAfter[n] = ReplayStep(ReplayedAfter[m], auditRecords[n])
    BY <1>6, ReplayedAfterSteps DEF L
  <2>2. auditRecords[n] \in AuditRecord
    <3>1. m < L
      BY <1>1, <1>6
    <3> QED
      BY <1>6, <3>1, Between DEF L
  <2> QED
    BY <1>5, <1>6, <2>1, <2>2, ReplayStepTyped
<1> QED
  BY <1>5, <1>6, ReplayedAfterSteps DEF Replays, L

\* What the replay says at its end of the records.
Tells(replay, n) ==
  /\ \A i \in 1..n : \A x \in ProposalId : auditRecords[i].proposal = x =>
       /\ Exists(x) /\ auditRecords[i].kind \notin Marker => auditRecords[i].kind \in replay.decided[x]
       /\ ~Exists(x) => replay.trail[x] # <<>>
  /\ \A x \in ProposalId : "promotion" \in replay.decided[x] => replay.promoted[x] # Null
  /\ \A x \in ProposalId : replay.promoted[x] # Null =>
       \E i \in 1..n : auditRecords[i].proposal = x /\ auditRecords[i].kind = "promotion"
  /\ \A c \in replay.commands : c # Null /\ \E i \in 1..n : auditRecords[i].command = c
  /\ \A x \in ProposalId : \A k \in DOMAIN replay.trail[x] :
       \E i \in 1..n : auditRecords[i].proposal = x /\ auditRecords[i].kind = replay.trail[x][k]
  /\ \A x \in ProposalId :
       /\ Exists(x) => replay.trail[x] = <<>>
       /\ ~Exists(x) => replay.decided[x] = {} /\ replay.promoted[x] = Null /\ replay.archived[x] = Null

\* The replay tells this after any number of records.
LEMMA ReplayTells ==
  ASSUME CatalogTypeOK, Replays
  PROVE  /\ \A n \in 0..Len(auditRecords) : Tells(ReplayedAfter[n], n)
         /\ Tells(ReplayOfAudit, Len(auditRecords))
<1> DEFINE L == Len(auditRecords)
           S == {n \in 0..L : Tells(ReplayedAfter[n], n)}
<1>1. L \in Nat
  BY DEF CatalogTypeOK
<1>2. 0 \in S
  <2>1. /\ ReplayedAfter[0] = Replay /\ 1..0 = {} /\ DOMAIN <<>> = {}
    BY DEF Replays
  <2> QED
    BY <1>1, <2>1, ReplayFields DEF Tells
<1>3. ASSUME NEW n \in 0..L, n < L, n \in S PROVE n + 1 \in S
  <2> DEFINE r == auditRecords[n + 1]
             id == r.proposal
  <2>1. /\ n + 1 \in 0..L /\ r \in AuditRecord /\ id \in ProposalId
        /\ 1..n + 1 = 1..n \union {n + 1}
    BY <1>3, Between
  <2>2. PICK a : a = ReplayedAfter[n]
    OBVIOUS
  <2>3. PICK b : b = ReplayedAfter[n + 1]
    OBVIOUS
  <2>4. a \in ReplayState /\ b = Replayed(a, r)
    BY <1>3, <2>1, <2>2, <2>3 DEF Replays
  <2>5. Adds(a, r, id, b)
    BY <2>1, <2>4, ReplayedAdds
  <2>6. Tells(a, n)
    BY <1>3, <2>2
  <2>7. r # Null /\ r.kind \in Kind
    BY <2>1, NullAssumption DEF AuditRecord, Kind
  <2> HIDE DEF r, id
  <2>8. id = auditRecords[n + 1].proposal /\ r = auditRecords[n + 1]
    BY DEF r, id
  <2>9. ASSUME NEW i \in 1..n + 1, NEW x \in ProposalId, auditRecords[i].proposal = x
        PROVE  /\ Exists(x) /\ auditRecords[i].kind \notin Marker => auditRecords[i].kind \in b.decided[x]
               /\ ~Exists(x) => b.trail[x] # <<>>
    <3>1. a.trail[x] \in Seq(Kind)
      BY <2>4 DEF ReplayState
    <3>2. Append(a.trail[x], r.kind) # <<>>
      BY <2>7, <3>1, AppendProperties
    <3>3. CASE i = n + 1
      BY <2>5, <2>8, <2>9, <3>2, <3>3 DEF Adds
    <3>4. CASE i \in 1..n
      <4>1. /\ Exists(x) /\ auditRecords[i].kind \notin Marker => auditRecords[i].kind \in a.decided[x]
            /\ ~Exists(x) => a.trail[x] # <<>>
        BY <2>6, <2>9, <3>4 DEF Tells
      <4>2. a.decided[x] \subseteq b.decided[x] /\ (b.trail[x] = a.trail[x] \/ b.trail[x] # <<>>)
        BY <2>5, <3>2 DEF Adds
      <4> QED
        BY <4>1, <4>2
    <3> QED
      BY <2>1, <2>9, <3>3, <3>4
  <2>10. ASSUME NEW x \in ProposalId, "promotion" \in b.decided[x] PROVE b.promoted[x] # Null
    <3>1. "promotion" \in a.decided[x] => a.promoted[x] # Null
      BY <2>6 DEF Tells
    <3> QED
      BY <2>5, <2>7, <2>10, <3>1 DEF Adds
  <2>11. ASSUME NEW c \in b.commands
         PROVE  c # Null /\ \E i \in 1..n + 1 : auditRecords[i].command = c
    <3>1. CASE c \in a.commands
      BY <2>1, <2>6, <3>1 DEF Tells
    <3>2. CASE c \notin a.commands
      <4>1. c = r.command /\ c # Null
        BY <2>5, <2>11, <3>2 DEF Adds
      <4> QED
        BY <2>1, <2>8, <4>1
    <3> QED
      BY <3>1, <3>2
  <2>12. ASSUME NEW x \in ProposalId, NEW k \in DOMAIN b.trail[x]
         PROVE  \E i \in 1..n + 1 : auditRecords[i].proposal = x /\ auditRecords[i].kind = b.trail[x][k]
    <3>1. a.trail[x] \in Seq(Kind)
      BY <2>4 DEF ReplayState
    <3>2. CASE b.trail[x] = a.trail[x]
      BY <2>1, <2>6, <2>12, <3>2 DEF Tells
    <3>3. CASE b.trail[x] # a.trail[x]
      <4>1. x = id /\ b.trail[x] = Append(a.trail[x], r.kind)
        BY <2>5, <3>3 DEF Adds
      <4>2. /\ Append(a.trail[x], r.kind) \in Seq(Kind)
            /\ Len(Append(a.trail[x], r.kind)) = Len(a.trail[x]) + 1
            /\ \A j \in 1..Len(a.trail[x]) : Append(a.trail[x], r.kind)[j] = a.trail[x][j]
            /\ Append(a.trail[x], r.kind)[Len(a.trail[x]) + 1] = r.kind
        BY <2>7, <3>1, AppendProperties
      <4>3. CASE k = Len(a.trail[x]) + 1
        BY <2>1, <2>8, <4>1, <4>2, <4>3
      <4>4. CASE k # Len(a.trail[x]) + 1
        <5>1. k \in 1..Len(a.trail[x]) /\ k \in DOMAIN a.trail[x]
          BY <2>12, <3>1, <4>1, <4>2, <4>4
        <5>2. PICK i \in 1..n : auditRecords[i].proposal = x /\ auditRecords[i].kind = a.trail[x][k]
          BY <2>6, <5>1 DEF Tells
        <5> QED
          BY <2>1, <4>1, <4>2, <5>1, <5>2
      <4> QED
        BY <4>3, <4>4
    <3> QED
      BY <3>2, <3>3
  <2>13. ASSUME NEW x \in ProposalId
         PROVE  /\ Exists(x) => b.trail[x] = <<>>
                /\ ~Exists(x) => b.decided[x] = {} /\ b.promoted[x] = Null /\ b.archived[x] = Null
    BY <2>5, <2>6, ZenonT(40) DEF Adds, Tells
  <2>15. ASSUME NEW x \in ProposalId, b.promoted[x] # Null
         PROVE  \E i \in 1..n + 1 : auditRecords[i].proposal = x /\ auditRecords[i].kind = "promotion"
    <3>1. CASE a.promoted[x] # Null
      BY <2>1, <2>6, <3>1 DEF Tells
    <3>2. CASE a.promoted[x] = Null
      <4>1. x = id /\ r.kind = "promotion"
        BY <2>5, <2>15, <3>2 DEF Adds
      <4> QED
        BY <2>1, <2>8, <4>1
    <3> QED
      BY <3>1, <3>2
  <2>14. Tells(b, n + 1)
    BY <2>9, <2>10, <2>11, <2>12, <2>13, <2>15 DEF Tells
  <2> QED
    BY <2>1, <2>3, <2>14
<1> HIDE DEF S, L
<1>4. \A n \in 0..L : n \in S
  <2>1. \A n \in 0..L : n < L /\ n \in S => n + 1 \in S
    BY <1>3
  <2> QED
    BY <1>1, <1>2, <2>1, Climb
<1> QED
  <2>1. L \in 0..L
    BY <1>1
  <2> QED
    BY <1>4, <2>1 DEF S, L, ReplayOfAudit

-----------------------------------------------------------------------------
(***************************************************************************)
(* The audit goes on fitting.                                              *)
(***************************************************************************)
LEMMA Decisions ==
  /\ DecisionsOf("proposed") = {} /\ DecisionsOf("evaluating") = {} /\ DecisionsOf("evaluated") = {}
  /\ DecisionsOf("rejected") = {"rejection"} /\ DecisionsOf("promoted") = {"promotion"}
  /\ DecisionsOf("rolled-back") = {"promotion", "rollback"}
BY DEF DecisionsOf

\* What a record is replayed to depends only on whether its proposal is still there.
LEMMA ReplayedSame ==
  ASSUME NEW replay, NEW record, Exists(record.proposal)' <=> Exists(record.proposal)
  PROVE  Replayed(replay, record)' = Replayed(replay, record)
BY DEF Replayed

\* A record of another proposal.
LEMMA FitsElsewhere ==
  ASSUME NEW replay, NEW record \in AuditRecord, Fits(replay, record),
         NEW id \in ProposalId, record.proposal # id,
         \A x \in ProposalId : x # id => proposals'[x] = proposals[x],
         Exists(id) => Exists(id)' \/ replay.promoted[id] = Null,
         NEW same, same.commands \subseteq replay.commands,
         \A x \in ProposalId : same.promoted[x] = replay.promoted[x],
         \A key \in TargetKey : same.active[key] = replay.active[key],
         same.archived[record.proposal] = replay.archived[record.proposal],
         same.decided[record.proposal] = replay.decided[record.proposal]
  PROVE  Fits(same, record)'
<1> DEFINE x == record.proposal
           key == TargetKeyOf[x]
<1>1. /\ x \in ProposalId /\ key \in TargetKey /\ record.active \in ProposalId \union {Null}
      /\ proposals'[x] = proposals[x]
  BY TargetKeyAssumption DEF AuditRecord
<1>2. CASE ~Exists(x)
  BY <1>1, <1>2 DEF Fits, Exists
<1>3. CASE Exists(x)
  <2>1. Exists(x)'
    BY <1>1, <1>3 DEF Exists
  <2>2. /\ record.kind # "delete"
        /\ record.command # Null => record.command \notin same.commands
        /\ record.kind = "archive" => same.archived[x] = Null
        /\ record.kind = "unarchive" => same.archived[x] # Null
        /\ record.kind \notin same.decided[x]
    BY <1>3 DEF Fits
  <2>3. \A from, to, at : DecidedAt(x, from, to, at) => DecidedAt(x, from, to, at)'
    BY <1>1, ZenonT(40) DEF DecidedAt
  <2>4. Matches(record, x) => Matches(record, x)'
    BY <1>1 DEF Matches
  <2>5. record.active # Null /\ PriorPromotion(replay, record.active, key) =>
          PriorPromotion(same, record.active, key)'
    BY <1>1 DEF PriorPromotion, Exists
  <2>6. record.kind = "promotion" => PromotionFits(same, record)'
    <3>1. record.kind = "promotion" => PromotionFits(replay, record)
      BY <1>3 DEF Fits
    <3> QED
      BY <1>1, <2>3, <2>4, <2>5, <3>1 DEF PromotionFits
  <2>7. record.kind = "rollback" => RollbackFits(same, record)'
    <3>1. record.kind = "rollback" => RollbackFits(replay, record)
      BY <1>3 DEF Fits
    <3> QED
      BY <1>1, <2>3, <2>5, <3>1 DEF RollbackFits
  <2>8. record.kind = "rejection" => RejectionFits(record)'
    <3>1. record.kind = "rejection" => RejectionFits(record)
      BY <1>3 DEF Fits
    <3> QED
      BY <1>1, <2>3, <3>1 DEF RejectionFits
  <2> QED
    BY <2>1, <2>2, <2>6, <2>7, <2>8 DEF Fits
<1> QED
  BY <1>2, <1>3

\* What the decisions on a proposal need of it that they did before.
Kept(id, kind) ==
  /\ proposals'[id].evaluation = proposals[id].evaluation
  /\ proposals'[id].promotion = proposals[id].promotion
  /\ proposals[id].status \in WithPromotion => proposals'[id].status \in WithPromotion
  /\ \A from, to, at : (kind = "promotion" => from = "evaluated") =>
       (DecidedAt(id, from, to, at) => DecidedAt(id, from, to, at)')
  /\ \A t : (\E i \in DOMAIN proposals[id].transitions : proposals[id].transitions[i] = t) =>
       \E i \in DOMAIN proposals'[id].transitions : proposals'[id].transitions[i] = t

\* A record of the proposal that moves.
LEMMA FitsHere ==
  ASSUME NEW replay, NEW record \in AuditRecord, Fits(replay, record), NEW id, id = record.proposal,
         Exists(id), \A x \in ProposalId : Exists(x) => Exists(x)',
         record.kind \in Decision => Kept(id, record.kind)
  PROVE  Fits(replay, record)'
<1>1. Exists(id)' /\ id \in ProposalId /\ record.active \in ProposalId \union {Null}
  BY DEF AuditRecord
<1>2. record.active # Null /\ PriorPromotion(replay, record.active, TargetKeyOf[id]) =>
        PriorPromotion(replay, record.active, TargetKeyOf[id])'
  BY <1>1 DEF PriorPromotion
<1>3. record.kind = "promotion" => PromotionFits(replay, record)'
  <2> SUFFICES ASSUME record.kind = "promotion" PROVE PromotionFits(replay, record)'
    OBVIOUS
  <2>1. PromotionFits(replay, record) /\ record.kind \in Decision
    BY DEF Fits, Decision
  <2>2. Matches(record, id) => Matches(record, id)'
    BY <2>1 DEF Matches, Kept
  <2>3. DecidedAt(id, "evaluated", "promoted", record.at)'
    BY <2>1 DEF PromotionFits, Kept
  <2> QED
    BY <1>2, <2>1, <2>2, <2>3 DEF PromotionFits
<1>4. record.kind = "rollback" => RollbackFits(replay, record)'
  <2> SUFFICES ASSUME record.kind = "rollback" PROVE RollbackFits(replay, record)'
    OBVIOUS
  <2>1. RollbackFits(replay, record) /\ record.kind \in Decision
    BY DEF Fits, Decision
  <2>2. DecidedAt(id, "promoted", "rolled-back", record.at)'
    BY <2>1 DEF RollbackFits, Kept
  <2> QED
    BY <1>2, <2>1, <2>2 DEF RollbackFits
<1>5. record.kind = "rejection" => RejectionFits(record)'
  <2> SUFFICES ASSUME record.kind = "rejection" PROVE RejectionFits(record)'
    OBVIOUS
  <2>1. RejectionFits(record) /\ record.kind \in Decision
    BY DEF Fits, Decision
  <2>2. DecidedAt(id, "evaluated", "rejected", record.at)'
    BY <2>1 DEF RejectionFits, Kept
  <2> QED
    BY <2>1, <2>2 DEF RejectionFits, Kept
<1> QED
  BY <1>1, <1>3, <1>4, <1>5 DEF Fits

\* The records there are fit as they did when one proposal goes on.
LEMMA OldFit ==
  ASSUME CatalogTypeOK, Replays, NEW h, h = ReplayedAfter, NEW L, L = Len(auditRecords),
         NEW id \in ProposalId, \A x \in ProposalId : x # id => proposals'[x] = proposals[x],
         Exists(id) => Exists(id)',
         \A i \in 1..L : auditRecords[i].proposal = id =>
           Exists(id) /\ (auditRecords[i].kind \in Decision => Kept(id, auditRecords[i].kind))
  PROVE  \A m, n \in 0..L, r \in AuditRecord : n = m + 1 /\ r = auditRecords[n] =>
           /\ h[n] = Replayed(h[m], r) /\ Fits(h[m], r)' /\ Replayed(h[m], r)' = h[n]
<1> SUFFICES ASSUME NEW m \in 0..L, NEW n \in 0..L, NEW r \in AuditRecord, n = m + 1, r = auditRecords[n]
             PROVE  /\ h[n] = Replayed(h[m], r) /\ Fits(h[m], r)' /\ Replayed(h[m], r)' = h[n]
  OBVIOUS
<1>1. Fits(h[m], r) /\ h[n] = Replayed(h[m], r)
  BY DEF Replays
<1>2. L \in Nat /\ n \in 1..L /\ r.proposal \in ProposalId
  BY DEF CatalogTypeOK, AuditRecord
<1>3. CASE r.proposal # id
  <2>1. Fits(h[m], r)'
    BY <1>1, <1>3, FitsElsewhere
  <2>2. Exists(r.proposal)' <=> Exists(r.proposal)
    BY <1>2, <1>3 DEF Exists
  <2> QED
    BY <1>1, <2>1, <2>2, ReplayedSame
<1>4. CASE r.proposal = id
  <2>1. Exists(id) /\ Exists(id)' /\ (r.kind \in Decision => Kept(id, r.kind))
    BY <1>2, <1>4
  <2>2. \A x \in ProposalId : Exists(x) => Exists(x)'
    BY <2>1 DEF Exists
  <2>3. Fits(h[m], r)'
    BY <1>1, <1>4, <2>1, <2>2, FitsHere
  <2> QED
    BY <1>1, <1>4, <2>1, <2>3, ReplayedSame
<1> QED
  BY <1>3, <1>4

\* The recursion, with the replay and the record of a step named.
LEMMA StepsFrom ==
  CatalogTypeOK =>
    /\ ReplayedAfter[0] = Replay
    /\ \A m, n \in 0..Len(auditRecords) : \A a, r :
         n = m + 1 /\ a = ReplayedAfter[m] /\ r = auditRecords[n] => ReplayedAfter[n] = ReplayStep(a, r)
BY ReplayedAfterSteps

\* The same of the next state.
LEMMA StepsFromNext ==
  (CatalogTypeOK =>
    /\ ReplayedAfter[0] = Replay
    /\ \A m, n \in 0..Len(auditRecords) : \A a, r :
         n = m + 1 /\ a = ReplayedAfter[m] /\ r = auditRecords[n] => ReplayedAfter[n] = ReplayStep(a, r))'
BY StepsFrom, PTL

\* The records there are replay to what they did.
LEMMA SameReplay ==
  ASSUME CatalogTypeOK, CatalogTypeOK', Replays, NEW h, h = ReplayedAfter,
         NEW L, L = Len(auditRecords), L <= Len(auditRecords'),
         \A i \in 1..L : auditRecords'[i] = auditRecords[i],
         \A m, n \in 0..L, r \in AuditRecord : n = m + 1 /\ r = auditRecords[n] =>
           /\ h[n] = Replayed(h[m], r) /\ Fits(h[m], r)' /\ Replayed(h[m], r)' = h[n]
  PROVE  \A n \in 0..L : ReplayedAfter'[n] = h[n]
<1> DEFINE S == {n \in 0..L : ReplayedAfter'[n] = h[n]}
<1>1. L \in Nat /\ Len(auditRecords') \in Nat
  BY DEF CatalogTypeOK
<1>2. 0 \in S
  <2>1. ReplayedAfter'[0] = Replay' /\ Replay' = Replay
    BY StepsFromNext DEF Replay
  <2> QED
    BY <1>1, <2>1 DEF Replays
<1>3. ASSUME NEW n \in 0..L, n < L, n \in S PROVE n + 1 \in S
  <2>1. n + 1 \in 0..L /\ auditRecords[n + 1] \in AuditRecord
    BY <1>3, Between
  <2>2. PICK r \in AuditRecord : r = auditRecords[n + 1]
    BY <2>1
  <2>3. PICK a : a = h[n]
    OBVIOUS
  <2>4. n \in 0..Len(auditRecords') /\ n + 1 \in 0..Len(auditRecords') /\ n + 1 \in 1..L
    BY <1>1, <2>1
  <2>5. ReplayedAfter'[n + 1] = ReplayStep(a, r)'
    BY <1>3, <2>2, <2>3, <2>4, StepsFromNext
  <2>6. Fits(a, r)' /\ Replayed(a, r)' = h[n + 1]
    BY <2>1, <2>2, <2>3
  <2>7. a.ok
    BY <2>3 DEF Replays
  <2>8. ReplayedAfter'[n + 1] = h[n + 1]
    BY <2>5, <2>6, <2>7 DEF ReplayStep
  <2> QED
    BY <2>1, <2>8
<1> HIDE DEF S
<1>4. \A n \in 0..L : n \in S
  <2>1. \A n \in 0..L : n < L /\ n \in S => n + 1 \in S
    BY <1>3
  <2> QED
    BY <1>1, <1>2, <2>1, Climb
<1> QED
  BY <1>4 DEF S

-----------------------------------------------------------------------------
(***************************************************************************)
(* What the audit has to end as.                                           *)
(***************************************************************************)
EndsAs(e) ==
  /\ e.ok /\ e \in ReplayState
  /\ \A x \in ProposalId : e.trail[x] # <<>> => TrailIsValid(e.trail[x])
  /\ \A x \in ProposalId : promotionRecords[x] # Null => Exists(x) /\ Matches(promotionRecords[x], x)
  /\ \A x \in Existing : /\ e.archived[x] = proposals[x].archivedAt
                         /\ e.decided[x] = DecisionsOf(proposals[x].status)
  /\ \A x \in ProposalId : promotionRecords[x] = e.promoted[x]
  /\ \A key \in TargetKey : activeByTarget[key] = e.active[key]

\* A document that opens replays, and ends as it has to.
LEMMA OpensMeans ==
  ASSUME OrderInv, Opens
  PROVE  Replays /\ EndsAs(ReplayOfAudit)
<1>1. Restores(ReplayOfAudit) /\ \A id \in Existing : ReplayOfAudit.decided[id] = DecisionsOf(proposals[id].status)
  BY DEF Opens
<1>2. Replays
  BY <1>1, OkReplays DEF Restores, OrderInv
<1>3. ReplayOfAudit \in ReplayState
  <2>1. Len(auditRecords) \in 0..Len(auditRecords)
    BY DEF OrderInv, CatalogTypeOK
  <2> QED
    BY <1>2, <2>1 DEF Replays, ReplayOfAudit
<1> QED
  BY <1>1, <1>2, <1>3 DEF Restores, EndsAs

\* A replay that ends as it has to opens the document.
LEMMA OpensFrom ==
  \A e : OrderInv /\ ParseInv /\ CountInv /\ e = ReplayOfAudit /\ EndsAs(e) => Opens
<1> SUFFICES ASSUME NEW e, OrderInv, ParseInv, CountInv, e = ReplayOfAudit, EndsAs(e) PROVE Opens
  OBVIOUS
<1>1. promotionRecords = e.promoted /\ activeByTarget = e.active
  BY DEF EndsAs, ReplayState, OrderInv, CatalogTypeOK
<1>2. \A key \in TargetKey : activeByTarget[key] # Null =>
        /\ Exists(activeByTarget[key]) /\ TargetKeyOf[activeByTarget[key]] = key
        /\ proposals[activeByTarget[key]].status = "promoted"
  BY DEF OrderInv, ChainInv, Standing, Existing
<1>3. \A id \in Existing : Parses(id) /\ id \in ProposalId
  BY DEF ParseInv, Existing
<1>4. Restores(e)
  BY <1>1, <1>2, <1>3 DEF Restores, EndsAs
<1> QED
  BY <1>4 DEF Opens, EndsAs, CountInv

\* The same of the next state.
LEMMA OpensFromNext ==
  (\A e : OrderInv /\ ParseInv /\ CountInv /\ e = ReplayOfAudit /\ EndsAs(e) => Opens)'
BY OpensFrom, PTL

\* One proposal goes on, and the end of the audit with it.
LEMMA EndsNext ==
  ASSUME NEW e, NEW f \in ReplayState, EndsAs(e), f.ok, NEW id \in ProposalId, NEW p, p # Null,
         proposals'[id] = p, \A x \in ProposalId : x # id => proposals'[x] = proposals[x],
         \A x \in ProposalId : f.trail[x] = e.trail[x],
         \A x \in ProposalId : x # id =>
           /\ f.archived[x] = e.archived[x] /\ f.decided[x] = e.decided[x]
           /\ promotionRecords'[x] = promotionRecords[x],
         f.archived[id] = p.archivedAt, f.decided[id] = DecisionsOf(p.status),
         \A x \in ProposalId : promotionRecords'[x] = f.promoted[x],
         \A key \in TargetKey : activeByTarget'[key] = f.active[key],
         \A pr : pr = promotionRecords'[id] /\ pr # Null => Matches(pr, id)'
  PROVE  EndsAs(f)'
<1>1. ASSUME NEW x \in ProposalId, f.trail[x] # <<>> PROVE TrailIsValid(f.trail[x])
  BY <1>1 DEF EndsAs
<1>2. ASSUME NEW x \in ProposalId, NEW pr, pr = promotionRecords'[x], pr # Null
      PROVE  Exists(x)' /\ Matches(pr, x)'
  <2>1. CASE x = id
    BY <1>2, <2>1 DEF Exists
  <2>2. CASE x # id
    <3>1. pr = promotionRecords[x] /\ proposals'[x] = proposals[x]
      BY <1>2, <2>2
    <3>2. Exists(x) /\ Matches(pr, x)
      BY <1>2, <3>1 DEF EndsAs
    <3> QED
      BY <3>1, <3>2 DEF Exists, Matches
  <2> QED
    BY <2>1, <2>2
<1>3. ASSUME NEW x \in Existing'
      PROVE  f.archived[x] = proposals'[x].archivedAt /\ f.decided[x] = DecisionsOf(proposals'[x].status)
  <2>1. x \in ProposalId /\ proposals'[x] # Null
    BY DEF Existing, Exists
  <2>2. CASE x = id
    BY <2>2
  <2>3. CASE x # id
    <3>1. x \in Existing /\ proposals'[x] = proposals[x]
      BY <2>1, <2>3 DEF Existing, Exists
    <3> QED
      BY <2>1, <2>3, <3>1 DEF EndsAs
  <2> QED
    BY <2>2, <2>3
<1>4. \A x \in ProposalId : \A pr : pr = promotionRecords'[x] /\ pr # Null => Exists(x)' /\ Matches(pr, x)'
  BY <1>2
<1>5. \A x \in ProposalId : promotionRecords'[x] # Null => (Exists(x) /\ Matches(promotionRecords[x], x))'
  BY <1>4
<1> QED
  BY <1>1, <1>3, <1>5 DEF EndsAs

\* A command that appends nothing.
LEMMA OpensUnrecorded ==
  ASSUME OrderInv, OrderInv', ParseInv', CountInv', Opens, NEW id \in ProposalId, NEW p \in Proposal,
         CommitProposal(id, p), UNCHANGED auditRecords, Unadorned, Exists(id) => Exists(id)',
         NEW e, e = ReplayOfAudit, NEW L, L = Len(auditRecords),
         \A i \in 1..L : auditRecords[i].proposal = id =>
           Exists(id) /\ (auditRecords[i].kind \in Decision => Kept(id, auditRecords[i].kind)),
         e.archived[id] = p.archivedAt, e.decided[id] = DecisionsOf(p.status),
         promotionRecords[id] = Null
  PROVE  Opens'
<1>1. Replays /\ EndsAs(e)
  BY OpensMeans
<1>2. /\ proposals'[id] = p /\ p # Null
      /\ \A x \in ProposalId : x # id => proposals'[x] = proposals[x]
      /\ promotionRecords' = promotionRecords /\ activeByTarget' = activeByTarget
      /\ auditRecords' = auditRecords /\ CatalogTypeOK /\ CatalogTypeOK' /\ L \in Nat
  BY Committed, NullAssumption DEF OrderInv, Unadorned, CatalogTypeOK
<1>3. PICK h : h = ReplayedAfter
  OBVIOUS
<1>4. \A m, n \in 0..L, r \in AuditRecord : n = m + 1 /\ r = auditRecords[n] =>
        /\ h[n] = Replayed(h[m], r) /\ Fits(h[m], r)' /\ Replayed(h[m], r)' = h[n]
  BY <1>1, <1>2, <1>3, OldFit
<1>5. \A n \in 0..L : ReplayedAfter'[n] = h[n]
  BY <1>1, <1>2, <1>3, <1>4, SameReplay
<1>6. ReplayOfAudit' = e
  BY <1>2, <1>3, <1>5 DEF ReplayOfAudit
<1>7. EndsAs(e)'
  BY <1>1, <1>2, EndsNext DEF EndsAs
<1> QED
  BY <1>6, <1>7, OpensFromNext

\* The records on this proposal go on fitting.
StillFit(id) ==
  \A i \in 1..Len(auditRecords) : auditRecords[i].proposal = id =>
    Exists(id) /\ (auditRecords[i].kind \in Decision => Kept(id, auditRecords[i].kind))
\* The new record fits what the others replayed to.
FitsNext(id, p, r, e, f) ==
  /\ CommitProposal(id, p) /\ Exists(id) /\ r.proposal = id /\ Appended(r)
  /\ e = ReplayOfAudit /\ Fits(e, r)' /\ f = Replayed(e, r)
\* The rest of the material follows.
Follows(id, p, f) ==
  /\ \A x \in ProposalId : x # id => promotionRecords'[x] = promotionRecords[x]
  /\ f.archived[id] = p.archivedAt /\ f.decided[id] = DecisionsOf(p.status)
  /\ \A x \in ProposalId : promotionRecords'[x] = f.promoted[x]
  /\ \A key \in TargetKey : activeByTarget'[key] = f.active[key]
  /\ \A pr : pr = promotionRecords'[id] /\ pr # Null => Matches(pr, id)'

\* A command that appends a record.
LEMMA OpensRecorded ==
  ASSUME OrderInv, OrderInv', ParseInv', CountInv', Opens, NEW id \in ProposalId, NEW p \in Proposal,
         NEW r \in AuditRecord, NEW e, NEW f, StillFit(id), FitsNext(id, p, r, e, f), Follows(id, p, f)
  PROVE  Opens'
<1>0. PICK L : L = Len(auditRecords)
  OBVIOUS
<1>1. /\ CommitProposal(id, p) /\ Exists(id) /\ r.proposal = id /\ Appended(r)
      /\ e = ReplayOfAudit /\ Fits(e, r)' /\ f = Replayed(e, r)
  BY DEF FitsNext
<1>2. /\ \A x \in ProposalId : x # id => promotionRecords'[x] = promotionRecords[x]
      /\ f.archived[id] = p.archivedAt /\ f.decided[id] = DecisionsOf(p.status)
      /\ \A x \in ProposalId : promotionRecords'[x] = f.promoted[x]
      /\ \A key \in TargetKey : activeByTarget'[key] = f.active[key]
      /\ \A pr : pr = promotionRecords'[id] /\ pr # Null => Matches(pr, id)'
  BY DEF Follows
<1>3. Replays /\ EndsAs(e)
  BY <1>1, OpensMeans
<1>4. /\ proposals'[id] = p /\ p # Null
      /\ \A x \in ProposalId : x # id => proposals'[x] = proposals[x]
      /\ CatalogTypeOK /\ CatalogTypeOK' /\ L \in Nat
  BY <1>0, <1>1, Committed, NullAssumption DEF OrderInv, CatalogTypeOK
<1>5. PICK h : h = ReplayedAfter
  OBVIOUS
<1>6. Exists(id)' /\ (Exists(r.proposal)' <=> Exists(r.proposal))
  BY <1>1, <1>4 DEF Exists
<1>7. \A m, n \in 0..L, s \in AuditRecord : n = m + 1 /\ s = auditRecords[n] =>
        /\ h[n] = Replayed(h[m], s) /\ Fits(h[m], s)' /\ Replayed(h[m], s)' = h[n]
  BY <1>0, <1>1, <1>2, <1>3, <1>4, <1>5, <1>6, OldFit DEF StillFit
<1>8. /\ Len(auditRecords') = L + 1 /\ auditRecords'[L + 1] = r
      /\ \A i \in 1..L : auditRecords'[i] = auditRecords[i]
  BY <1>0, <1>1, <1>4, AppendedRecord
<1>9. \A n \in 0..L : ReplayedAfter'[n] = h[n]
  BY <1>0, <1>3, <1>4, <1>5, <1>7, <1>8, SameReplay
<1>10. ReplayedAfter'[L] = e
  BY <1>0, <1>1, <1>4, <1>5, <1>9 DEF ReplayOfAudit
<1>11. ReplayedAfter'[L + 1] = ReplayStep(e, r)'
  BY <1>0, <1>4, <1>8, <1>10, StepsFromNext
<1>12. Replayed(e, r)' = f
  BY <1>1, <1>6, ReplayedSame
<1>13. ReplayOfAudit' = f
  BY <1>0, <1>1, <1>3, <1>8, <1>11, <1>12 DEF ReplayStep, ReplayOfAudit, EndsAs
<1>14. Adds(e, r, id, f)
  <2>1. e \in ReplayState
    BY <1>3 DEF EndsAs
  <2> QED
    BY <1>1, <2>1, ReplayedFields
<1>15. f \in ReplayState /\ f.ok
  BY <1>3, <1>14 DEF Adds, EndsAs
<1>16. \A x \in ProposalId : f.trail[x] = e.trail[x]
  BY <1>1, <1>14 DEF Adds
<1>17. \A x \in ProposalId : x # id => f.archived[x] = e.archived[x] /\ f.decided[x] = e.decided[x]
  BY <1>14 DEF Adds
<1>18. EndsAs(f)'
  BY <1>2, <1>3, <1>4, <1>15, <1>16, <1>17, EndsNext
<1> QED
  BY <1>13, <1>18, OpensFromNext

-----------------------------------------------------------------------------
(***************************************************************************)
(* Each command leaves a document that opens.                              *)
(***************************************************************************)
\* What the end of the audit says of the records of a proposal.
LEMMA DecisionRecorded ==
  ASSUME OrderInv, Opens, NEW i \in 1..Len(auditRecords), NEW id \in ProposalId, Exists(id),
         auditRecords[i].proposal = id, auditRecords[i].kind \in Decision
  PROVE  auditRecords[i].kind \in DecisionsOf(proposals[id].status)
<1>1. Replays /\ EndsAs(ReplayOfAudit)
  BY OpensMeans
<1>2. Tells(ReplayOfAudit, Len(auditRecords))
  BY <1>1, ReplayTells DEF OrderInv
<1>3. auditRecords[i].kind \notin Marker
  BY DEF Decision, Marker
<1>4. auditRecords[i].kind \in ReplayOfAudit.decided[id]
  BY <1>2, <1>3 DEF Tells
<1> QED
  BY <1>1, <1>4 DEF EndsAs, Existing

\* An id that is free was never used.
LEMMA NeverRecorded ==
  ASSUME OrderInv, Opens, NEW id \in ProposalId, ~Exists(id), ~Tombstoned(id),
         NEW i \in 1..Len(auditRecords)
  PROVE  auditRecords[i].proposal # id
<1> SUFFICES ASSUME auditRecords[i].proposal = id PROVE FALSE
  OBVIOUS
<1>1. PICK e : e = ReplayOfAudit
  OBVIOUS
<1>2. EndsAs(e) /\ Tells(e, Len(auditRecords)) /\ DOMAIN auditRecords = 1..Len(auditRecords)
  BY <1>1, OpensMeans, ReplayTells DEF OrderInv, CatalogTypeOK
<1>3. PICK trail : trail = e.trail[id]
  OBVIOUS
<1>4. trail # <<>> /\ TrailIsValid(trail) /\ trail \in Seq(Kind)
  BY <1>2, <1>3, SMTT(40) DEF Tells, EndsAs, ReplayState
<1>5. Len(trail) \in DOMAIN trail /\ trail[Len(trail)] = "delete"
  BY <1>4 DEF TrailIsValid
<1>6. PICK j \in 1..Len(auditRecords) : auditRecords[j].proposal = id /\ auditRecords[j].kind = trail[Len(trail)]
  BY <1>2, <1>3, <1>5 DEF Tells
<1> QED
  BY <1>2, <1>5, <1>6 DEF Tombstoned

\* The transition that is added is the only one from its status.
LEMMA DecidedLast ==
  ASSUME NEW id \in ProposalId, proposals[id] \in Proposal, Chronological(id),
         NEW from, from = proposals[id].status, NEW to \in Lifecycle, NEW at \in Instant,
         proposals'[id].transitions =
           Append(proposals[id].transitions, [from |-> from, to |-> to, at |-> at])
  PROVE  /\ DecidedAt(id, from, to, at)'
         /\ \A start, end, time : start # from /\ DecidedAt(id, start, end, time) =>
              DecidedAt(id, start, end, time)'
         /\ \A t : (\E i \in DOMAIN proposals[id].transitions : proposals[id].transitions[i] = t) =>
              \E i \in DOMAIN proposals'[id].transitions : proposals'[id].transitions[i] = t
         /\ \E i \in DOMAIN proposals'[id].transitions :
              proposals'[id].transitions[i] = [from |-> from, to |-> to, at |-> at]
<1>1. PICK path : path = proposals[id].transitions
  OBVIOUS
<1>2. PICK next : next = proposals'[id].transitions
  OBVIOUS
<1>3. PICK t : t = [from |-> from, to |-> to, at |-> at]
  OBVIOUS
<1>4. /\ path \in Seq(Transition) /\ DOMAIN path = 1..Len(path) /\ Len(path) \in Nat
      /\ \A i \in DOMAIN path : path[i].from # from
  <2> DEFINE n == Len(path)
  <2>1. /\ path \in Seq(Transition) /\ DOMAIN path = 1..n /\ n \in Nat
        /\ from = "proposed" => n = 0
        /\ from = "evaluating" => n = 1
        /\ from = "evaluated" => n = 2
        /\ from \in {"promoted", "rejected"} => n = 3
        /\ from = "rolled-back" => n = 4
        /\ n >= 1 => path[1].from = "proposed"
        /\ n >= 2 => path[2].from = "evaluating"
        /\ n >= 3 => path[3].from = "evaluated"
        /\ n = 4 => path[4].from = "promoted"
    BY <1>1, PathShape
  <2>2. from \in Lifecycle
    BY DEF Proposal
  <2> HIDE DEF n
  <2>4. \A i \in 1..n : path[i].from # from
    <3> SUFFICES ASSUME NEW i \in 1..n PROVE path[i].from # from
      OBVIOUS
    <3>1. CASE from = "proposed" \/ from = "evaluating"
      BY <2>1, <2>2, <3>1
    <3>2. CASE from = "evaluated"
      <4>1. n = 2 /\ (i = 1 \/ i = 2)
        BY <2>1, <2>2, <3>2
      <4> QED
        BY <2>1, <2>2, <3>2, <4>1
    <3>3. CASE from \in {"promoted", "rejected"}
      <4>1. n = 3 /\ (i = 1 \/ i = 2 \/ i = 3)
        BY <2>1, <2>2, <3>3
      <4> QED
        BY <2>1, <2>2, <3>3, <4>1
    <3>4. CASE from = "rolled-back"
      <4>1. n = 4 /\ (i = 1 \/ i = 2 \/ i = 3 \/ i = 4)
        BY <2>1, <2>2, <3>4
      <4> QED
        BY <2>1, <2>2, <3>4, <4>1
    <3> QED
      BY <2>1, <2>2, <3>1, <3>2, <3>3, <3>4, Lifecycles
  <2> QED
    BY <2>1, <2>4 DEF n
<1>5. t \in Transition /\ t.from = from /\ t.to = to /\ t.at = at
  BY <1>3 DEF Transition, Proposal
<1>6. /\ DOMAIN next = 1..Len(path) + 1 /\ next[Len(path) + 1] = t
      /\ \A i \in 1..Len(path) : next[i] = path[i]
  <2>1. next = Append(path, t)
    BY <1>1, <1>2, <1>3
  <2>2. next \in Seq(Transition) /\ Len(next) = Len(path) + 1
    BY <1>4, <1>5, <2>1, AppendProperties
  <2> QED
    BY <1>4, <1>5, <2>1, <2>2, AppendProperties
<1>7. Len(path) + 1 \in DOMAIN next /\ DOMAIN next = DOMAIN path \union {Len(path) + 1}
  BY <1>4, <1>6
<1>8. {i \in DOMAIN next : next[i].from = from /\ next[i].to = to} = {Len(path) + 1}
  BY <1>4, <1>5, <1>6, <1>7
<1>9. DecidedAt(id, from, to, at)'
  <2>1. Cardinality({Len(path) + 1}) = 1
    BY FS_Singleton
  <2> QED
    BY <1>2, <1>5, <1>6, <1>8, <2>1 DEF DecidedAt
<1>10. ASSUME NEW start, NEW end, NEW time, start # from, DecidedAt(id, start, end, time)
       PROVE  DecidedAt(id, start, end, time)'
  <2>1. {i \in DOMAIN next : next[i].from = start /\ next[i].to = end}
          = {i \in DOMAIN path : path[i].from = start /\ path[i].to = end}
    BY <1>4, <1>5, <1>6, <1>7, <1>10
  <2>2. \A i \in DOMAIN path : next[i] = path[i]
    BY <1>4, <1>6
  <2> QED
    BY <1>1, <1>2, <1>10, <2>1, <2>2 DEF DecidedAt
<1>11. \A u : (\E i \in DOMAIN path : path[i] = u) => \E i \in DOMAIN next : next[i] = u
  BY <1>4, <1>6, <1>7
<1> QED
  BY <1>1, <1>2, <1>3, <1>6, <1>7, <1>9, <1>10, <1>11

\* A new proposal has no records: its id is free and has no tombstone.
LEMMA ProposeOpens ==
  ASSUME OrderInv, OrderInv', ParseInv', CountInv', Opens, NEW id \in ProposalId, NEW at \in Instant,
         Propose(id, at)
  PROVE  Opens'
<1> DEFINE p == [status |-> "proposed", createdAt |-> at, archivedAt |-> Null,
                 transitions |-> <<>>, evaluation |-> Null, promotion |-> Null]
<1>1. p \in Proposal /\ p.status = "proposed" /\ p.archivedAt = Null
  BY DEF Proposal, Lifecycle
<1>2. CommitProposal(id, p) /\ Unadorned /\ UNCHANGED auditRecords /\ ~Exists(id) /\ ~Tombstoned(id)
  BY DEF Propose
<1> HIDE DEF p
<1>3. PICK e : e = ReplayOfAudit
  OBVIOUS
<1>4. EndsAs(e) /\ Tells(e, Len(auditRecords))
  BY <1>3, OpensMeans, ReplayTells DEF OrderInv
<1>5. e.archived[id] = Null /\ e.decided[id] = {} /\ promotionRecords[id] = Null
  BY <1>2, <1>4 DEF Tells, EndsAs
<1>6. \A i \in 1..Len(auditRecords) : auditRecords[i].proposal # id
  BY <1>2, NeverRecorded
<1>7. e.archived[id] = p.archivedAt /\ e.decided[id] = DecisionsOf(p.status)
  BY <1>1, <1>5, Decisions
<1> QED
  BY <1>1, <1>2, <1>3, <1>5, <1>6, <1>7, OpensUnrecorded

\* A proposal moves on before any decision.
LEMMA UndecidedOpens ==
  ASSUME OrderInv, OrderInv', ParseInv', CountInv', Opens, NEW id \in ProposalId, Exists(id),
         NEW p \in Proposal, CommitProposal(id, p), UNCHANGED auditRecords, Unadorned,
         DecisionsOf(proposals[id].status) = {}, DecisionsOf(p.status) = {},
         proposals[id].status \notin WithPromotion, p.archivedAt = proposals[id].archivedAt
  PROVE  Opens'
<1>1. PICK e : e = ReplayOfAudit
  OBVIOUS
<1>2. EndsAs(e)
  BY <1>1, OpensMeans
<1>3. e.archived[id] = p.archivedAt /\ e.decided[id] = {} /\ promotionRecords[id] = Null
  BY <1>2 DEF EndsAs, Existing, Matches
<1>4. \A i \in 1..Len(auditRecords) : auditRecords[i].proposal = id => auditRecords[i].kind \notin Decision
  BY DecisionRecorded
<1>5. Exists(id)'
  BY Committed, NullAssumption DEF Exists, OrderInv
<1> QED
  BY <1>1, <1>3, <1>4, <1>5, OpensUnrecorded

\* Beginning an evaluation leaves a document that opens.
LEMMA BeginEvaluationOpens ==
  ASSUME OrderInv, OrderInv', ParseInv', CountInv', Opens, NEW id \in ProposalId, NEW at \in Instant,
         BeginEvaluation(id, at)
  PROVE  Opens'
<1> DEFINE p == Moved(proposals[id], "evaluating", at)
<1>1. /\ CommitProposal(id, p) /\ Unadorned /\ UNCHANGED auditRecords
      /\ Exists(id) /\ proposals[id].status = "proposed"
  BY DEF BeginEvaluation
<1>2. p \in Proposal /\ p.status = "evaluating" /\ p.archivedAt = proposals[id].archivedAt
  <2>1. proposals[id] \in Proposal /\ "evaluating" \in Lifecycle
    BY <1>1, EvaluatedProposal DEF Lifecycle
  <2> QED
    BY <2>1, MovedProposal
<1> HIDE DEF p
<1> QED
  BY <1>1, <1>2, Decisions, Lifecycles, UndecidedOpens

\* An evaluation leaves a document that opens.
LEMMA EvaluateOpens ==
  ASSUME OrderInv, OrderInv', ParseInv', CountInv', Opens, NEW id \in ProposalId,
         NEW evidence \in EvidenceFor, NEW at \in Instant, Evaluate(id, evidence, at)
  PROVE  Opens'
<1> DEFINE moved == Moved(proposals[id], "evaluated", at)
           evaluation == [evidence |-> evidence, result |-> ResultOf(evidence), at |-> at]
           p == [moved EXCEPT !.evaluation = evaluation]
<1>1. /\ CommitProposal(id, p) /\ Unadorned /\ UNCHANGED auditRecords
      /\ Exists(id) /\ proposals[id].status = "evaluating"
  BY DEF Evaluate
<1>2. moved \in Proposal /\ moved.status = "evaluated" /\ moved.archivedAt = proposals[id].archivedAt
  <2>1. proposals[id] \in Proposal /\ "evaluated" \in Lifecycle
    BY <1>1, EvaluatedProposal DEF Lifecycle, Archivable
  <2> QED
    BY <2>1, MovedProposal
<1>3. evaluation \in Evaluation
  BY ResultTyped
<1> HIDE DEF moved, evaluation
<1>4. p \in Proposal /\ p.status = "evaluated" /\ p.archivedAt = proposals[id].archivedAt
  BY <1>2, <1>3 DEF Proposal
<1> HIDE DEF p
<1> QED
  BY <1>1, <1>4, Decisions, Lifecycles, UndecidedOpens

\* A free command id is one the replay has not met.
LEMMA FreeCommand ==
  ASSUME OrderInv, Opens, NEW command, CommandFree(command), command # Null
  PROVE  command \notin ReplayOfAudit.commands
<1>1. Tells(ReplayOfAudit, Len(auditRecords)) /\ DOMAIN auditRecords = 1..Len(auditRecords)
  BY OpensMeans, ReplayTells DEF OrderInv, CatalogTypeOK
<1> QED
  BY <1>1 DEF Tells, CommandFree

\* What is promoted was promoted before.
LEMMA PriorThere ==
  ASSUME OrderInv, Opens, NEW x \in Standing, NEW e, e = ReplayOfAudit
  PROVE  e.promoted[x] # Null
<1>1. EndsAs(e) /\ Tells(e, Len(auditRecords)) /\ x \in Existing /\ x \in ProposalId
  BY OpensMeans, ReplayTells DEF OrderInv, Standing, Existing
<1>2. e.decided[x] = {"promotion"}
  BY <1>1, Decisions DEF EndsAs, Standing
<1> QED
  BY <1>1, <1>2 DEF Tells

\* A promotion fits the audit: the target and the command id are what the replay has.
LEMMA PromoteOpens ==
  ASSUME OrderInv, ParseInv, OrderInv', ParseInv', CountInv', Opens, NEW id \in ProposalId,
         NEW command \in AppCommand \union {Null}, NEW at \in Instant, Promote(id, command, at)
  PROVE  Opens'
<1>1. PICK r \in AuditRecord, p \in Proposal : Promotes(id, command, at, r, p)
  BY PromoteTypes
<1>2. /\ r.kind = "promotion" /\ r.proposal = id /\ r.at = at
      /\ r.evaluation = proposals[id].evaluation.result /\ r.command = command
      /\ r.active = activeByTarget[TargetKeyOf[id]]
      /\ CommitProposal(id, p) /\ Appended(r)
      /\ promotionRecords' = [promotionRecords EXCEPT ![id] = r]
      /\ activeByTarget' = [activeByTarget EXCEPT ![TargetKeyOf[id]] = id]
      /\ p.status = "promoted" /\ p.promotion = r /\ p.evaluation = proposals[id].evaluation
      /\ p.archivedAt = proposals[id].archivedAt
      /\ p.transitions = Append(proposals[id].transitions,
                                [from |-> "evaluated", to |-> "promoted", at |-> at])
  BY <1>1 DEF Promotes
<1>3. /\ CommandFree(command) /\ Exists(id) /\ proposals[id].status = "evaluated"
      /\ proposals[id].evaluation.result.passed
  BY DEF Promote
<1>4. PICK e : e = ReplayOfAudit
  OBVIOUS
<1>5. EndsAs(e) /\ id \in Existing /\ proposals[id] \in Proposal /\ Parses(id) /\ r # Null
  BY <1>3, <1>4, OpensMeans, EvaluatedProposal, NullAssumption DEF ParseInv, Existing
<1>6. /\ proposals'[id] = p /\ p # Null
      /\ \A x \in ProposalId : x # id => proposals'[x] = proposals[x]
      /\ TargetKeyOf[id] \in TargetKey
  BY <1>2, Committed, NullAssumption, TargetKeyAssumption DEF OrderInv
<1>7. /\ e.decided[id] = {} /\ e.archived[id] = proposals[id].archivedAt
  BY <1>3, <1>5, Decisions DEF EndsAs
<1>8. \A i \in 1..Len(auditRecords) : auditRecords[i].proposal = id => auditRecords[i].kind \notin Decision
  BY <1>3, Decisions, DecisionRecorded
<1>9. /\ DecidedAt(id, "evaluated", "promoted", at)'
      /\ \E i \in DOMAIN p.transitions :
           p.transitions[i] = [from |-> "evaluated", to |-> "promoted", at |-> at]
  <2>1. /\ "promoted" \in Lifecycle /\ Chronological(id)
        /\ proposals'[id].transitions = Append(proposals[id].transitions,
                                [from |-> "evaluated", to |-> "promoted", at |-> at])
    BY <1>2, <1>5, <1>6, Lifecycles DEF Parses
  <2>2. /\ DecidedAt(id, "evaluated", "promoted", at)'
        /\ \E i \in DOMAIN proposals'[id].transitions :
             proposals'[id].transitions[i] = [from |-> "evaluated", to |-> "promoted", at |-> at]
    BY <1>3, <1>5, <2>1, DecidedLast
  <2> QED
    BY <1>6, <2>2
<1>10. p.evaluation # Null
  BY <1>2, <1>3, EvaluatedProposal, Lifecycles
<1>11. Matches(r, id)'
  BY <1>2, <1>3, <1>6, <1>9, <1>10 DEF Matches, WithPromotion
<1>12. r.active # Null => PriorPromotion(e, r.active, TargetKeyOf[id])'
  <2> SUFFICES ASSUME NEW before, before = r.active, before # Null
               PROVE  PriorPromotion(e, before, TargetKeyOf[id])'
    OBVIOUS
  <2>1. before \in Standing /\ TargetKeyOf[before] = TargetKeyOf[id]
    BY <1>2, <1>6 DEF OrderInv, ChainInv
  <2>2. e.promoted[before] # Null /\ before \in ProposalId /\ proposals[before] # Null
    BY <1>4, <2>1, PriorThere DEF Standing, Existing, Exists
  <2>3. Exists(before)'
    BY <1>6, <2>2 DEF Exists
  <2> QED
    BY <2>1, <2>2, <2>3 DEF PriorPromotion
<1>13. r.active = e.active[TargetKeyOf[id]]
  BY <1>2, <1>5, <1>6 DEF EndsAs
<1>14. PromotionFits(e, r)'
  BY <1>2, <1>9, <1>11, <1>12, <1>13 DEF PromotionFits
<1>15. Fits(e, r)'
  <2>1. command # Null => command \notin e.commands
    BY <1>3, <1>4, FreeCommand
  <2> QED
    BY <1>2, <1>6, <1>7, <1>14, <2>1 DEF Fits, Exists
<1>16. PICK f : f = Replayed(e, r)
  OBVIOUS
<1>17. Adds(e, r, id, f)
  BY <1>2, <1>5, <1>16, ReplayedFields DEF EndsAs
<1>18. /\ f.archived[id] = p.archivedAt /\ f.decided[id] = DecisionsOf(p.status)
       /\ \A x \in ProposalId : f.promoted[x] = IF x = id THEN r ELSE e.promoted[x]
       /\ \A key \in TargetKey : f.active[key] = IF key = TargetKeyOf[id] THEN id ELSE e.active[key]
  <2>1. Exists(id) /\ r.kind \notin Marker
    BY <1>2, <1>3 DEF Marker
  <2>2. f.archived[id] = e.archived[id] /\ f.decided[id] = e.decided[id] \union {"promotion"}
    BY <1>2, <1>17, <2>1 DEF Adds
  <2>3. f.archived[id] = p.archivedAt /\ f.decided[id] = DecisionsOf(p.status)
    BY <1>2, <1>7, <2>2, Decisions
  <2>4. \A x \in ProposalId : f.promoted[x] = IF x = id THEN r ELSE e.promoted[x]
    BY <1>2, <1>17, <2>1 DEF Adds
  <2>5. \A key \in TargetKey : f.active[key] = IF key = TargetKeyOf[id] THEN id ELSE e.active[key]
    BY <1>2, <1>17, <2>1 DEF Adds
  <2> QED
    BY <2>3, <2>4, <2>5
<1>19. /\ \A x \in ProposalId : promotionRecords'[x] = f.promoted[x]
       /\ \A key \in TargetKey : activeByTarget'[key] = f.active[key]
       /\ \A x \in ProposalId : x # id => promotionRecords'[x] = promotionRecords[x]
       /\ promotionRecords'[id] = r
  <2>1. /\ \A x \in ProposalId : promotionRecords'[x] = IF x = id THEN r ELSE promotionRecords[x]
        /\ \A key \in TargetKey :
             activeByTarget'[key] = IF key = TargetKeyOf[id] THEN id ELSE activeByTarget[key]
    BY <1>2 DEF OrderInv, CatalogTypeOK
  <2>2. /\ \A x \in ProposalId : promotionRecords[x] = e.promoted[x]
        /\ \A key \in TargetKey : activeByTarget[key] = e.active[key]
    BY <1>5 DEF EndsAs
  <2> QED
    BY <1>18, <2>1, <2>2
<1>20. StillFit(id)
  BY <1>3, <1>8 DEF StillFit
<1>21. FitsNext(id, p, r, e, f)
  BY <1>2, <1>3, <1>4, <1>15, <1>16 DEF FitsNext
<1>22. Follows(id, p, f)
  BY <1>11, <1>18, <1>19 DEF Follows
<1> QED
  BY <1>20, <1>21, <1>22, OpensRecorded

\* A rejection fits the audit: it is the only one of its proposal.
LEMMA RejectOpens ==
  ASSUME OrderInv, ParseInv, OrderInv', ParseInv', CountInv', Opens, NEW id \in ProposalId,
         NEW at \in Instant, Reject(id, at)
  PROVE  Opens'
<1>1. PICK r \in AuditRecord, p \in Proposal : Rejects(id, at, r, p)
  BY RejectTypes
<1>2. /\ r.kind = "rejection" /\ r.proposal = id /\ r.at = at
      /\ r.evaluation = proposals[id].evaluation.result /\ r.command = Null
      /\ CommitProposal(id, p) /\ Appended(r) /\ Unadorned
      /\ p.status = "rejected" /\ p.evaluation = proposals[id].evaluation
      /\ p.archivedAt = proposals[id].archivedAt
      /\ p.transitions = Append(proposals[id].transitions,
                                [from |-> "evaluated", to |-> "rejected", at |-> at])
  BY <1>1 DEF Rejects
<1>3. Exists(id) /\ proposals[id].status = "evaluated"
  BY DEF Reject
<1>4. PICK e : e = ReplayOfAudit
  OBVIOUS
<1>5. EndsAs(e) /\ id \in Existing /\ proposals[id] \in Proposal /\ Parses(id)
  BY <1>3, <1>4, OpensMeans, EvaluatedProposal DEF ParseInv, Existing
<1>6. /\ proposals'[id] = p /\ p # Null
      /\ promotionRecords' = promotionRecords /\ activeByTarget' = activeByTarget
  BY <1>2, Committed, NullAssumption DEF OrderInv, Unadorned
<1>7. /\ e.decided[id] = {} /\ e.archived[id] = proposals[id].archivedAt /\ promotionRecords[id] = Null
  BY <1>3, <1>5, Decisions, ZenonT(40) DEF EndsAs, Matches, WithPromotion
<1>8. \A i \in 1..Len(auditRecords) : auditRecords[i].proposal = id => auditRecords[i].kind \notin Decision
  BY <1>3, Decisions, DecisionRecorded
<1>9. DecidedAt(id, "evaluated", "rejected", at)'
  BY <1>2, <1>3, <1>5, <1>6, DecidedLast, Lifecycles DEF Parses
<1>10. p.evaluation # Null
  BY <1>2, <1>3, EvaluatedProposal, Lifecycles
<1>11. Fits(e, r)'
  BY <1>2, <1>6, <1>7, <1>9, <1>10 DEF Fits, Exists, RejectionFits
<1>12. PICK f : f = Replayed(e, r)
  OBVIOUS
<1>13. Adds(e, r, id, f)
  BY <1>2, <1>5, <1>12, ReplayedFields DEF EndsAs
<1>14. /\ f.archived[id] = p.archivedAt /\ f.decided[id] = DecisionsOf(p.status)
       /\ \A x \in ProposalId : f.promoted[x] = e.promoted[x]
       /\ \A key \in TargetKey : f.active[key] = e.active[key]
  BY <1>2, <1>3, <1>7, <1>13, Decisions, ZenonT(40) DEF Adds, Marker
<1>15. /\ \A x \in ProposalId : promotionRecords'[x] = f.promoted[x]
       /\ \A key \in TargetKey : activeByTarget'[key] = f.active[key]
  BY <1>5, <1>6, <1>14 DEF EndsAs
<1>16. \A pr : pr = promotionRecords'[id] => pr = Null
  BY <1>6, <1>7
<1>17. StillFit(id)
  BY <1>3, <1>8 DEF StillFit
<1>18. FitsNext(id, p, r, e, f)
  BY <1>2, <1>3, <1>4, <1>11, <1>12 DEF FitsNext
<1>19. Follows(id, p, f)
  BY <1>6, <1>14, <1>15, <1>16 DEF Follows
<1> QED
  BY <1>17, <1>18, <1>19, OpensRecorded

\* A rollback fits the audit: what it brings back was promoted before and stands.
LEMMA RollbackOpens ==
  ASSUME OrderInv, ParseInv, OrderInv', ParseInv', CountInv', Opens, NEW id \in ProposalId,
         NEW command \in AppCommand \union {Null}, NEW at \in Instant, Rollback(id, command, at)
  PROVE  Opens'
<1>1. PICK r \in AuditRecord, p \in Proposal : RollsBack(id, command, at, r, p)
  BY RollbackTypes
<1>2. /\ r.kind = "rollback" /\ r.proposal = id /\ r.at = at
      /\ r.command = command /\ r.active = promotionRecords[id].active
      /\ CommitProposal(id, p) /\ Appended(r) /\ promotionRecords' = promotionRecords
      /\ activeByTarget' = [activeByTarget EXCEPT ![TargetKeyOf[id]] = promotionRecords[id].active]
      /\ p.status = "rolled-back" /\ p.promotion = proposals[id].promotion
      /\ p.evaluation = proposals[id].evaluation /\ p.archivedAt = proposals[id].archivedAt
      /\ p.transitions = Append(proposals[id].transitions,
                                [from |-> "promoted", to |-> "rolled-back", at |-> at])
  BY <1>1 DEF RollsBack
<1>3. /\ CommandFree(command) /\ Exists(id) /\ proposals[id].status = "promoted"
      /\ promotionRecords[id] # Null /\ activeByTarget[TargetKeyOf[id]] = id
  BY DEF Rollback, IsActive
<1>4. PICK e : e = ReplayOfAudit
  OBVIOUS
<1>5. EndsAs(e) /\ id \in Existing /\ id \in Standing /\ proposals[id] \in Proposal /\ Parses(id)
  BY <1>3, <1>4, OpensMeans, EvaluatedProposal DEF ParseInv, Existing, Standing
<1>6. /\ proposals'[id] = p /\ p # Null
      /\ \A x \in ProposalId : x # id => proposals'[x] = proposals[x]
      /\ TargetKeyOf[id] \in TargetKey
  BY <1>2, Committed, NullAssumption, TargetKeyAssumption DEF OrderInv
<1>7. /\ e.decided[id] = {"promotion"} /\ e.archived[id] = proposals[id].archivedAt
      /\ e.promoted[id] = promotionRecords[id] /\ e.active[TargetKeyOf[id]] = id
  BY <1>3, <1>5, <1>6, Decisions DEF EndsAs
<1>8. /\ DecidedAt(id, "promoted", "rolled-back", at)'
      /\ \A start, end, time : start # "promoted" /\ DecidedAt(id, start, end, time) =>
           DecidedAt(id, start, end, time)'
      /\ \A t : (\E i \in DOMAIN proposals[id].transitions : proposals[id].transitions[i] = t) =>
           \E i \in DOMAIN proposals'[id].transitions : proposals'[id].transitions[i] = t
  <2>1. /\ "rolled-back" \in Lifecycle /\ Chronological(id)
        /\ proposals'[id].transitions = Append(proposals[id].transitions,
                                [from |-> "promoted", to |-> "rolled-back", at |-> at])
    BY <1>2, <1>5, <1>6, Lifecycles DEF Parses
  <2>2. DecidedAt(id, "promoted", "rolled-back", at)'
    BY <1>3, <1>5, <2>1, DecidedLast
  <2>3. \A start, end, time : start # "promoted" /\ DecidedAt(id, start, end, time) =>
           DecidedAt(id, start, end, time)'
    BY <1>3, <1>5, <2>1, DecidedLast
  <2>4. \A t : (\E i \in DOMAIN proposals[id].transitions : proposals[id].transitions[i] = t) =>
           \E i \in DOMAIN proposals'[id].transitions : proposals'[id].transitions[i] = t
    <3>1. proposals[id].transitions \in Seq(Transition)
      BY <1>5 DEF Proposal, Transition
    <3>2. [from |-> "promoted", to |-> "rolled-back", at |-> at] \in Transition
      BY Lifecycles DEF Transition
    <3> QED
      BY <2>1, <3>1, <3>2, AppendProperties
  <2> QED
    BY <2>2, <2>3, <2>4
<1>9. Kept(id, "promotion")
  BY <1>2, <1>6, <1>8 DEF Kept, WithPromotion
<1>10. \A i \in 1..Len(auditRecords) : auditRecords[i].proposal = id =>
         (auditRecords[i].kind \in Decision => Kept(id, auditRecords[i].kind))
  <2> SUFFICES ASSUME NEW i \in 1..Len(auditRecords), auditRecords[i].proposal = id,
                      auditRecords[i].kind \in Decision
               PROVE  Kept(id, auditRecords[i].kind)
    OBVIOUS
  <2>1. auditRecords[i].kind = "promotion"
    BY <1>3, DecisionRecorded, Decisions
  <2> QED
    BY <1>9, <2>1
<1>11. r.active # Null => PriorPromotion(e, r.active, TargetKeyOf[id])'
  <2> SUFFICES ASSUME NEW before, before = r.active, before # Null
               PROVE  PriorPromotion(e, before, TargetKeyOf[id])'
    OBVIOUS
  <2>1. before \in Standing /\ TargetKeyOf[before] = TargetKeyOf[id]
    BY <1>2, <1>5 DEF OrderInv, ChainInv, SameTarget
  <2>2. e.promoted[before] # Null /\ before \in ProposalId /\ proposals[before] # Null
    BY <1>4, <2>1, PriorThere DEF Standing, Existing, Exists
  <2>3. Exists(before)'
    BY <1>6, <2>2 DEF Exists
  <2> QED
    BY <2>1, <2>2, <2>3 DEF PriorPromotion
<1>12. RollbackFits(e, r)'
  BY <1>2, <1>3, <1>7, <1>8, <1>11 DEF RollbackFits
<1>13. Fits(e, r)'
  <2>1. command # Null => command \notin e.commands
    BY <1>3, <1>4, FreeCommand
  <2> QED
    BY <1>2, <1>6, <1>7, <1>12, <2>1 DEF Fits, Exists
<1>14. PICK f : f = Replayed(e, r)
  OBVIOUS
<1>15. Adds(e, r, id, f)
  BY <1>2, <1>5, <1>14, ReplayedFields DEF EndsAs
<1>16. /\ f.archived[id] = p.archivedAt /\ f.decided[id] = DecisionsOf(p.status)
       /\ \A x \in ProposalId : f.promoted[x] = e.promoted[x]
       /\ \A key \in TargetKey : f.active[key] = IF key = TargetKeyOf[id] THEN r.active ELSE e.active[key]
  <2>1. Exists(id) /\ r.kind \notin Marker
    BY <1>2, <1>3 DEF Marker
  <2>2. f.archived[id] = e.archived[id] /\ f.decided[id] = e.decided[id] \union {"rollback"}
    BY <1>2, <1>15, <2>1 DEF Adds
  <2>3. f.archived[id] = p.archivedAt /\ f.decided[id] = DecisionsOf(p.status)
    BY <1>2, <1>7, <2>2, Decisions
  <2>4. \A x \in ProposalId : f.promoted[x] = e.promoted[x]
    BY <1>2, <1>15, <2>1 DEF Adds
  <2>5. \A key \in TargetKey : f.active[key] = IF key = TargetKeyOf[id] THEN r.active ELSE e.active[key]
    BY <1>2, <1>15, <2>1 DEF Adds
  <2> QED
    BY <2>3, <2>4, <2>5
<1>17. /\ \A x \in ProposalId : promotionRecords'[x] = f.promoted[x]
       /\ \A key \in TargetKey : activeByTarget'[key] = f.active[key]
  <2>1. \A key \in TargetKey :
          activeByTarget'[key] = IF key = TargetKeyOf[id] THEN r.active ELSE activeByTarget[key]
    BY <1>2 DEF OrderInv, CatalogTypeOK
  <2>2. /\ \A x \in ProposalId : promotionRecords[x] = e.promoted[x]
        /\ \A key \in TargetKey : activeByTarget[key] = e.active[key]
    BY <1>5 DEF EndsAs
  <2> QED
    BY <1>2, <1>16, <2>1, <2>2
<1>18. \A pr : pr = promotionRecords'[id] /\ pr # Null => Matches(pr, id)'
  <2> SUFFICES ASSUME NEW pr, pr = promotionRecords[id] PROVE Matches(pr, id)'
    BY <1>2
  <2>1. Matches(pr, id)
    BY <1>3, <1>5 DEF EndsAs
  <2> QED
    BY <1>2, <1>6, <1>8, <2>1, SMTT(40) DEF Matches, WithPromotion
<1>19. StillFit(id)
  BY <1>3, <1>10 DEF StillFit
<1>20. FitsNext(id, p, r, e, f)
  BY <1>2, <1>3, <1>4, <1>13, <1>14 DEF FitsNext
<1>21. Follows(id, p, f)
  BY <1>2, <1>16, <1>17, <1>18 DEF Follows
<1> QED
  BY <1>19, <1>20, <1>21, OpensRecorded

\* An archival or its end fits the audit: it follows the one before it in turn.
LEMMA ArchiveOpens ==
  ASSUME OrderInv, OrderInv', ParseInv', CountInv', Opens, NEW id \in ProposalId,
         NEW at \in Instant, Archive(id, at) \/ Unarchive(id, at)
  PROVE  Opens'
<1>1. PICK mark \in Instant \union {Null}, r \in AuditRecord, p \in Proposal : Marks(id, mark, at, r, p)
  BY ArchiveTypes
<1>2. /\ Exists(id) /\ r.kind = (IF mark = Null THEN "unarchive" ELSE "archive")
      /\ r.kind \in {"archive", "unarchive"}
      /\ r.proposal = id /\ r.at = at /\ r.command = Null
      /\ mark # Null => mark = at /\ proposals[id].archivedAt = Null
      /\ mark = Null => proposals[id].archivedAt # Null
      /\ CommitProposal(id, p) /\ Appended(r) /\ Unadorned
      /\ p.status = proposals[id].status /\ p.evaluation = proposals[id].evaluation
      /\ p.promotion = proposals[id].promotion /\ p.archivedAt = mark
      /\ p.transitions = proposals[id].transitions
  BY <1>1 DEF Marks
<1>3. PICK e : e = ReplayOfAudit
  OBVIOUS
<1>4. EndsAs(e) /\ id \in Existing
  BY <1>2, <1>3, OpensMeans DEF Existing
<1>5. /\ proposals'[id] = p /\ p # Null
      /\ promotionRecords' = promotionRecords /\ activeByTarget' = activeByTarget
  BY <1>2, Committed, NullAssumption DEF OrderInv, Unadorned
<1>6. e.decided[id] = DecisionsOf(proposals[id].status) /\ e.archived[id] = proposals[id].archivedAt
  BY <1>4 DEF EndsAs
<1>7. \A kind : Kept(id, kind)
  <2>1. \A from, to, time : DecidedAt(id, from, to, time) => DecidedAt(id, from, to, time)'
    BY <1>2, <1>5 DEF DecidedAt
  <2> QED
    BY <1>2, <1>5, <2>1 DEF Kept
<1>8. r.kind \notin e.decided[id]
  <2>1. proposals[id].status \in Lifecycle
    BY <1>2, EvaluatedProposal DEF Proposal
  <2> QED
    BY <1>2, <1>6, <2>1, Decisions, Lifecycles
<1>9. Fits(e, r)'
  BY <1>2, <1>5, <1>6, <1>8 DEF Fits, Exists
<1>10. PICK f : f = Replayed(e, r)
  OBVIOUS
<1>11. Adds(e, r, id, f)
  BY <1>2, <1>4, <1>10, ReplayedFields DEF EndsAs
<1>12. /\ f.archived[id] = p.archivedAt /\ f.decided[id] = DecisionsOf(p.status)
       /\ \A x \in ProposalId : f.promoted[x] = e.promoted[x]
       /\ \A key \in TargetKey : f.active[key] = e.active[key]
  <2>1. r.kind \in Marker /\ r.kind # "promotion" /\ r.kind # "rollback"
    BY <1>2 DEF Marker
  <2>2. f.archived[id] = p.archivedAt
    BY <1>2, <1>11, <2>1 DEF Adds
  <2>3. f.decided[id] = DecisionsOf(p.status)
    BY <1>2, <1>6, <1>11, <2>1 DEF Adds
  <2> QED
    BY <1>2, <1>11, <2>1, <2>2, <2>3 DEF Adds
<1>13. /\ \A x \in ProposalId : promotionRecords'[x] = f.promoted[x]
       /\ \A key \in TargetKey : activeByTarget'[key] = f.active[key]
  BY <1>4, <1>5, <1>12 DEF EndsAs
<1>14. \A pr : pr = promotionRecords'[id] /\ pr # Null => Matches(pr, id)'
  <2> SUFFICES ASSUME NEW pr, pr = promotionRecords[id], pr # Null PROVE Matches(pr, id)'
    BY <1>5
  <2>1. Matches(pr, id)
    BY <1>4 DEF EndsAs
  <2> QED
    BY <1>2, <1>5, <2>1 DEF Matches
<1>15. \A i \in 1..Len(auditRecords) : auditRecords[i].proposal = id =>
         Exists(id) /\ (auditRecords[i].kind \in Decision => Kept(id, auditRecords[i].kind))
  BY <1>2, <1>7
<1>16. /\ \A x \in ProposalId : x # id => promotionRecords'[x] = promotionRecords[x]
       /\ CommitProposal(id, p) /\ Exists(id) /\ r.proposal = id /\ Appended(r)
  BY <1>2, <1>5
<1>17. StillFit(id)
  BY <1>15 DEF StillFit
<1>18. FitsNext(id, p, r, e, f)
  BY <1>3, <1>9, <1>10, <1>16 DEF FitsNext
<1>19. Follows(id, p, f)
  BY <1>12, <1>13, <1>14, <1>16 DEF Follows
<1> QED
  BY <1>17, <1>18, <1>19, OpensRecorded

-----------------------------------------------------------------------------
(***************************************************************************)
(* A deletion: the audit replays without the proposal.                     *)
(***************************************************************************)
\* What the replay makes of the audit without one proposal.
Without(id, a, b) ==
  /\ b \in ReplayState /\ b.ok
  /\ \A x \in ProposalId : b.promoted[x] = a.promoted[x]
  /\ \A key \in TargetKey : b.active[key] = a.active[key]
  /\ b.commands \subseteq a.commands
  /\ \A x \in ProposalId : x # id =>
       b.archived[x] = a.archived[x] /\ b.decided[x] = a.decided[x] /\ b.trail[x] = a.trail[x]

\* The marker at a place of a trail.
MarkerAt(k) == IF k % 2 = 0 THEN "archive" ELSE "unarchive"

\* The trail a rejected proposal will leave, as far as the records go.
Unmet(n, id) == \A i \in 1..n : auditRecords[i].proposal # id
\* The first record of the proposal is not its rejection.
ArchivedFirst(n, id) ==
  \E i \in 1..n : /\ auditRecords[i].proposal = id /\ auditRecords[i].kind # "rejection"
                  /\ \A j \in 1..i - 1 : auditRecords[j].proposal # id
\* The trail so far is empty, or was archived before the rejection, or is a valid one.
TrailSoFar(n, id, trail, a) ==
  \/ Unmet(n, id) /\ trail = <<>> /\ a.archived[id] = Null /\ a.decided[id] = {}
  \/ ArchivedFirst(n, id)
  \/ /\ trail # <<>> /\ trail[1] = "rejection" /\ "rejection" \in a.decided[id]
     /\ \A k \in 2..Len(trail) : trail[k] = MarkerAt(k)
     /\ a.archived[id] = Null <=> Len(trail) % 2 = 1

\* ReplayedFields, with the next replay named.
LEMMA ReplayedGives ==
  \A replay \in ReplayState, record \in AuditRecord : \A next :
    next = Replayed(replay, record) => Adds(replay, record, record.proposal, next)
BY ReplayedFields

\* The same of the next state.
LEMMA ReplayedGivesNext ==
  (\A replay \in ReplayState, record \in AuditRecord : \A next :
    next = Replayed(replay, record) => Adds(replay, record, record.proposal, next))'
BY ReplayedGives, PTL

\* A record of another proposal.
LEMMA WithoutElsewhere ==
  ASSUME NEW id \in ProposalId, NEW a \in ReplayState, NEW b, Without(id, a, b),
         \A x \in ProposalId : x # id => proposals'[x] = proposals[x], a.promoted[id] = Null,
         NEW r \in AuditRecord, r.proposal # id, Fits(a, r), NEW c, c = Replayed(a, r),
         NEW d, d = ReplayStep(b, r)'
  PROVE  Without(id, c, d) /\ d.trail[id] = b.trail[id]
<1>1. PICK y \in ProposalId : y = r.proposal
  BY DEF AuditRecord
<1>2. y # id /\ (Exists(y)' <=> Exists(y)) /\ b \in ReplayState /\ b.ok
  BY <1>1 DEF Exists, Without
<1>3. Fits(b, r)'
  BY <1>1, FitsElsewhere DEF Without
<1>4. d = Replayed(b, r)'
  BY <1>2, <1>3 DEF ReplayStep
<1>5. Adds(a, r, y, c)
  BY <1>1, ReplayedGives
<1>6. Adds(b, r, y, d)'
  BY <1>1, <1>2, <1>4, ReplayedGivesNext
<1>7. d \in ReplayState /\ d.ok
  BY <1>2, <1>6 DEF Adds
<1>8. ASSUME NEW x \in ProposalId PROVE d.promoted[x] = c.promoted[x]
  <2>1. b.promoted[x] = a.promoted[x]
    BY DEF Without
  <2>2. c.promoted[x] = IF x = y /\ Exists(y) /\ r.kind = "promotion" THEN r ELSE a.promoted[x]
    BY <1>5 DEF Adds
  <2>3. d.promoted[x] = IF x = y /\ Exists(y)' /\ r.kind = "promotion" THEN r ELSE b.promoted[x]
    BY <1>6 DEF Adds
  <2> QED
    BY <1>2, <2>1, <2>2, <2>3
<1>9. \A key \in TargetKey : d.active[key] = c.active[key]
  BY <1>2, <1>5, <1>6 DEF Adds, Without
<1>10. d.commands \subseteq c.commands
  BY <1>2, <1>5, <1>6 DEF Adds, Without
<1>11. ASSUME NEW x \in ProposalId, x # id
       PROVE  d.archived[x] = c.archived[x] /\ d.decided[x] = c.decided[x] /\ d.trail[x] = c.trail[x]
  <2>1. b.archived[x] = a.archived[x] /\ b.decided[x] = a.decided[x] /\ b.trail[x] = a.trail[x]
    BY <1>11 DEF Without
  <2>2. d.trail[x] = c.trail[x]
    <3>1. c.trail[x] = IF x = y /\ ~Exists(y) THEN Append(a.trail[x], r.kind) ELSE a.trail[x]
      BY <1>5 DEF Adds
    <3>2. d.trail[x] = IF x = y /\ ~Exists(y)' THEN Append(b.trail[x], r.kind) ELSE b.trail[x]
      BY <1>6 DEF Adds
    <3> QED
      BY <1>2, <2>1, <3>1, <3>2
  <2>3. d.archived[x] = c.archived[x]
    BY <1>2, <1>5, <1>6, <2>1, ZenonT(40) DEF Adds
  <2>4. d.decided[x] = c.decided[x]
    <3>1. c.decided[x] = IF x = y /\ Exists(y) /\ r.kind \notin Marker
                         THEN a.decided[x] \union {r.kind} ELSE a.decided[x]
      BY <1>5 DEF Adds
    <3>2. d.decided[x] = IF x = y /\ Exists(y)' /\ r.kind \notin Marker
                         THEN b.decided[x] \union {r.kind} ELSE b.decided[x]
      BY <1>6 DEF Adds
    <3> QED
      BY <1>2, <2>1, <3>1, <3>2
  <2> QED
    BY <2>2, <2>3, <2>4
<1>12. d.trail[id] = b.trail[id]
  BY <1>2, <1>6 DEF Adds
<1> QED
  BY <1>7, <1>8, <1>9, <1>10, <1>11, <1>12 DEF Without

\* A record of the proposal itself.
LEMMA WithoutHere ==
  ASSUME NEW id \in ProposalId, NEW a \in ReplayState, NEW b, Without(id, a, b), ~Exists(id)',
         NEW r \in AuditRecord, r.proposal = id, r.kind \in Retained,
         NEW c, \/ c = Replayed(a, r)
                \/ r.kind = "delete" /\ c = a,
         NEW d, d = ReplayStep(b, r)'
  PROVE  Without(id, c, d) /\ d.trail[id] = Append(b.trail[id], r.kind)
<1>1. Fits(b, r)' /\ b \in ReplayState /\ b.ok
  BY DEF Fits, Without
<1>2. d = Replayed(b, r)'
  BY <1>1 DEF ReplayStep
<1>3. Adds(b, r, id, d)'
  BY <1>1, <1>2, ReplayedGivesNext
<1>4. Adds(a, r, id, c) \/ c = a
  BY ReplayedGives
<1>5. r.kind # "promotion" /\ r.kind # "rollback"
  BY DEF Retained
<1>6. d \in ReplayState /\ d.ok
  BY <1>1, <1>3 DEF Adds
<1>7. /\ \A x \in ProposalId : c.promoted[x] = a.promoted[x]
      /\ \A key \in TargetKey : c.active[key] = a.active[key]
      /\ a.commands \subseteq c.commands
      /\ \A x \in ProposalId : x # id =>
           c.archived[x] = a.archived[x] /\ c.decided[x] = a.decided[x] /\ c.trail[x] = a.trail[x]
  BY <1>4, <1>5 DEF Adds
<1>8. /\ \A x \in ProposalId : d.promoted[x] = b.promoted[x]
      /\ \A key \in TargetKey : d.active[key] = b.active[key]
      /\ d.commands = b.commands
      /\ \A x \in ProposalId : x # id =>
           d.archived[x] = b.archived[x] /\ d.decided[x] = b.decided[x] /\ d.trail[x] = b.trail[x]
      /\ d.trail[id] = Append(b.trail[id], r.kind)
  BY <1>3, <1>5 DEF Adds
<1> QED
  BY <1>6, <1>7, <1>8 DEF Without

\* How the trail grows by a record of the proposal.
LEMMA TrailGrows ==
  ASSUME CatalogTypeOK, NEW id \in ProposalId, Exists(id), NEW L, L = Len(auditRecords),
         NEW n \in 0..L, n < L,
         NEW r \in AuditRecord, r = auditRecords[n + 1], r.proposal = id,
         r.kind \in {"rejection", "archive", "unarchive"},
         NEW a \in ReplayState, Fits(a, r), NEW c, c = Replayed(a, r),
         NEW trail \in Seq(Kind), TrailSoFar(n, id, trail, a)
  PROVE  TrailSoFar(n + 1, id, Append(trail, r.kind), c)
<1>1. L \in Nat /\ n \in Nat /\ n + 1 \in 1..n + 1 /\ 1..n \subseteq 1..n + 1 /\ (n + 1) - 1 = n
  BY DEF CatalogTypeOK
<1>2. Adds(a, r, id, c) /\ r.at \in Instant /\ r.at # Null
  BY ReplayedGives, NullAssumption DEF AuditRecord
<1>3. /\ c.archived[id] = IF r.kind = "archive" THEN r.at
                          ELSE IF r.kind = "unarchive" THEN Null ELSE a.archived[id]
      /\ c.decided[id] = IF r.kind = "rejection" THEN a.decided[id] \union {"rejection"} ELSE a.decided[id]
  BY <1>2 DEF Adds, Marker
<1>4. /\ r.kind = "archive" => a.archived[id] = Null
      /\ r.kind = "unarchive" => a.archived[id] # Null
      /\ r.kind \notin a.decided[id]
  BY DEF Fits
<1>5. PICK l \in Nat : l = Len(trail)
  OBVIOUS
<1>6. PICK next : next = Append(trail, r.kind)
  OBVIOUS
<1>7. /\ next \in Seq(Kind) /\ Len(next) = l + 1 /\ next[l + 1] = r.kind /\ next # <<>>
      /\ \A k \in 1..l : next[k] = trail[k]
  <2>1. r.kind \in Kind
    BY DEF Kind, Decision
  <2> QED
    BY <1>5, <1>6, <2>1, AppendProperties
<1>8. CASE ArchivedFirst(n, id)
  <2>1. ArchivedFirst(n + 1, id)
    BY <1>1, <1>8 DEF ArchivedFirst
  <2> QED
    BY <2>1 DEF TrailSoFar
<1>9. CASE Unmet(n, id) /\ trail = <<>> /\ a.archived[id] = Null /\ a.decided[id] = {}
  <2>1. CASE r.kind = "rejection"
    <3>1. l = 0 /\ Len(next) = 1 /\ next[1] = "rejection"
      BY <1>5, <1>7, <1>9, <2>1
    <3>2. "rejection" \in c.decided[id] /\ c.archived[id] = Null
      BY <1>3, <1>9, <2>1
    <3>3. 2..Len(next) = {} /\ Len(next) % 2 = 1
      BY <3>1
    <3> QED
      BY <1>6, <1>7, <3>1, <3>2, <3>3 DEF TrailSoFar
  <2>2. CASE r.kind # "rejection"
    <3>1. ArchivedFirst(n + 1, id)
      BY <1>1, <1>9, <2>2 DEF ArchivedFirst, Unmet
    <3> QED
      BY <3>1 DEF TrailSoFar
  <2> QED
    BY <2>1, <2>2
<1>10. CASE /\ trail # <<>> /\ trail[1] = "rejection" /\ "rejection" \in a.decided[id]
            /\ \A k \in 2..Len(trail) : trail[k] = MarkerAt(k)
            /\ a.archived[id] = Null <=> Len(trail) % 2 = 1
  <2>1. r.kind # "rejection" /\ "rejection" \in c.decided[id]
    BY <1>3, <1>4, <1>10
  <2>2. l >= 1 /\ next[1] = "rejection"
    BY <1>5, <1>7, <1>10
  <2>3. r.kind = "archive" <=> l % 2 = 1
    BY <1>4, <1>5, <1>10, <2>1
  <2>4. (l % 2 = 1 <=> (l + 1) % 2 = 0) /\ ((l + 1) % 2 = 1 <=> l % 2 # 1)
    BY <1>5
  <2>5. next[l + 1] = MarkerAt(l + 1)
    BY <1>7, <2>1, <2>3, <2>4 DEF MarkerAt
  <2>6. \A k \in 2..Len(next) : next[k] = MarkerAt(k)
    <3> SUFFICES ASSUME NEW k \in 2..l + 1 PROVE next[k] = MarkerAt(k)
      BY <1>7
    <3>1. CASE k = l + 1
      BY <2>5, <3>1
    <3>2. CASE k # l + 1
      <4>1. k \in 2..l /\ k \in 1..l
        BY <3>2
      <4> QED
        BY <1>5, <1>7, <1>10, <4>1
    <3> QED
      BY <3>1, <3>2
  <2>7. c.archived[id] = Null <=> Len(next) % 2 = 1
    BY <1>2, <1>3, <1>7, <2>1, <2>3, <2>4
  <2> QED
    BY <1>6, <1>7, <2>1, <2>2, <2>6, <2>7 DEF TrailSoFar
<1> QED
  BY <1>8, <1>9, <1>10 DEF TrailSoFar

\* The whole of the audit, without the deleted proposal.
LEMMA AuditWithout ==
  ASSUME CatalogTypeOK, CatalogTypeOK', Replays, NEW h, h = ReplayedAfter,
         NEW L, L = Len(auditRecords), Len(auditRecords') = L + 1,
         \A i \in 1..L : auditRecords'[i] = auditRecords[i],
         NEW id \in ProposalId, Exists(id), ~Exists(id)',
         \A x \in ProposalId : x # id => proposals'[x] = proposals[x],
         \A n \in 0..L : h[n].promoted[id] = Null,
         \A i \in 1..L : auditRecords[i].proposal = id =>
           auditRecords[i].kind \in {"rejection", "archive", "unarchive"},
         NEW g, g = ReplayedAfter'
  PROVE  \A n \in 0..L : Without(id, h[n], g[n]) /\ TrailSoFar(n, id, g[n].trail[id], h[n])
<1> DEFINE S == {n \in 0..L : Without(id, h[n], g[n]) /\ TrailSoFar(n, id, g[n].trail[id], h[n])}
<1>1. L \in Nat
  BY DEF CatalogTypeOK
<1>2. 0 \in S
  <2>1. g[0] = Replay /\ h[0] = Replay
    <3>1. ReplayedAfter'[0] = Replay' /\ Replay' = Replay
      BY StepsFromNext DEF Replay
    <3> QED
      BY <3>1 DEF Replays
  <2>2. Without(id, Replay, Replay)
    BY ReplayFields DEF Without
  <2>3. TrailSoFar(0, id, Replay.trail[id], Replay)
    <3>1. Unmet(0, id)
      BY DEF Unmet
    <3>2. Replay.trail[id] = <<>> /\ Replay.archived[id] = Null /\ Replay.decided[id] = {}
      BY ReplayFields
    <3> QED
      BY <3>1, <3>2 DEF TrailSoFar
  <2> QED
    BY <1>1, <2>1, <2>2, <2>3
<1>3. ASSUME NEW n \in 0..L, n < L, n \in S PROVE n + 1 \in S
  <2>1. n + 1 \in 0..L /\ auditRecords[n + 1] \in AuditRecord /\ n + 1 \in 1..L
    BY <1>1, <1>3, Between
  <2>2. PICK r \in AuditRecord : r = auditRecords[n + 1]
    BY <2>1
  <2>3. PICK a : a = h[n]
    OBVIOUS
  <2>4. PICK b : b = g[n]
    OBVIOUS
  <2>5. PICK c : c = h[n + 1]
    OBVIOUS
  <2>6. PICK d : d = g[n + 1]
    OBVIOUS
  <2>7. a \in ReplayState /\ Fits(a, r) /\ c = Replayed(a, r)
    BY <1>3, <2>1, <2>2, <2>3, <2>5 DEF Replays
  <2>8. Without(id, a, b) /\ TrailSoFar(n, id, b.trail[id], a) /\ a.promoted[id] = Null
    BY <1>3, <2>3, <2>4
  <2>9. d = ReplayStep(b, r)'
    <3>1. /\ n \in 0..Len(auditRecords') /\ n + 1 \in 0..Len(auditRecords')
          /\ auditRecords'[n + 1] = r
      BY <1>1, <2>1, <2>2
    <3> QED
      BY <2>4, <2>6, <3>1, StepsFromNext
  <2>10. CASE r.proposal # id
    <3>1. Without(id, c, d) /\ d.trail[id] = b.trail[id]
      BY <2>7, <2>8, <2>9, <2>10, WithoutElsewhere
    <3>2. c.archived[id] = a.archived[id] /\ c.decided[id] = a.decided[id]
      <4>1. Adds(a, r, r.proposal, c)
        BY <2>7, ReplayedGives
      <4> QED
        BY <2>10, <4>1 DEF Adds
    <3>3. 1..n + 1 = 1..n \union {n + 1}
      BY <1>1
    <3>4. TrailSoFar(n + 1, id, d.trail[id], c)
      BY <2>2, <2>8, <2>10, <3>1, <3>2, <3>3 DEF TrailSoFar, Unmet, ArchivedFirst
    <3> QED
      BY <2>1, <2>5, <2>6, <3>1, <3>4
  <2>11. CASE r.proposal = id
    <3>1. r.kind \in {"rejection", "archive", "unarchive"} /\ r.kind \in Retained
      BY <2>1, <2>2, <2>11 DEF Retained
    <3>2. Without(id, c, d) /\ d.trail[id] = Append(b.trail[id], r.kind)
      BY <2>7, <2>8, <2>9, <2>11, <3>1, WithoutHere, SMTT(40)
    <3>3. b.trail[id] \in Seq(Kind)
      BY <2>8 DEF Without, ReplayState
    <3>4. TrailSoFar(n + 1, id, Append(b.trail[id], r.kind), c)
      BY <1>3, <2>2, <2>7, <2>8, <2>11, <3>1, <3>3, TrailGrows
    <3> QED
      BY <2>1, <2>5, <2>6, <3>2, <3>4
  <2> QED
    BY <2>10, <2>11
<1> HIDE DEF S
<1>4. \A n \in 0..L : n \in S
  <2>1. \A n \in 0..L : n < L /\ n \in S => n + 1 \in S
    BY <1>3
  <2> QED
    BY <1>1, <1>2, <2>1, Climb
<1> QED
  BY <1>4 DEF S

\* A trail so far with its tombstone is valid.
LEMMA TrailEnds ==
  ASSUME NEW trail \in Seq(Kind), trail # <<>>, trail[1] = "rejection",
         \A k \in 2..Len(trail) : trail[k] = MarkerAt(k)
  PROVE  TrailIsValid(Append(trail, "delete"))
<1>1. PICK l \in Nat : l = Len(trail)
  OBVIOUS
<1>2. PICK next : next = Append(trail, "delete")
  OBVIOUS
<1>3. /\ next \in Seq(Kind) /\ Len(next) = l + 1 /\ next[l + 1] = "delete"
      /\ \A k \in 1..l : next[k] = trail[k]
  <2>1. "delete" \in Kind
    BY DEF Kind
  <2> QED
    BY <1>1, <1>2, <2>1, AppendProperties
<1>4. l >= 1 /\ next[1] = "rejection" /\ DOMAIN next = 1..l + 1
  BY <1>1, <1>3
<1>5. \A k \in 2..l : next[k] = MarkerAt(k)
  <2>1. \A k \in 2..l : k \in 1..l
    OBVIOUS
  <2> QED
    BY <1>1, <1>3, <2>1
<1>6. {i \in DOMAIN next : next[i] \in {"archive", "unarchive"}} = 2..(l + 1) - 1
  <2>1. \A i \in 2..l : next[i] \in {"archive", "unarchive"}
    BY <1>5 DEF MarkerAt
  <2>2. \A i \in 1..l + 1 : i \in 2..l \/ i = 1 \/ i = l + 1
    OBVIOUS
  <2>3. 2..(l + 1) - 1 = 2..l /\ \A i \in 2..l : i \in 1..l + 1
    OBVIOUS
  <2> QED
    BY <1>3, <1>4, <2>1, <2>2, <2>3
<1>7. \A i \in 2..(l + 1) - 1 : next[i] = IF i % 2 = 0 THEN "archive" ELSE "unarchive"
  <2>1. 2..(l + 1) - 1 = 2..l
    OBVIOUS
  <2> QED
    BY <1>5, <2>1 DEF MarkerAt
<1>8. TrailIsValid(next)
  BY <1>3, <1>4, <1>6, <1>7 DEF TrailIsValid
<1> QED
  BY <1>2, <1>8

\* A deletion leaves a document that opens, or the exception.
LEMMA DeleteProposalOpens ==
  ASSUME OrderInv, OrderInv', ParseInv', CountInv', Opens, NEW id \in ProposalId,
         NEW at \in Instant, DeleteProposal(id, at)
  PROVE  Opens' \/ (Tombstoned(id) /\ ArchivedBeforeRejection(id))'
<1>1. PICK r : r = Record("delete", id, at)
  OBVIOUS
<1>2. /\ r \in AuditRecord /\ r.kind = "delete" /\ r.proposal = id
      /\ Exists(id) /\ proposals[id].status = "rejected" /\ id \in Existing
      /\ CommitProposal(id, Null) /\ Appended(r) /\ Unadorned
  BY <1>1, NewRecord DEF DeleteProposal, Existing
<1>3. PICK e : e = ReplayOfAudit
  OBVIOUS
<1>4. PICK h : h = ReplayedAfter
  OBVIOUS
<1>5. PICK g : g = ReplayedAfter'
  OBVIOUS
<1>6. PICK L : L = Len(auditRecords)
  OBVIOUS
<1>7. /\ Replays /\ EndsAs(e) /\ CatalogTypeOK /\ CatalogTypeOK' /\ L \in Nat /\ L \in 0..L
      /\ DOMAIN auditRecords = 1..L /\ e = h[L]
      /\ \A n \in 0..L : Tells(h[n], n)
  BY <1>3, <1>4, <1>6, OpensMeans, ReplayTells DEF OrderInv, CatalogTypeOK, ReplayOfAudit
<1>8. /\ proposals'[id] = Null /\ \A x \in ProposalId : x # id => proposals'[x] = proposals[x]
      /\ ~Exists(id)' /\ promotionRecords' = promotionRecords /\ activeByTarget' = activeByTarget
  BY <1>2, <1>7, Committed DEF Unadorned, Exists
<1>9. /\ Len(auditRecords') = L + 1 /\ auditRecords'[L + 1] = r /\ DOMAIN auditRecords' = 1..L + 1
      /\ \A i \in 1..L : auditRecords'[i] = auditRecords[i]
  BY <1>2, <1>6, <1>7, AppendedRecord
<1>10. ASSUME NEW i \in 1..L, auditRecords[i].proposal = id
       PROVE  auditRecords[i].kind \in {"rejection", "archive", "unarchive"}
  <2>1. auditRecords[i].kind \in Decision => auditRecords[i].kind = "rejection"
    BY <1>2, <1>6, <1>10, Decisions, DecisionRecorded
  <2>2. auditRecords[i].kind \in Decision \union {"archive", "unarchive", "delete"}
    BY <1>6, <1>7, RecordFields DEF AuditRecord
  <2>3. auditRecords[i].kind # "delete"
    <3>1. i - 1 \in 0..L /\ i \in 0..L /\ i = (i - 1) + 1
      BY <1>7
    <3>2. Fits(ReplayedAfter[i - 1], auditRecords[i])
      BY <1>6, <1>7, <3>1 DEF Replays
    <3> QED
      BY <1>2, <1>10, <3>2 DEF Fits
  <2> QED
    BY <2>1, <2>2, <2>3
<1>11. ASSUME NEW n \in 0..L PROVE h[n].promoted[id] = Null
  <2> SUFFICES ASSUME h[n].promoted[id] # Null PROVE FALSE
    OBVIOUS
  <2>1. PICK i \in 1..n : auditRecords[i].proposal = id /\ auditRecords[i].kind = "promotion"
    BY <1>7, <1>11 DEF Tells
  <2>2. i \in 1..L
    BY <1>7
  <2> QED
    BY <1>10, <2>1, <2>2
<1>12. PICK b : b = g[L]
  OBVIOUS
<1>13. Without(id, e, b) /\ TrailSoFar(L, id, b.trail[id], e)
  <2>1. \A n \in 0..L : Without(id, h[n], g[n]) /\ TrailSoFar(n, id, g[n].trail[id], h[n])
    BY <1>2, <1>4, <1>5, <1>6, <1>7, <1>8, <1>9, <1>10, <1>11, AuditWithout
  <2> QED
    BY <1>7, <1>12, <2>1
<1>14. PICK f : f = g[L + 1]
  OBVIOUS
<1>15. f = ReplayStep(b, r)'
  <2>1. L \in 0..Len(auditRecords') /\ L + 1 \in 0..Len(auditRecords')
    BY <1>7, <1>9
  <2> QED
    BY <1>5, <1>7, <1>9, <1>12, <1>14, <2>1, StepsFromNext
<1>16. Without(id, e, f) /\ f.trail[id] = Append(b.trail[id], "delete")
  <2>1. e \in ReplayState /\ "delete" \in Retained
    BY <1>7 DEF EndsAs, Retained
  <2> QED
    BY <1>2, <1>8, <1>13, <1>15, <2>1, WithoutHere
<1>17. f = ReplayOfAudit'
  BY <1>5, <1>9, <1>14 DEF ReplayOfAudit
<1>18. CASE ArchivedFirst(L, id)
  <2>1. PICK i \in 1..L : /\ auditRecords[i].proposal = id /\ auditRecords[i].kind # "rejection"
                          /\ \A j \in 1..i - 1 : auditRecords[j].proposal # id
    BY <1>18 DEF ArchivedFirst
  <2>2. i \in 1..L + 1 /\ L + 1 \in 1..L + 1 /\ \A j \in 1..i - 1 : j \in 1..L
    BY <1>7
  <2>3. ArchivedBeforeRejection(id)'
    BY <1>9, <2>1, <2>2 DEF ArchivedBeforeRejection
  <2>4. Tombstoned(id)'
    BY <1>2, <1>9, <2>2 DEF Tombstoned
  <2> QED
    BY <2>3, <2>4
<1>19. CASE ~ArchivedFirst(L, id)
  <2>1. e.decided[id] = {"rejection"}
    BY <1>2, <1>7, Decisions DEF EndsAs
  <2>2. TrailIsValid(f.trail[id])
    <3>1. /\ b.trail[id] # <<>> /\ b.trail[id][1] = "rejection" /\ b.trail[id] \in Seq(Kind)
          /\ \A k \in 2..Len(b.trail[id]) : b.trail[id][k] = MarkerAt(k)
      BY <1>13, <1>19, <2>1 DEF TrailSoFar, Without, ReplayState
    <3> QED
      BY <1>16, <3>1, TrailEnds
  <2>3. \A x \in ProposalId : f.trail[x] # <<>> => TrailIsValid(f.trail[x])
    <3>1. \A x \in ProposalId : x # id /\ f.trail[x] # <<>> => TrailIsValid(f.trail[x])
      BY <1>7, <1>16 DEF EndsAs, Without
    <3> QED
      BY <2>2, <3>1
  <2>4. ASSUME NEW x \in ProposalId, NEW pr, pr = promotionRecords'[x], pr # Null
        PROVE  Exists(x)' /\ Matches(pr, x)'
    <3>1. Exists(x) /\ Matches(pr, x)
      BY <1>7, <1>8, <2>4 DEF EndsAs
    <3>2. x # id
      BY <1>2, <3>1 DEF Matches, WithPromotion
    <3> QED
      BY <1>8, <3>1, <3>2 DEF Exists, Matches
  <2>5. \A x \in ProposalId : promotionRecords'[x] # Null => (Exists(x) /\ Matches(promotionRecords[x], x))'
    <3>1. \A x \in ProposalId : \A pr : pr = promotionRecords'[x] /\ pr # Null => Exists(x)' /\ Matches(pr, x)'
      BY <2>4
    <3> QED
      BY <3>1
  <2>6. ASSUME NEW x \in Existing'
        PROVE  f.archived[x] = proposals'[x].archivedAt /\ f.decided[x] = DecisionsOf(proposals'[x].status)
    <3>1. x \in ProposalId /\ proposals'[x] # Null
      BY DEF Existing, Exists
    <3>2. x # id /\ x \in Existing /\ proposals'[x] = proposals[x]
      BY <1>8, <3>1 DEF Existing, Exists
    <3> QED
      BY <1>7, <1>16, <3>1, <3>2 DEF EndsAs, Without
  <2>7. /\ \A x \in ProposalId : promotionRecords'[x] = f.promoted[x]
        /\ \A key \in TargetKey : activeByTarget'[key] = f.active[key]
    BY <1>7, <1>8, <1>16 DEF EndsAs, Without
  <2>8. f.ok /\ f \in ReplayState
    BY <1>16 DEF Without
  <2>9. EndsAs(f)'
    BY <2>3, <2>5, <2>6, <2>7, <2>8 DEF EndsAs
  <2> QED
    BY <1>17, <2>9, OpensFromNext
<1> QED
  BY <1>18, <1>19

-----------------------------------------------------------------------------
(***************************************************************************)
(* The catalog reopens.                                                    *)
(***************************************************************************)
LEMMA OpensInitially == OrderInv /\ ParseInv /\ CountInv /\ CatalogInit => Opens
<1> SUFFICES ASSUME OrderInv, ParseInv, CountInv, CatalogInit PROVE Opens
  OBVIOUS
<1>1. PICK e : e = ReplayOfAudit
  OBVIOUS
<1>2. /\ Existing = {} /\ \A id \in ProposalId : promotionRecords[id] = Null
      /\ \A key \in TargetKey : activeByTarget[key] = Null
  BY DEF CatalogInit, Existing, Exists
<1>3. e = Replay
  <2>1. Len(auditRecords) = 0
    BY DEF CatalogInit
  <2> QED
    BY <1>1, <2>1, ReplayedAfterSteps DEF OrderInv, ReplayOfAudit
<1>4. EndsAs(e)
  BY <1>2, <1>3, ReplayFields DEF EndsAs
<1> QED
  BY <1>1, <1>4, OpensFrom

\* A step that changes nothing leaves the document open.
LEMMA OpensStill ==
  ASSUME OrderInv, OrderInv', ParseInv', CountInv', Opens, UNCHANGED catalogVars
  PROVE  Opens'
<1>1. PICK e : e = ReplayOfAudit
  OBVIOUS
<1>2. PICK h : h = ReplayedAfter
  OBVIOUS
<1>3. PICK L : L = Len(auditRecords)
  OBVIOUS
<1>4. /\ Replays /\ EndsAs(e) /\ CatalogTypeOK /\ CatalogTypeOK' /\ L \in Nat /\ e = h[L]
  BY <1>1, <1>2, <1>3, OpensMeans DEF OrderInv, CatalogTypeOK, ReplayOfAudit
<1>5. /\ proposals' = proposals /\ auditRecords' = auditRecords
      /\ activeByTarget' = activeByTarget /\ promotionRecords' = promotionRecords
  BY DEF catalogVars
<1>6. ASSUME NEW m \in 0..L, NEW n \in 0..L, NEW r \in AuditRecord, n = m + 1, r = auditRecords[n]
      PROVE  h[n] = Replayed(h[m], r) /\ Fits(h[m], r)' /\ Replayed(h[m], r)' = h[n]
  <2>1. h[n] = Replayed(h[m], r) /\ Fits(h[m], r)
    BY <1>2, <1>3, <1>4, <1>6 DEF Replays
  <2>2. Exists(r.proposal)' <=> Exists(r.proposal)
    BY <1>5 DEF Exists
  <2>3. \A x \in ProposalId : Exists(x) => Exists(x)'
    BY <1>5 DEF Exists
  <2>4. Kept(r.proposal, r.kind)
    BY <1>5 DEF Kept, DecidedAt
  <2>5. Fits(h[m], r)'
    <3>1. CASE Exists(r.proposal)
      BY <2>1, <2>3, <2>4, <3>1, FitsHere
    <3>2. CASE ~Exists(r.proposal)
      BY <2>1, <2>2, <3>2 DEF Fits
    <3> QED
      BY <3>1, <3>2
  <2> QED
    BY <2>1, <2>2, <2>5, ReplayedSame
<1>7. \A n \in 0..L : ReplayedAfter'[n] = h[n]
  BY <1>2, <1>3, <1>4, <1>5, <1>6, SameReplay
<1>8. ReplayOfAudit' = e
  BY <1>3, <1>4, <1>5, <1>7 DEF ReplayOfAudit
<1>9. EndsAs(e)'
  BY <1>4, <1>5 DEF EndsAs, Existing, Exists, Matches
<1> QED
  BY <1>8, <1>9, OpensFromNext

\* The inductive invariant: before the first command the catalog is empty, and opens.
CatalogInv ==
  /\ OrderInv /\ ParseInv /\ CountInv
  /\ catalogRevision = 0 => CatalogInit
  /\ CatalogReopens

\* An empty catalog has nothing to open.
LEMMA ReopensInitially == CatalogInit => CatalogInv
BY OrderInitially, ParseInitially, CountInitially DEF CatalogInv, CatalogReopens, CatalogInit

\* Every command begins with a catalog that opens, and leaves one.
LEMMA ReopensNext == CatalogInv /\ [CatalogNext]_catalogVars => CatalogInv'
<1> SUFFICES ASSUME CatalogInv, [CatalogNext]_catalogVars PROVE CatalogInv'
  OBVIOUS
<1>1. OrderInv /\ ParseInv /\ CountInv
  BY DEF CatalogInv
<1>2. OrderInv' /\ ParseInv' /\ CountInv'
  BY <1>1, OrderNext, ParseNext, CountNext
<1>3. CASE UNCHANGED catalogVars
  <2>1. CatalogReopens'
    <3>1. CASE catalogRevision = 0
      BY <1>3, <3>1 DEF catalogVars, CatalogReopens
    <3>2. CASE Opens
      <4>1. Opens'
        BY <1>1, <1>2, <1>3, <3>2, OpensStill
      <4> QED
        BY <4>1 DEF CatalogReopens
    <3>3. ASSUME NEW id \in ProposalId, Tombstoned(id), ArchivedBeforeRejection(id)
          PROVE  CatalogReopens'
      <4>1. Tombstoned(id)' /\ ArchivedBeforeRejection(id)'
        BY <1>3, <3>3 DEF catalogVars, Tombstoned, ArchivedBeforeRejection
      <4> QED
        BY <4>1 DEF CatalogReopens
    <3> QED
      BY <3>1, <3>2, <3>3 DEF CatalogInv, CatalogReopens
  <2>2. catalogRevision' = 0 => CatalogInit'
    BY <1>3 DEF CatalogInv, CatalogInit, catalogVars
  <2> QED
    BY <1>2, <2>1, <2>2 DEF CatalogInv
<1>4. ASSUME Usable, catalogRevision' = catalogRevision + 1,
             Opens => Opens' \/ \E id \in ProposalId : (Tombstoned(id) /\ ArchivedBeforeRejection(id))'
      PROVE  CatalogInv'
  <2>1. Opens
    BY <1>1, <1>4, OpensInitially DEF Usable, CatalogInv
  <2>2. catalogRevision' # 0
    BY <1>1, <1>4 DEF OrderInv, CatalogTypeOK
  <2>3. CatalogReopens'
    BY <1>4, <2>1 DEF CatalogReopens
  <2> QED
    BY <1>2, <2>2, <2>3 DEF CatalogInv
<1>5. ASSUME NEW id \in ProposalId, NEW p, CommitProposal(id, p)
      PROVE  Usable /\ catalogRevision' = catalogRevision + 1
  BY <1>5 DEF CommitProposal
<1>6. ASSUME NEW id \in ProposalId, NEW at \in Instant, Propose(id, at) PROVE CatalogInv'
  <2>1. Opens => Opens'
    BY <1>1, <1>2, <1>6, ProposeOpens
  <2> QED
    BY <1>4, <1>5, <1>6, <2>1 DEF Propose
<1>7. ASSUME NEW id \in ProposalId, NEW at \in Instant, BeginEvaluation(id, at) PROVE CatalogInv'
  <2>1. Opens => Opens'
    BY <1>1, <1>2, <1>7, BeginEvaluationOpens
  <2> QED
    BY <1>4, <1>5, <1>7, <2>1 DEF BeginEvaluation
<1>8. ASSUME NEW id \in ProposalId, NEW at \in Instant, NEW evidence \in EvidenceFor,
             Evaluate(id, evidence, at)
      PROVE  CatalogInv'
  <2>1. Opens => Opens'
    BY <1>1, <1>2, <1>8, EvaluateOpens
  <2> QED
    BY <1>4, <1>5, <1>8, <2>1 DEF Evaluate
<1>9. ASSUME NEW id \in ProposalId, NEW at \in Instant, NEW command \in AppCommand \union {Null},
             Promote(id, command, at)
      PROVE  CatalogInv'
  <2>1. Opens => Opens'
    BY <1>1, <1>2, <1>9, PromoteOpens
  <2> QED
    BY <1>4, <1>5, <1>9, <2>1 DEF Promote
<1>10. ASSUME NEW id \in ProposalId, NEW at \in Instant, NEW command \in AppCommand \union {Null},
              Rollback(id, command, at)
       PROVE  CatalogInv'
  <2>1. Opens => Opens'
    BY <1>1, <1>2, <1>10, RollbackOpens
  <2> QED
    BY <1>4, <1>5, <1>10, <2>1 DEF Rollback
<1>11. ASSUME NEW id \in ProposalId, NEW at \in Instant, Reject(id, at) PROVE CatalogInv'
  <2>1. Opens => Opens'
    BY <1>1, <1>2, <1>11, RejectOpens
  <2> QED
    BY <1>4, <1>5, <1>11, <2>1 DEF Reject
<1>12. ASSUME NEW id \in ProposalId, NEW at \in Instant, Archive(id, at) \/ Unarchive(id, at)
       PROVE  CatalogInv'
  <2>1. Opens => Opens'
    BY <1>1, <1>2, <1>12, ArchiveOpens
  <2> QED
    BY <1>4, <1>5, <1>12, <2>1 DEF Archive, Unarchive
<1>13. ASSUME NEW id \in ProposalId, NEW at \in Instant, DeleteProposal(id, at) PROVE CatalogInv'
  <2>1. Opens => Opens' \/ (Tombstoned(id) /\ ArchivedBeforeRejection(id))'
    BY <1>1, <1>2, <1>13, DeleteProposalOpens
  <2> QED
    BY <1>4, <1>5, <1>13, <2>1 DEF DeleteProposal
<1> QED
  BY <1>3, <1>6, <1>7, <1>8, <1>9, <1>10, <1>11, <1>12, <1>13 DEF CatalogNext

\* The promotions in force for a target (activeByTarget, promotionRecords of catalog.ts) form a
\* chain in the order of the audit: each record names the one before it, and the last is active.
THEOREM PromotionsInOrder == CatalogSpec => []OrderInv
BY OrderInitially, OrderNext, PTL DEF CatalogSpec

\* Every variable of the catalog stays in its type, for any proposals, targets and instants.
THEOREM CatalogTypeCorrect == CatalogSpec => []CatalogTypeOK
<1>1. OrderInv => CatalogTypeOK
  BY DEF OrderInv
<1> QED
  BY <1>1, PromotionsInOrder, PTL

\* The proposal active for a target is the one promoted last of those not rolled back: a rollback
\* (EvolutionCatalog.rollback) never brings back one that a standing promotion had replaced.
THEOREM LastPromotionInForce == CatalogSpec => []LatestInForce
<1>1. OrderInv => LatestInForce
  <2> SUFFICES ASSUME OrderInv, NEW id \in Existing, proposals[id].status = "promoted",
                      NEW active, active = activeByTarget[TargetKeyOf[id]]
               PROVE  /\ active # Null /\ proposals[active].status = "promoted"
                      /\ PromotedAt(active) >= PromotedAt(id)
    BY DEF LatestInForce
  <2>1. id \in Standing /\ TargetKeyOf[id] \in TargetKey
    BY TargetKeyAssumption DEF Standing, Existing
  <2>2. active # Null /\ active \in Standing /\ PromotedAt(id) <= PromotedAt(active)
    BY <2>1 DEF OrderInv, ChainInv
  <2>3. PromotedAt(id) \in Nat /\ PromotedAt(active) \in Nat
    BY <2>1, <2>2, PlaceOfPromotion DEF Standing, WithPromotion, OrderInv
  <2> QED
    BY <2>2, <2>3 DEF Standing
<1> QED
  BY <1>1, PromotionsInOrder, PTL

\* Every proposal a sequence of commands makes can be parsed again (parseEvolutionProposal): its
\* path is allowed and chronological, its evaluation, archival and promotion say what its status does.
THEOREM EveryProposalParses == CatalogSpec => []ParseInv
BY OrderInitially, ParseInitially, OrderNext, ParseNext, PTL DEF CatalogSpec

\* The revision of the catalog is the number of mutations that its proposals and its audit record,
\* which the opening of a document asks for: no command is counted twice or lost.
THEOREM EveryCommandCounted == CatalogSpec => [](catalogRevision = RecordedMutations)
<1>1. CountInv => catalogRevision = RecordedMutations
  BY DEF CountInv
<1> QED
  BY <1>1, OrderInitially, ParseInitially, CountInitially, OrderNext, ParseNext, CountNext, PTL
     DEF CatalogSpec

\* Whatever legal commands made of it, the catalog can be restored by the next command and its
\* document opened after a restart (the replay of persistence.ts and audit-trail.ts), unless a
\* proposal was deleted that had been archived before it was rejected.
THEOREM CatalogCanReopen == CatalogSpec => []CatalogReopens
<1>1. CatalogInv => CatalogReopens
  BY DEF CatalogInv
<1> QED
  BY <1>1, ReopensInitially, ReopensNext, PTL DEF CatalogSpec
=============================================================================

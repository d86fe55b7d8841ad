----------------------- MODULE EvolutionApplication_proofs -----------------------
(***************************************************************************)
(* What holds of the journal of applications, the catalog and the targets  *)
(* for any proposals, targets' contents, commands and older worlds, however*)
(* many writes fail and whenever the process dies.                         *)
(***************************************************************************)
EXTENDS EvolutionApplication, FiniteSetTheorems, SequenceTheorems, TLAPS

-----------------------------------------------------------------------------
(* The catalog.                                                            *)

\* A proposal is promoted once at most; what is active, and what a promotion replaced, is
\* another proposal that was promoted on the target.
CatalogWell(c) ==
  /\ \A t \in Target :
       c.active[t] # None => TargetOf(c.active[t]) = t /\ HasPromotion(c, c.active[t])
  /\ \A p \in Proposal :
       /\ Replaced(c, p) # None =>
            /\ TargetOf(Replaced(c, p)) = TargetOf(p) /\ HasPromotion(c, Replaced(c, p))
            /\ Replaced(c, p) # p
       /\ HasPromotion(c, p) => c.status[p] \in {"promoted", "rolled-back"}
       /\ \A a, b \in AuditsOf(c, p) : a.kind = "promotion" /\ b.kind = "promotion" => a = b

\* Nothing that a proof rests on differs in the two.
Agree(c, d) == c.active = d.active /\ \A p \in Proposal : Replaced(c, p) = Replaced(d, p)

\* The catalog before the operation q, and what q makes of it.
Before(c, q) ==
  LET p == q.proposal IN
  /\ c.revision = q.revision /\ c.active[TargetOf(p)] = q.active
  /\ q.op = "promote" => c.status[p] = "passed"
  /\ q.op = "rollback" => c.status[p] = "promoted" /\ q.audit.restored = Replaced(c, p)
  /\ q.op = "reconcile" => c.status[p] = "promoted"
After(c, q) ==
  LET p == q.proposal IN
  /\ c.active[TargetOf(p)] = IF q.op = "rollback" THEN q.audit.restored ELSE p
  /\ q.op = "promote" => Replaced(c, p) = q.active

-----------------------------------------------------------------------------
(* The journal.                                                            *)

ActiveBefore(j, c, t) ==
  IF j.pending # None /\ TargetOf(j.pending.proposal) = t THEN j.pending.active ELSE c.active[t]
ProofsFor(j, p) == IF p = None THEN <<>> ELSE j.apps[p]

\* Every proof starts from what the one below made of the target, and replaced its proposal.
Linked(c, chain) ==
  \A i \in 1..Len(chain) - 1 :
    /\ chain[i].before = chain[i + 1].after
    /\ Replaced(c, chain[i].proposal) = chain[i + 1].proposal

\* A prompt always has a content.
Writes(p, chain) == p \in Prompt => \A i \in DOMAIN chain : chain[i].before \in Content

ChainsWell(j, c) ==
  \A p \in Proposal : j.apps[p] # <<>> =>
    /\ j.apps[p][1].proposal = p /\ Linked(c, j.apps[p]) /\ Writes(p, j.apps[p])
    /\ ActiveBefore(j, c, TargetOf(p)) = p

\* What an operation is begun with.
Planned(j, c, q) ==
  LET p == q.proposal IN
  /\ p \in Prompt => q.before \in Content /\ q.after \in Content
  /\ q.previous # <<>> /\ q.op # "rollback" => q.before = q.previous[1].after
  /\ q.after = IF q.op = "rollback" THEN q.previous[1].before ELSE Definition[p]
  /\ q.op = "promote" =>
       /\ q.previous = ProofsFor(j, q.active)
       /\ q.active # None => TargetOf(q.active) = TargetOf(p) /\ q.previous # <<>>
       /\ q.audit = [kind |-> "promotion", command |-> q.command, restored |-> q.active]
  /\ q.op = "rollback" =>
       /\ q.active = p /\ q.previous = j.apps[p] /\ q.previous # <<>>
       /\ q.audit = [kind |-> "rollback", command |-> q.command,
                     restored |-> IF Len(q.previous) > 1 THEN q.previous[2].proposal ELSE None]
  /\ q.op = "reconcile" =>
       /\ q.active = p /\ j.apps[p] = <<>> /\ q.audit = None /\ Len(q.previous) <= 1
       /\ q.previous # <<>> =>
            Replaced(c, p) = q.previous[1].proposal /\ q.previous[1].before = q.before
  /\ q.expected = IF q.op = "reconcile" THEN q.revision ELSE q.revision + 1

JournalWell(j, c) ==
  /\ ChainsWell(j, c)
  /\ j.pending # None =>
       /\ Planned(j, c, j.pending)
       /\ c.revision = j.pending.revision => Before(c, j.pending)

JournalsWell == JournalWell(journal, catalog)

-----------------------------------------------------------------------------
(* The coordinator.                                                        *)

Acting == {"apply", "stage", "commit", "verify", "promote", "refused"}
Settling == {"settle", "restored", "conclude"}

\* What the coordinator acts on is what the journal says, but for a write that failed.
Synchronous == pc # "idle" \/ Writable => state = journal

\* The catalog on disk is at most one commit away from what the process has of it.
CatalogsWell ==
  /\ CatalogWell(catalog) /\ CatalogWell(memory)
  /\ memory = catalog \/ (indeterminate /\ catalog.revision = memory.revision + 1)
  /\ pc \in Settling \union {"down"} => memory = catalog
  /\ pc # "unfinished" /\ (pc = "idle" => Writable) => Agree(catalog, memory)

\* How far the operation is.
Placed ==
  /\ pc \notin {"idle", "down"} => state.pending # None
  /\ pc \in Acting \union {"restored"} => Before(memory, state.pending)
  /\ pc = "promote" => state.pending.op # "reconcile"
  /\ pc \in {"record", "conclude"} => After(memory, state.pending)
  /\ pc = "record" /\ state.pending.op = "reconcile" => Before(memory, state.pending)
  /\ pc \in Acting /\ ~blind => ~indeterminate

\* What a preview says is still so at the revision it was made for.
PreviewsWell ==
  /\ IsFiniteSet(previews)
  /\ pc \in Settling \union {"down"} => previews = {}
  /\ \A v \in previews :
       /\ v.revision <= memory.revision
       /\ pc = "record" /\ state.pending.op # "reconcile" => v.revision < memory.revision
       /\ v.proposal \in Prompt => v.before \in Content /\ v.after \in Content
       /\ v.revision = memory.revision =>
            /\ v.active = memory.active[TargetOf(v.proposal)]
            /\ v.active # None => v.previous # <<>>
            /\ v.previous = ProofsFor(state, v.active)
            /\ v.op = "promote" /\ v.previous # <<>> => v.before = v.previous[1].after

PromptWell == live["prompt"] \in Content

\* Where target, branch and catalog are while nobody disturbed the pending operation.
Progress ==
  LET q == journal.pending IN
  \/ catalog.revision = q.revision /\ live[TargetOf(q.proposal)] \in {q.before, q.after}
  \/ /\ OutcomeReached(catalog, q) /\ live[TargetOf(q.proposal)] = q.after
     /\ TargetOf(q.proposal) = "prompt" => PromptCommitted(q)
Pace ==
  LET q == journal.pending
      t == TargetOf(q.proposal)
  IN /\ pc = "apply" => live[t] = q.before
     /\ pc = "apply" /\ t = "prompt" => Clean
     /\ pc \in {"stage", "commit", "verify", "promote", "record", "conclude"} => live[t] = q.after
     /\ pc = "restored" => live[t] = q.before
     /\ pc = "stage" => t = "prompt"
     /\ pc = "commit" => t = "prompt" /\ git.staged = q.after
     /\ pc \in {"verify", "promote"} /\ t = "prompt" => PromptCommitted(q)
Undisturbed ==
  journal.pending # None /\ ~disturbed[TargetOf(journal.pending.proposal)]
ProgressWell ==
  /\ Undisturbed => Pace
  /\ journal.pending # None /\ ~Disputed => Progress

IInv ==
  /\ TypeOK /\ Synchronous /\ CatalogsWell /\ JournalsWell /\ Placed
  /\ PreviewsWell /\ PromptWell /\ ProgressWell

-----------------------------------------------------------------------------
(* The catalog.                                                            *)

LEMMA Targets == \A p \in Proposal : TargetOf(p) \in Target
BY DEF TargetOf, Target

LEMMA PromotionIs ==
  ASSUME NEW c, CatalogWell(c), NEW p \in Proposal, NEW a \in AuditsOf(c, p), a.kind = "promotion"
  PROVE  HasPromotion(c, p) /\ Replaced(c, p) = a.restored
<1>1. HasPromotion(c, p)
  BY DEF HasPromotion
<1>2. Promotion(c, p) \in AuditsOf(c, p) /\ Promotion(c, p).kind = "promotion"
  BY <1>1 DEF HasPromotion, Promotion
<1>3. Promotion(c, p) = a
  BY <1>2 DEF CatalogWell
<1> QED BY <1>1, <1>3 DEF Replaced

LEMMA SamePromotions ==
  ASSUME NEW c, NEW d, CatalogWell(c), NEW p \in Proposal,
         \A a : a \in AuditsOf(d, p) /\ a.kind = "promotion"
                <=> a \in AuditsOf(c, p) /\ a.kind = "promotion"
  PROVE  /\ (HasPromotion(d, p) <=> HasPromotion(c, p)) /\ Replaced(d, p) = Replaced(c, p)
         /\ \A a, b \in AuditsOf(d, p) : a.kind = "promotion" /\ b.kind = "promotion" => a = b
<1>1. HasPromotion(d, p) <=> HasPromotion(c, p)
  BY DEF HasPromotion
<1>2. \A a, b \in AuditsOf(d, p) : a.kind = "promotion" /\ b.kind = "promotion" => a = b
  BY DEF CatalogWell
<1>3. CASE HasPromotion(c, p)
  <2>1. PICK a \in AuditsOf(c, p) : a.kind = "promotion"
    BY <1>3 DEF HasPromotion
  <2>2. a \in AuditsOf(d, p)
    BY <2>1
  <2>3. Promotion(d, p) \in AuditsOf(d, p) /\ Promotion(d, p).kind = "promotion"
    BY <2>2, <2>1 DEF Promotion
  <2>4. Promotion(d, p) = a
    BY <2>3, <2>2, <2>1, <1>2
  <2> QED BY <1>1, <1>2, <1>3, <2>4, <2>1, PromotionIs DEF Replaced
<1>4. CASE ~HasPromotion(c, p)
  <2>1. Replaced(d, p) = None /\ Replaced(c, p) = None
    BY <1>1, <1>4 DEF Replaced
  <2> QED BY <1>1, <1>2, <2>1
<1> QED BY <1>3, <1>4

LEMMA ReplacedType ==
  ASSUME NEW c \in Catalog, NEW p \in Proposal
  PROVE  Replaced(c, p) \in Proposal \union {None} /\ AuditsOf(c, p) \subseteq Audit
<1>1. AuditsOf(c, p) \subseteq Audit
  BY DEF Catalog, AuditsOf
<1>2. CASE HasPromotion(c, p)
  <2>1. Promotion(c, p) \in AuditsOf(c, p)
    BY <1>2 DEF HasPromotion, Promotion
  <2> QED BY <1>1, <1>2, <2>1 DEF Replaced, Audit
<1> QED BY <1>1, <1>2 DEF Replaced

LEMMA LatestIs ==
  ASSUME NEW s \in Seq(Audit), NEW a
  PROVE  Append(s, a) # <<>> /\ Latest(Append(s, a)) = a
<1>1. /\ DOMAIN Append(s, a) = 1..Len(s) + 1 /\ Len(s) \in Nat /\ Len(Append(s, a)) = Len(s) + 1
      /\ Append(s, a)[Len(s) + 1] = a
  OBVIOUS
<1>2. Append(s, a) # <<>>
  BY <1>1
<1> QED BY <1>1, <1>2 DEF Latest

\* One more record in the audit of p.
LEMMA OneMore ==
  ASSUME NEW c \in Catalog, NEW d, NEW p \in Proposal, NEW a \in Audit,
         d.audits = [c.audits EXCEPT ![p] = Append(@, a)]
  PROVE  /\ AuditsOf(d, p) = AuditsOf(c, p) \union {a}
         /\ \A q \in Proposal \ {p} : AuditsOf(d, q) = AuditsOf(c, q)
<1> DEFINE s == c.audits[p]
<1>1. s \in Seq(Audit) /\ c.audits \in [Proposal -> Seq(Audit)]
  BY DEF Catalog
<1>2. d.audits[p] = Append(s, a)
  BY <1>1
<1>3. DOMAIN Append(s, a) = 1..Len(s) + 1 /\ DOMAIN s = 1..Len(s) /\ Len(s) \in Nat
      /\ Append(s, a)[Len(s) + 1] = a /\ \A i \in 1..Len(s) : Append(s, a)[i] = s[i]
  BY <1>1
<1>4. AuditsOf(d, p) = AuditsOf(c, p) \union {a}
  <2>1. AuditsOf(d, p) = {Append(s, a)[i] : i \in 1..Len(s) + 1}
    BY <1>2, <1>3 DEF AuditsOf
  <2>2. AuditsOf(c, p) = {s[i] : i \in 1..Len(s)}
    BY <1>3 DEF AuditsOf
  <2> HIDE DEF s
  <2>3. ASSUME NEW x \in AuditsOf(d, p) PROVE x \in AuditsOf(c, p) \union {a}
    <3>1. PICK i \in 1..Len(s) + 1 : x = Append(s, a)[i]
      BY <2>1, <2>3
    <3> QED BY <3>1, <2>2, <1>3
  <2>4. ASSUME NEW x \in AuditsOf(c, p) \union {a} PROVE x \in AuditsOf(d, p)
    <3>1. CASE x = a
      BY <3>1, <2>1, <1>3
    <3>2. CASE x \in AuditsOf(c, p)
      <4>1. PICK i \in 1..Len(s) : x = s[i]
        BY <3>2, <2>2
      <4> QED BY <4>1, <2>1, <1>3
    <3> QED BY <2>4, <3>1, <3>2
  <2> QED BY <2>3, <2>4
<1>5. \A q \in Proposal \ {p} : AuditsOf(d, q) = AuditsOf(c, q)
  BY <1>1 DEF AuditsOf
<1> QED BY <1>4, <1>5

\* What a command makes of the catalog but for the promotions.
LEMMA AdvanceIs ==
  ASSUME NEW c \in Catalog, NEW p \in Proposal, NEW s \in Status
  PROVE  /\ Advance(c, p, s) \in Catalog
         /\ Advance(c, p, s).revision = c.revision + 1
         /\ Advance(c, p, s).status = [c.status EXCEPT ![p] = s]
         /\ Advance(c, p, s).active = c.active /\ Advance(c, p, s).audits = c.audits
<1> DEFINE new == [c.status EXCEPT ![p] = s]
<1>1. new \in [Proposal -> Status]
  BY DEF Catalog
<1>2. Advance(c, p, s) = [c EXCEPT !.revision = @ + 1, !.status = new]
  BY DEF Advance, Catalog
<1> HIDE DEF new
<1>3. /\ Advance(c, p, s) \in Catalog /\ Advance(c, p, s).revision = c.revision + 1
      /\ Advance(c, p, s).status = new /\ Advance(c, p, s).active = c.active
      /\ Advance(c, p, s).audits = c.audits
  <2> DEFINE d == [c EXCEPT !.revision = @ + 1, !.status = new]
  <2>1. c.revision + 1 \in Nat
    BY DEF Catalog
  <2>2. /\ d.revision = c.revision + 1 /\ d.status = new /\ d.active = c.active
        /\ d.audits = c.audits
    BY DEF Catalog
  <2>3. d \in Catalog
    BY <1>1, <2>1 DEF Catalog
  <2> QED BY <1>2, <2>2, <2>3
<1> QED BY <1>3 DEF new

LEMMA AuditedIs ==
  ASSUME NEW c \in Catalog, NEW p \in Proposal, NEW kind, NEW command, NEW restored,
         [kind |-> kind, command |-> command, restored |-> restored] \in Audit
  PROVE  LET d == Audited(c, p, kind, command, restored)
             a == [kind |-> kind, command |-> command, restored |-> restored] IN
         /\ d \in Catalog /\ d.revision = c.revision /\ d.status = c.status /\ d.active = c.active
         /\ d.audits = [c.audits EXCEPT ![p] = Append(@, a)]
<1> DEFINE a == [kind |-> kind, command |-> command, restored |-> restored]
<1>1. a \in Audit
  OBVIOUS
<1> HIDE DEF a
<1>2. [c.audits EXCEPT ![p] = Append(@, a)] \in [Proposal -> Seq(Audit)]
  BY <1>1 DEF Catalog
<1>3. Audited(c, p, kind, command, restored) = [c EXCEPT !.audits[p] = Append(@, a)]
  BY DEF Audited, a
<1>4. /\ [c EXCEPT !.audits[p] = Append(@, a)] \in Catalog
      /\ [c EXCEPT !.audits[p] = Append(@, a)].audits = [c.audits EXCEPT ![p] = Append(@, a)]
      /\ [c EXCEPT !.audits[p] = Append(@, a)].revision = c.revision
      /\ [c EXCEPT !.audits[p] = Append(@, a)].status = c.status
      /\ [c EXCEPT !.audits[p] = Append(@, a)].active = c.active
  BY <1>2 DEF Catalog
<1> QED BY <1>3, <1>4 DEF a

PromotionBy(c, p, command) ==
  [kind |-> "promotion", command |-> command, restored |-> c.active[TargetOf(p)]]
\* d is c with p promoted by the command.
Promotes(c, d, p, command) ==
  /\ d \in Catalog /\ d.revision = c.revision + 1
  /\ d.status = [c.status EXCEPT ![p] = "promoted"]
  /\ d.active = [c.active EXCEPT ![TargetOf(p)] = p]
  /\ d.audits = [c.audits EXCEPT ![p] = Append(@, PromotionBy(c, p, command))]

LEMMA PromoteForm ==
  ASSUME NEW c \in Catalog, NEW p \in Proposal, NEW command \in Command
  PROVE  Promotes(c, Promote(c, p, command), p, command)
<1> DEFINE t == TargetOf(p)
           a == [kind |-> "promotion", command |-> command, restored |-> c.active[t]]
           b == Audited(Advance(c, p, "promoted"), p, "promotion", command, c.active[t])
           d == Promote(c, p, command)
<1>1. t \in Target /\ c.active[t] \in Proposal \union {None}
  BY Targets DEF Catalog
<1>2. a \in Audit
  BY <1>1 DEF Audit
<1>3. "promoted" \in Status
  BY DEF Status
<1>4. /\ b \in Catalog /\ b.revision = c.revision + 1 /\ b.active = c.active
      /\ b.status = [c.status EXCEPT ![p] = "promoted"]
      /\ b.audits = [c.audits EXCEPT ![p] = Append(@, a)]
  <2> DEFINE e == Advance(c, p, "promoted")
  <2>1. /\ e \in Catalog /\ e.revision = c.revision + 1 /\ e.active = c.active
        /\ e.status = [c.status EXCEPT ![p] = "promoted"] /\ e.audits = c.audits
    BY <1>3, AdvanceIs
  <2> HIDE DEF e
  <2>2. /\ b \in Catalog /\ b.revision = e.revision /\ b.status = e.status /\ b.active = e.active
        /\ b.audits = [e.audits EXCEPT ![p] = Append(@, a)]
    BY <1>2, <2>1, AuditedIs DEF e
  <2> QED BY <2>1, <2>2
<1>5. d = [b EXCEPT !.active[t] = p]
  BY DEF Promote
<1> HIDE DEF b, d
<1>6. /\ d \in Catalog /\ d.revision = c.revision + 1
      /\ d.active = [c.active EXCEPT ![t] = p]
      /\ d.status = [c.status EXCEPT ![p] = "promoted"]
      /\ d.audits = [c.audits EXCEPT ![p] = Append(@, a)]
  BY <1>1, <1>4, <1>5 DEF Catalog
<1> QED BY <1>6 DEF d, Promotes, PromotionBy

LEMMA PromoteIs ==
  ASSUME NEW c \in Catalog, CatalogWell(c), NEW p \in Proposal, c.status[p] = "passed",
         NEW command \in Command
  PROVE  LET d == Promote(c, p, command)
             a == [kind |-> "promotion", command |-> command,
                   restored |-> c.active[TargetOf(p)]] IN
         /\ d \in Catalog /\ CatalogWell(d) /\ d.revision = c.revision + 1
         /\ d.status = [c.status EXCEPT ![p] = "promoted"]
         /\ d.active = [c.active EXCEPT ![TargetOf(p)] = p]
         /\ Replaced(d, p) = c.active[TargetOf(p)]
         /\ \A q \in Proposal \ {p} : Replaced(d, q) = Replaced(c, q)
         /\ a \in Audit /\ d.audits[p] # <<>> /\ Latest(d.audits[p]) = a
<1> DEFINE t == TargetOf(p)
           a == [kind |-> "promotion", command |-> command, restored |-> c.active[t]]
           d == Promote(c, p, command)
<1>1. t \in Target /\ c.active[t] \in Proposal \union {None}
  BY Targets DEF Catalog
<1>2. a \in Audit
  BY <1>1 DEF Audit
<1>3. d = Promote(c, p, command)
  OBVIOUS
<1> HIDE DEF d
<1>4. /\ d \in Catalog /\ d.revision = c.revision + 1
      /\ d.active = [c.active EXCEPT ![t] = p]
      /\ d.status = [c.status EXCEPT ![p] = "promoted"]
      /\ d.audits = [c.audits EXCEPT ![p] = Append(@, a)]
  <2>1. Promotes(c, d, p, command)
    BY <1>3, PromoteForm
  <2> QED BY <2>1 DEF Promotes, PromotionBy
<1>5. /\ AuditsOf(d, p) = AuditsOf(c, p) \union {a}
      /\ d.audits[p] # <<>> /\ Latest(d.audits[p]) = a
      /\ \A q \in Proposal \ {p} : AuditsOf(d, q) = AuditsOf(c, q)
  <2>1. d.audits = [c.audits EXCEPT ![p] = Append(@, a)]
    BY <1>4
  <2> HIDE DEF a
  <2>2. /\ AuditsOf(d, p) = AuditsOf(c, p) \union {a}
        /\ \A q \in Proposal \ {p} : AuditsOf(d, q) = AuditsOf(c, q)
    <3> HIDE DEF t
    <3> QED BY <1>2, <2>1, OneMore
  <2>3. d.audits[p] = Append(c.audits[p], a) /\ c.audits[p] \in Seq(Audit)
    BY <2>1 DEF Catalog
  <2>4. d.audits[p] # <<>> /\ Latest(d.audits[p]) = a
    BY <2>3, LatestIs
  <2> QED BY <2>2, <2>4
<1>6. ~HasPromotion(c, p)
  BY DEF CatalogWell
<1>7. ASSUME NEW x \in AuditsOf(d, p), x.kind = "promotion" PROVE x = a
  BY <1>5, <1>6, <1>7 DEF HasPromotion
<1>8. HasPromotion(d, p) /\ Replaced(d, p) = c.active[t]
  <2>1. a \in AuditsOf(d, p) /\ a.kind = "promotion" /\ a.restored = c.active[t]
    BY <1>5
  <2>2. HasPromotion(d, p)
    BY <2>1 DEF HasPromotion
  <2>3. Promotion(d, p) = a
    <3>1. Promotion(d, p) \in AuditsOf(d, p) /\ Promotion(d, p).kind = "promotion"
      BY <2>1 DEF Promotion
    <3> QED BY <3>1, <1>7
  <2> QED BY <2>1, <2>2, <2>3 DEF Replaced
<1>9. ASSUME NEW q \in Proposal \ {p}
       PROVE  /\ (HasPromotion(d, q) <=> HasPromotion(c, q)) /\ Replaced(d, q) = Replaced(c, q)
              /\ \A x, y \in AuditsOf(d, q) : x.kind = "promotion" /\ y.kind = "promotion" => x = y
  BY <1>5, SamePromotions
<1>10. CatalogWell(d)
  <2>0. \A q \in Proposal : HasPromotion(c, q) => HasPromotion(d, q) /\ q # p
    BY <1>6, <1>9
  <2>1. ASSUME NEW u \in Target, d.active[u] # None
        PROVE  TargetOf(d.active[u]) = u /\ HasPromotion(d, d.active[u])
    <3>1. CASE u = t
      BY <3>1, <1>1, <1>4, <1>8 DEF Catalog
    <3>2. CASE u # t
      <4>1. d.active[u] = c.active[u] /\ c.active[u] \in Proposal \union {None}
        BY <3>2, <1>1, <1>4 DEF Catalog
      <4> QED BY <4>1, <2>0, <2>1 DEF CatalogWell
    <3> QED BY <3>1, <3>2
  <2>2. ASSUME NEW q \in Proposal
        PROVE  /\ Replaced(d, q) # None =>
                    /\ TargetOf(Replaced(d, q)) = TargetOf(q) /\ HasPromotion(d, Replaced(d, q))
                    /\ Replaced(d, q) # q
               /\ HasPromotion(d, q) => d.status[q] \in {"promoted", "rolled-back"}
               /\ \A x, y \in AuditsOf(d, q) : x.kind = "promotion" /\ y.kind = "promotion" => x = y
    <3>1. CASE q = p
      <4>1. Replaced(d, q) # None =>
              /\ TargetOf(Replaced(d, q)) = TargetOf(q) /\ HasPromotion(d, Replaced(d, q))
              /\ Replaced(d, q) # q
        BY <2>0, <3>1, <1>1, <1>8 DEF CatalogWell
      <4>2. d.status[q] = "promoted"
        BY <3>1, <1>4 DEF Catalog
      <4> QED BY <3>1, <4>1, <4>2, <1>7
    <3>2. CASE q # p
      <4>1. d.status[q] = c.status[q]
        BY <3>2, <1>4 DEF Catalog
      <4>2. Replaced(c, q) \in Proposal \union {None}
        BY ReplacedType
      <4> QED BY <2>0, <3>2, <4>1, <4>2, <1>9 DEF CatalogWell
    <3> QED BY <3>1, <3>2
  <2> QED BY <2>1, <2>2, Zenon DEF CatalogWell
<1> QED BY <1>2, <1>4, <1>5, <1>8, <1>9, <1>10 DEF d

LEMMA RollBackIs ==
  ASSUME NEW c \in Catalog, CatalogWell(c), NEW p \in Proposal, c.status[p] = "promoted",
         NEW command \in Command
  PROVE  LET d == RollBack(c, p, command)
             a == [kind |-> "rollback", command |-> command, restored |-> Replaced(c, p)] IN
         /\ d \in Catalog /\ CatalogWell(d) /\ d.revision = c.revision + 1
         /\ d.status = [c.status EXCEPT ![p] = "rolled-back"]
         /\ d.active = [c.active EXCEPT ![TargetOf(p)] = Replaced(c, p)]
         /\ \A q \in Proposal : Replaced(d, q) = Replaced(c, q)
         /\ a \in Audit /\ d.audits[p] # <<>> /\ Latest(d.audits[p]) = a
<1> DEFINE t == TargetOf(p)
           a == [kind |-> "rollback", command |-> command, restored |-> Replaced(c, p)]
           b == Audited(Advance(c, p, "rolled-back"), p, "rollback", command, Replaced(c, p))
           d == RollBack(c, p, command)
<1>1. t \in Target /\ Replaced(c, p) \in Proposal \union {None}
  BY Targets, ReplacedType
<1>2. a \in Audit
  BY <1>1 DEF Audit
<1>3. "rolled-back" \in Status
  BY DEF Status
<1>4. /\ b \in Catalog /\ b.revision = c.revision + 1 /\ b.active = c.active
      /\ b.status = [c.status EXCEPT ![p] = "rolled-back"]
      /\ b.audits = [c.audits EXCEPT ![p] = Append(@, a)]
  <2> DEFINE e == Advance(c, p, "rolled-back")
  <2>1. /\ e \in Catalog /\ e.revision = c.revision + 1 /\ e.active = c.active
        /\ e.status = [c.status EXCEPT ![p] = "rolled-back"] /\ e.audits = c.audits
    BY <1>3, AdvanceIs
  <2> HIDE DEF e
  <2>2. /\ b \in Catalog /\ b.revision = e.revision /\ b.status = e.status /\ b.active = e.active
        /\ b.audits = [e.audits EXCEPT ![p] = Append(@, a)]
    BY <1>2, <2>1, AuditedIs DEF e
  <2> QED BY <2>1, <2>2
<1>5. d = [b EXCEPT !.active[t] = Replaced(c, p)]
  BY DEF RollBack
<1> HIDE DEF b, d
<1>6. /\ d \in Catalog /\ d.revision = c.revision + 1
      /\ d.active = [c.active EXCEPT ![t] = Replaced(c, p)]
      /\ d.status = [c.status EXCEPT ![p] = "rolled-back"]
      /\ d.audits = [c.audits EXCEPT ![p] = Append(@, a)]
  BY <1>1, <1>4, <1>5 DEF Catalog
<1>7. /\ AuditsOf(d, p) = AuditsOf(c, p) \union {a}
      /\ d.audits[p] # <<>> /\ Latest(d.audits[p]) = a
      /\ \A q \in Proposal \ {p} : AuditsOf(d, q) = AuditsOf(c, q)
  <2>1. d.audits = [c.audits EXCEPT ![p] = Append(@, a)]
    BY <1>6
  <2> HIDE DEF a
  <2>2. /\ AuditsOf(d, p) = AuditsOf(c, p) \union {a}
        /\ \A q \in Proposal \ {p} : AuditsOf(d, q) = AuditsOf(c, q)
    <3> HIDE DEF t
    <3> QED BY <1>2, <2>1, OneMore
  <2>3. d.audits[p] = Append(c.audits[p], a) /\ c.audits[p] \in Seq(Audit)
    BY <2>1 DEF Catalog
  <2>4. d.audits[p] # <<>> /\ Latest(d.audits[p]) = a
    BY <2>3, LatestIs
  <2> QED BY <2>2, <2>4
<1>8. ASSUME NEW q \in Proposal
      PROVE  /\ (HasPromotion(d, q) <=> HasPromotion(c, q)) /\ Replaced(d, q) = Replaced(c, q)
             /\ \A x, y \in AuditsOf(d, q) : x.kind = "promotion" /\ y.kind = "promotion" => x = y
  <2>1. \A x : x \in AuditsOf(d, q) /\ x.kind = "promotion"
                 <=> x \in AuditsOf(c, q) /\ x.kind = "promotion"
    BY <1>7
  <2> QED BY <2>1, SamePromotions
<1>9. CatalogWell(d)
  <2>1. ASSUME NEW u \in Target, d.active[u] # None
        PROVE  TargetOf(d.active[u]) = u /\ HasPromotion(d, d.active[u])
    <3>1. CASE u = t
      BY <3>1, <2>1, <1>1, <1>6, <1>8 DEF CatalogWell, Catalog
    <3>2. CASE u # t
      <4>1. d.active[u] = c.active[u] /\ c.active[u] \in Proposal \union {None}
        BY <3>2, <1>1, <1>6 DEF Catalog
      <4> QED BY <4>1, <1>8, <2>1 DEF CatalogWell
    <3> QED BY <3>1, <3>2
  <2>2. ASSUME NEW q \in Proposal, HasPromotion(d, q)
        PROVE  d.status[q] \in {"promoted", "rolled-back"}
    BY <2>2, <1>6, <1>8 DEF CatalogWell, Catalog
  <2>3. ASSUME NEW q \in Proposal, Replaced(d, q) # None
        PROVE  /\ TargetOf(Replaced(d, q)) = TargetOf(q) /\ HasPromotion(d, Replaced(d, q))
               /\ Replaced(d, q) # q
    BY <2>3, <1>8, ReplacedType DEF CatalogWell
  <2> QED BY <2>1, <2>2, <2>3, <1>8, Zenon DEF CatalogWell
<1> QED BY <1>2, <1>6, <1>7, <1>8, <1>9 DEF d

\* A command that neither promotes nor rolls back.
Quiet(c, d) ==
  /\ d \in Catalog /\ CatalogWell(d) /\ d.revision = c.revision + 1 /\ Agree(c, d)

LEMMA AdvanceIsQuiet ==
  ASSUME NEW c \in Catalog, CatalogWell(c), NEW p \in Proposal, NEW s \in Status,
         c.status[p] \in {"promoted", "rolled-back"} => s = c.status[p]
  PROVE  Quiet(c, Advance(c, p, s))
<1> DEFINE d == Advance(c, p, s)
<1>1. /\ d \in Catalog /\ d.revision = c.revision + 1 /\ d.active = c.active
      /\ d.status = [c.status EXCEPT ![p] = s] /\ d.audits = c.audits
  BY AdvanceIs
<1> HIDE DEF d
<1>2. ASSUME NEW q \in Proposal
      PROVE  /\ (HasPromotion(d, q) <=> HasPromotion(c, q)) /\ Replaced(d, q) = Replaced(c, q)
             /\ \A x, y \in AuditsOf(d, q) : x.kind = "promotion" /\ y.kind = "promotion" => x = y
  <2>1. AuditsOf(d, q) = AuditsOf(c, q)
    BY <1>1 DEF AuditsOf
  <2> QED BY <2>1, SamePromotions
<1>3. CatalogWell(d)
  <2>1. ASSUME NEW q \in Proposal, HasPromotion(d, q)
        PROVE  d.status[q] \in {"promoted", "rolled-back"}
    BY <2>1, <1>1, <1>2 DEF CatalogWell, Catalog
  <2>2. \A u \in Target : c.active[u] \in Proposal \union {None}
    BY DEF Catalog
  <2>3. \A q \in Proposal : Replaced(c, q) \in Proposal \union {None}
    BY ReplacedType
  <2> QED BY <2>1, <2>2, <2>3, <1>1, <1>2 DEF CatalogWell
<1>4. Agree(c, d)
  BY <1>1, <1>2 DEF Agree
<1> QED BY <1>1, <1>3, <1>4 DEF Quiet, d

LEMMA AuditedIsQuiet ==
  ASSUME NEW c \in Catalog, CatalogWell(c), NEW p \in Proposal, NEW s \in Status,
         c.status[p] \in {"promoted", "rolled-back"} => s = c.status[p],
         NEW kind \in {"rejection", "archive", "unarchive"}
  PROVE  Quiet(c, Audited(Advance(c, p, s), p, kind, None, None))
<1> DEFINE b == Advance(c, p, s)
           a == [kind |-> kind, command |-> None, restored |-> None]
           d == Audited(b, p, kind, None, None)
<1>1. b \in Catalog /\ CatalogWell(b) /\ b.revision = c.revision + 1 /\ Agree(c, b)
  BY AdvanceIsQuiet DEF Quiet
<1> HIDE DEF b
<1>2. a \in Audit
  BY DEF Audit
<1>3. /\ d \in Catalog /\ d.revision = b.revision /\ d.status = b.status /\ d.active = b.active
      /\ d.audits = [b.audits EXCEPT ![p] = Append(@, a)]
  BY <1>1, <1>2, AuditedIs
<1> HIDE DEF d
<1>4. ASSUME NEW q \in Proposal
      PROVE  /\ (HasPromotion(d, q) <=> HasPromotion(b, q)) /\ Replaced(d, q) = Replaced(b, q)
             /\ \A x, y \in AuditsOf(d, q) : x.kind = "promotion" /\ y.kind = "promotion" => x = y
  <2>1. /\ AuditsOf(d, p) = AuditsOf(b, p) \union {a}
        /\ \A r \in Proposal \ {p} : AuditsOf(d, r) = AuditsOf(b, r)
    BY <1>1, <1>2, <1>3, OneMore
  <2>2. \A x : x \in AuditsOf(d, q) /\ x.kind = "promotion"
                 <=> x \in AuditsOf(b, q) /\ x.kind = "promotion"
    BY <2>1
  <2> QED BY <1>1, <2>2, SamePromotions
<1>5. CatalogWell(d)
  <2>1. ASSUME NEW q \in Proposal, HasPromotion(d, q)
        PROVE  d.status[q] \in {"promoted", "rolled-back"}
    BY <2>1, <1>1, <1>3, <1>4 DEF CatalogWell
  <2>2. \A u \in Target : b.active[u] \in Proposal \union {None}
    BY <1>1 DEF Catalog
  <2>3. \A q \in Proposal : Replaced(b, q) \in Proposal \union {None}
    BY <1>1, ReplacedType
  <2> QED BY <2>1, <2>2, <2>3, <1>1, <1>3, <1>4 DEF CatalogWell
<1>6. Agree(c, d)
  BY <1>1, <1>3, <1>4 DEF Agree
<1> QED BY <1>1, <1>3, <1>5, <1>6 DEF Quiet, d, b

LEMMA LegacyIs ==
  ASSUME NEW old \in Legacy
  PROVE  LegacyCatalog(old) \in Catalog /\ CatalogWell(LegacyCatalog(old))
<1> DEFINE promoted == {old.promoted[i] : i \in DOMAIN old.promoted}
           Below(p) == {old.promoted[i + 1] :
                          i \in {i \in 1..Len(old.promoted) - 1 : old.promoted[i] = p}}
           R(p) == IF Below(p) = {} THEN None ELSE CHOOSE q \in Below(p) : TRUE
           a(p) == [kind |-> "promotion", command |-> None, restored |-> R(p)]
           s(p) == IF p \in promoted THEN "promoted" ELSE IF p \in old.passed THEN "passed" ELSE "absent"
           act(t) == IF t = "strategy" /\ promoted # {} THEN old.promoted[1] ELSE None
           c == LegacyCatalog(old)
<1>1. /\ old.revision \in Nat /\ old.promoted \in Seq(Proposal \ Prompt)
      /\ DOMAIN old.promoted = 1..Len(old.promoted) /\ Len(old.promoted) \in Nat
      /\ \A i \in 1..Len(old.promoted) : old.promoted[i] \in Proposal \ Prompt
      /\ \A i, k \in 1..Len(old.promoted) : old.promoted[i] = old.promoted[k] => i = k
  BY LegacyAssumption
<1>2. promoted \subseteq Proposal \ Prompt /\ \A p : Below(p) \subseteq promoted \ {p}
  <2>1. promoted \subseteq Proposal \ Prompt
    BY <1>1
  <2>2. ASSUME NEW p, NEW i \in 1..Len(old.promoted) - 1, old.promoted[i] = p
        PROVE  old.promoted[i + 1] \in promoted /\ old.promoted[i + 1] # p
    <3>1. i \in 1..Len(old.promoted) /\ i + 1 \in 1..Len(old.promoted) /\ i # i + 1
      BY <1>1
    <3> QED BY <3>1, <2>2, <1>1
  <2> QED BY <2>1, <2>2
<1>3. promoted # {} => old.promoted[1] \in promoted
  BY <1>1
<1> HIDE DEF promoted, Below
<1>4. \A p : R(p) \in (promoted \ {p}) \union {None}
  <2>1. ASSUME NEW p, Below(p) # {} PROVE (CHOOSE q \in Below(p) : TRUE) \in Below(p)
    BY <2>1
  <2> QED BY <2>1, <1>2
<1> HIDE DEF R
<1>5. \A p : a(p) \in Audit
  BY <1>2, <1>4 DEF Audit
<1>6. c = [revision |-> old.revision, status |-> [p \in Proposal |-> s(p)],
           active |-> [t \in Target |-> act(t)],
           audits |-> [p \in Proposal |-> IF p \notin promoted THEN <<>> ELSE <<a(p)>>]]
  BY Zenon DEF LegacyCatalog, R, promoted, Below
<1> HIDE DEF c
<1>7. \A p : a(p).kind = "promotion" /\ a(p).restored = R(p)
  OBVIOUS
<1> HIDE DEF a
<1>8. c \in Catalog
  <2>1. [p \in Proposal |-> s(p)] \in [Proposal -> Status]
    BY DEF Status
  <2>2. [t \in Target |-> act(t)] \in [Target -> Proposal \union {None}]
    BY <1>2, <1>3
  <2>3. [p \in Proposal |-> IF p \notin promoted THEN <<>> ELSE <<a(p)>>] \in [Proposal -> Seq(Audit)]
    <3>1. ASSUME NEW p \in Proposal PROVE <<>> \in Seq(Audit) /\ <<a(p)>> \in Seq(Audit)
      BY <1>5
    <3> QED BY <3>1
  <2> QED BY <1>1, <1>6, <2>1, <2>2, <2>3 DEF Catalog
<1>9. \A p \in Proposal : AuditsOf(c, p) = IF p \in promoted THEN {a(p)} ELSE {}
  <2>1. ASSUME NEW p \in Proposal, p \in promoted PROVE AuditsOf(c, p) = {a(p)}
    <3>1. c.audits[p] = <<a(p)>>
      BY <1>6, <2>1
    <3> QED BY <3>1 DEF AuditsOf
  <2>2. ASSUME NEW p \in Proposal, p \notin promoted PROVE AuditsOf(c, p) = {}
    <3>1. c.audits[p] = <<>>
      BY <1>6, <2>2
    <3> QED BY <3>1 DEF AuditsOf
  <2> QED BY <2>1, <2>2
<1>10. \A p \in Proposal :
        /\ HasPromotion(c, p) <=> p \in promoted
        /\ \A x, y \in AuditsOf(c, p) : x.kind = "promotion" /\ y.kind = "promotion" => x = y
  BY <1>9, <1>7 DEF HasPromotion
<1>11. ASSUME NEW p \in Proposal, Replaced(c, p) # None
       PROVE  /\ TargetOf(Replaced(c, p)) = TargetOf(p) /\ HasPromotion(c, Replaced(c, p))
              /\ Replaced(c, p) # p
  <2>1. HasPromotion(c, p) /\ p \in promoted
    BY <1>11, <1>10 DEF Replaced
  <2>2. Promotion(c, p) = a(p)
    BY <2>1, <1>9 DEF HasPromotion, Promotion
  <2>3. Replaced(c, p) = R(p)
    BY <2>1, <2>2, <1>7 DEF Replaced
  <2>4. R(p) \in promoted \ {p}
    BY <1>11, <2>3, <1>4
  <2> QED BY <2>3, <2>4, <2>1, <1>2, <1>10 DEF TargetOf
<1>12. \A t \in Target : c.active[t] # None =>
         TargetOf(c.active[t]) = t /\ HasPromotion(c, c.active[t])
  <2>1. ASSUME NEW t \in Target, c.active[t] # None
        PROVE  t = "strategy" /\ c.active[t] \in promoted
    BY <2>1, <1>2, <1>3, <1>6
  <2> QED BY <2>1, <1>2, <1>10 DEF TargetOf
<1>13. \A p \in Proposal : HasPromotion(c, p) => c.status[p] \in {"promoted", "rolled-back"}
  BY <1>6, <1>10
<1> QED BY <1>8, <1>10, <1>11, <1>12, <1>13, Zenon DEF CatalogWell, c
-----------------------------------------------------------------------------
(* Chains of proofs.                                                       *)

LEMMA LinkedOnTop ==
  ASSUME NEW c, NEW app \in Application, NEW s \in Seq(Application), Linked(c, s),
         s # <<>> => app.before = s[1].after /\ Replaced(c, app.proposal) = s[1].proposal
  PROVE  Linked(c, <<app>> \o s)
<1> DEFINE r == <<app>> \o s
<1>1. r \in Seq(Application) /\ Len(r) = Len(s) + 1 /\ r[1] = app /\ Len(s) \in Nat
      /\ \A i \in 1..Len(s) : r[i + 1] = s[i]
  OBVIOUS
<1> HIDE DEF r
<1>2. ASSUME NEW i \in 1..Len(r) - 1
      PROVE  r[i].before = r[i + 1].after /\ Replaced(c, r[i].proposal) = r[i + 1].proposal
  <2>1. CASE i = 1
    <3>1. s # <<>> /\ r[2] = s[1]
      BY <2>1, <1>1
    <3> QED BY <3>1, <2>1, <1>1
  <2>2. CASE i > 1
    <3>1. i - 1 \in 1..Len(s) - 1 /\ r[i] = s[i - 1] /\ r[i + 1] = s[i]
      <4>1. i - 1 \in 1..Len(s) /\ i \in 1..Len(s) /\ (i - 1) + 1 = i
        BY <2>2, <1>1
      <4> QED BY <4>1, <1>1
    <3>2. (i - 1) + 1 = i
      BY <2>2
    <3> QED BY <3>1, <3>2 DEF Linked
  <2> QED BY <2>1, <2>2
<1> QED BY <1>2 DEF Linked, r

LEMMA TailIs ==
  ASSUME NEW s \in Seq(Application), Len(s) > 1
  PROVE  Tail(s)[1] = s[2] /\ Tail(s) # <<>>
<1> DEFINE r == Tail(s)
<1>1. r \in Seq(Application) /\ Len(r) = Len(s) - 1 /\ Len(s) \in Nat /\ r[1] = s[1 + 1]
  OBVIOUS
<1> HIDE DEF r
<1>2. r # <<>>
  BY <1>1
<1> QED BY <1>1, <1>2 DEF r

LEMMA LinkedBelow ==
  ASSUME NEW c, NEW s \in Seq(Application), Linked(c, s), Len(s) > 1
  PROVE  Linked(c, Tail(s))
<1> DEFINE r == Tail(s)
<1>1. Len(r) = Len(s) - 1 /\ Len(s) \in Nat /\ \A i \in 1..Len(r) : r[i] = s[i + 1]
  OBVIOUS
<1> HIDE DEF r
<1>2. ASSUME NEW i \in 1..Len(r) - 1
      PROVE  r[i].before = r[i + 1].after /\ Replaced(c, r[i].proposal) = r[i + 1].proposal
  <2>1. i + 1 \in 1..Len(s) - 1 /\ r[i] = s[i + 1] /\ r[i + 1] = s[i + 1 + 1]
    BY <1>1
  <2> QED BY <2>1 DEF Linked
<1> QED BY <1>2 DEF Linked, r

LEMMA WritesOnTop ==
  ASSUME NEW p, NEW app \in Application, NEW s \in Seq(Application),
         p \in Prompt => app.before \in Content, Writes(p, s)
  PROVE  Writes(p, <<app>> \o s)
<1> DEFINE r == <<app>> \o s
<1>1. DOMAIN r = 1..Len(s) + 1 /\ r[1] = app /\ Len(s) \in Nat /\ DOMAIN s = 1..Len(s)
      /\ \A i \in 1..Len(s) : r[i + 1] = s[i]
  OBVIOUS
<1> HIDE DEF r
<1>2. ASSUME NEW i \in DOMAIN r, p \in Prompt PROVE r[i].before \in Content
  <2>1. CASE i = 1
    BY <2>1, <1>1, <1>2
  <2>2. CASE i > 1
    <3>1. i - 1 \in 1..Len(s) /\ (i - 1) + 1 = i
      BY <2>2, <1>1
    <3> QED BY <3>1, <1>1, <1>2 DEF Writes
  <2> QED BY <2>1, <2>2, <1>1
<1> QED BY <1>2 DEF Writes, r

LEMMA WritesBelow ==
  ASSUME NEW p, NEW q, NEW s \in Seq(Application), Len(s) > 1, Writes(p, s),
         q \in Prompt => p \in Prompt
  PROVE  Writes(q, Tail(s))
<1> DEFINE r == Tail(s)
<1>1. DOMAIN r = 1..Len(s) - 1 /\ Len(s) \in Nat /\ DOMAIN s = 1..Len(s)
      /\ \A i \in 1..Len(s) - 1 : r[i] = s[i + 1]
  OBVIOUS
<1> HIDE DEF r
<1>2. ASSUME NEW i \in DOMAIN r, q \in Prompt PROVE r[i].before \in Content
  <2>1. i + 1 \in DOMAIN s /\ r[i] = s[i + 1]
    BY <1>1
  <2> QED BY <2>1, <1>2 DEF Writes
<1> QED BY <1>2 DEF Writes, r
-----------------------------------------------------------------------------
(* The end of an operation.                                                *)

LEMMA PendingType ==
  ASSUME NEW q \in Pending
  PROVE  /\ q.command \in Command /\ q.op \in Operation /\ q.proposal \in Proposal
         /\ q.revision \in Nat /\ q.expected \in Nat /\ q.before \in Holds /\ q.after \in Holds
         /\ q.active \in Proposal \union {None} /\ q.previous \in Seq(Application)
         /\ q.audit \in Audit \union {None} /\ q.base \in Nat \union {None}
BY DEF Pending

LEMMA JournalType ==
  ASSUME NEW j \in Journal
  PROVE  /\ j.pending \in Pending \union {None} /\ j.completed \subseteq Completion
         /\ j.commands \in [Command -> Binding \union {None}]
         /\ j.apps \in [Proposal -> Seq(Application)] /\ j.recovery \in BOOLEAN
BY DEF Journal

LEMMA AnswerType ==
  ASSUME NEW j \in Journal, NEW c \in Catalog, j.pending # None,
         NEW status \in Outcome, NEW after \in Holds
  PROVE  /\ Done(j, c, status, after) \in Completion
         /\ Bound(j, c, status) \in [Command -> Binding \union {None}]
<1> DEFINE q == j.pending
           b == [op |-> q.op, proposal |-> q.proposal, snapshot |-> c.status[q.proposal],
                 status |-> status]
<1>1. /\ q.command \in Command /\ q.op \in Operation /\ q.proposal \in Proposal
      /\ q.revision \in Nat /\ q.before \in Holds
  BY JournalType, PendingType
<1>2. c.revision \in Nat /\ c.status[q.proposal] \in Status
  BY <1>1 DEF Catalog
<1>3. b \in Binding
  BY <1>1, <1>2 DEF Binding
<1>4. Done(j, c, status, after) \in Completion
  BY <1>1, <1>2 DEF Done, Completion
<1>5. j.commands \in [Command -> Binding \union {None}]
  BY JournalType
<1> HIDE DEF b
<1>6. Bound(j, c, status) = [j.commands EXCEPT ![q.command] = IF @ # None THEN @ ELSE b]
  BY DEF Bound, b
<1>7. Bound(j, c, status) \in [Command -> Binding \union {None}]
  BY <1>1, <1>3, <1>5, <1>6
<1> QED BY <1>4, <1>7

LEMMA AbortedIs ==
  ASSUME NEW j \in Journal, NEW c \in Catalog, NEW m \in Catalog, JournalWell(j, c),
         j.pending # None, c.active[TargetOf(j.pending.proposal)] = j.pending.active
  PROVE  LET k == Aborted(j, m) IN
         /\ k \in Journal /\ k.pending = None /\ k.apps = j.apps /\ JournalWell(k, c)
<1> DEFINE k == Aborted(j, m)
<1>1. "aborted" \in Outcome /\ j.pending.before \in Holds
  BY JournalType, PendingType DEF Outcome
<1>2. k \in Journal /\ k.pending = None /\ k.apps = j.apps
  <2>1. PICK kept \in SUBSET j.completed :
          k = [j EXCEPT !.pending = None, !.recovery = FALSE, !.commands = Bound(j, m, "aborted"),
                        !.completed = kept \union {Done(j, m, "aborted", j.pending.before)}]
    BY DEF Aborted
  <2>2. /\ Done(j, m, "aborted", j.pending.before) \in Completion
        /\ Bound(j, m, "aborted") \in [Command -> Binding \union {None}]
    BY <1>1, AnswerType
  <2>3. kept \union {Done(j, m, "aborted", j.pending.before)} \subseteq Completion
    BY <2>2, JournalType
  <2> HIDE DEF k
  <2> QED BY <2>1, <2>2, <2>3 DEF Journal
<1> HIDE DEF k
<1>3. ASSUME NEW p \in Proposal, k.apps[p] # <<>> PROVE ActiveBefore(k, c, TargetOf(p)) = p
  <2>1. ActiveBefore(j, c, TargetOf(p)) = p
    BY <1>2, <1>3 DEF JournalWell, ChainsWell
  <2> QED BY <2>1, <1>2 DEF ActiveBefore
<1>4. JournalWell(k, c)
  BY <1>2, <1>3 DEF JournalWell, ChainsWell
<1> QED BY <1>2, <1>4 DEF k

LEMMA ChainsType ==
  ASSUME NEW apps \in [Proposal -> Seq(Application)], NEW p, NEW chain \in Seq(Application)
  PROVE  [apps EXCEPT ![p] = chain] \in [Proposal -> Seq(Application)]
OBVIOUS

LEMMA FinishedType ==
  ASSUME NEW j \in Journal, NEW m \in Catalog, j.pending # None
  PROVE  LET k == Finished(j, m)
             q == j.pending
             app == [proposal |-> q.proposal, command |-> q.command, status |-> "applied",
                     before |-> q.before, after |-> q.after, safe |-> TRUE,
                     revision |-> m.revision]
             replaced == IF q.op = "promote" /\ q.active # None
                         THEN [j.apps EXCEPT ![q.active] = <<>>] ELSE Forget(j.apps, q.previous)
         IN /\ k \in Journal /\ k.pending = None /\ app \in Application
            /\ replaced \in [Proposal -> Seq(Application)]
            /\ k.apps = IF q.op # "rollback"
                        THEN [replaced EXCEPT ![q.proposal] = <<app>> \o q.previous]
                        ELSE IF Len(q.previous) < 2 THEN [j.apps EXCEPT ![q.proposal] = <<>>]
                        ELSE [j.apps EXCEPT ![q.proposal] = <<>>,
                                            ![q.previous[2].proposal] = Tail(q.previous)]
<1> DEFINE q == j.pending
           status == IF q.op = "rollback" THEN "rolled-back" ELSE "applied"
           app == [proposal |-> q.proposal, command |-> q.command, status |-> "applied",
                   before |-> q.before, after |-> q.after, safe |-> TRUE, revision |-> m.revision]
           replaced == IF q.op = "promote" /\ q.active # None
                       THEN [j.apps EXCEPT ![q.active] = <<>>] ELSE Forget(j.apps, q.previous)
           apps == IF q.op # "rollback" THEN [replaced EXCEPT ![q.proposal] = <<app>> \o q.previous]
                   ELSE IF Len(q.previous) < 2 THEN [j.apps EXCEPT ![q.proposal] = <<>>]
                   ELSE [j.apps EXCEPT ![q.proposal] = <<>>,
                                       ![q.previous[2].proposal] = Tail(q.previous)]
           k == Finished(j, m)
<1>1. /\ q.command \in Command /\ q.proposal \in Proposal /\ q.before \in Holds
      /\ q.after \in Holds /\ q.previous \in Seq(Application) /\ m.revision \in Nat
      /\ q.active \in Proposal \union {None}
  BY JournalType, PendingType DEF Catalog
<1>2. app \in Application
  BY <1>1 DEF Application
<1>3. status \in Outcome
  BY DEF Outcome
<1>4. /\ Done(j, m, status, q.after) \in Completion
      /\ Bound(j, m, status) \in [Command -> Binding \union {None}]
  <2> HIDE DEF status
  <2> QED BY <1>1, <1>3, AnswerType
<1>5. replaced \in [Proposal -> Seq(Application)]
  <2>1. <<>> \in Seq(Application) /\ j.apps \in [Proposal -> Seq(Application)]
    BY JournalType
  <2> QED BY <2>1, ChainsType DEF Forget
<1> HIDE DEF app, replaced
<1>6. <<app>> \o q.previous \in Seq(Application) /\ Tail(q.previous) \in Seq(Application)
  <2>1. CASE q.previous # <<>>
    BY <2>1, <1>1, <1>2
  <2>2. CASE q.previous = <<>>
    BY <2>2, <1>1, <1>2
  <2> QED BY <2>1, <2>2
<1>7. apps \in [Proposal -> Seq(Application)]
  <2>1. <<>> \in Seq(Application) /\ j.apps \in [Proposal -> Seq(Application)]
    BY JournalType
  <2>2. [replaced EXCEPT ![q.proposal] = <<app>> \o q.previous] \in [Proposal -> Seq(Application)]
    BY <1>5, <1>6, ChainsType
  <2>3. [j.apps EXCEPT ![q.proposal] = <<>>] \in [Proposal -> Seq(Application)]
    BY <2>1, ChainsType
  <2>4. [[j.apps EXCEPT ![q.proposal] = <<>>] EXCEPT ![q.previous[2].proposal] = Tail(q.previous)]
          \in [Proposal -> Seq(Application)]
    BY <2>3, <1>6, ChainsType
  <2> QED BY <2>2, <2>3, <2>4
<1>8. k = [j EXCEPT !.pending = None, !.recovery = FALSE, !.commands = Bound(j, m, status),
                    !.completed = @ \union {Done(j, m, status, q.after)}, !.apps = apps]
  BY Zenon DEF Finished, app, replaced
<1>9. j.completed \union {Done(j, m, status, q.after)} \subseteq Completion
  BY <1>4, JournalType
<1> HIDE DEF apps, k, status
<1>10. k \in Journal /\ k.pending = None /\ k.apps = apps
  BY <1>4, <1>7, <1>8, <1>9 DEF Journal
<1> QED BY <1>2, <1>5, <1>10, Zenon DEF app, replaced, apps, k

\* The chain of the proposal that an operation is about holds, and nobody else on its target has one.
LEMMA FinishedIs ==
  ASSUME NEW j \in Journal, NEW c \in Catalog, NEW m \in Catalog, CatalogWell(c),
         JournalWell(j, c), j.pending # None, Agree(c, m), After(m, j.pending)
  PROVE  LET k == Finished(j, m) IN
         /\ k \in Journal /\ k.pending = None /\ JournalWell(k, c)
         /\ \A r \in Proposal :
              TargetOf(r) # TargetOf(j.pending.proposal) => k.apps[r] = j.apps[r]
<1> DEFINE q == j.pending
           p == q.proposal
           t == TargetOf(p)
           s == q.previous
           k == Finished(j, m)
           app == [proposal |-> q.proposal, command |-> q.command, status |-> "applied",
                   before |-> q.before, after |-> q.after, safe |-> TRUE, revision |-> m.revision]
           replaced == IF q.op = "promote" /\ q.active # None
                       THEN [j.apps EXCEPT ![q.active] = <<>>] ELSE Forget(j.apps, s)
<1>1. /\ k \in Journal /\ k.pending = None /\ app \in Application
      /\ replaced \in [Proposal -> Seq(Application)]
      /\ k.apps = IF q.op # "rollback" THEN [replaced EXCEPT ![p] = <<app>> \o s]
                  ELSE IF Len(s) < 2 THEN [j.apps EXCEPT ![p] = <<>>]
                  ELSE [j.apps EXCEPT ![p] = <<>>, ![s[2].proposal] = Tail(s)]
  BY FinishedType
<1>2. /\ p \in Proposal /\ q.active \in Proposal \union {None} /\ s \in Seq(Application)
      /\ q.op \in Operation /\ j.apps \in [Proposal -> Seq(Application)] /\ t \in Target
  BY JournalType, PendingType, Targets
<1>3. Planned(j, c, q) /\ ChainsWell(j, c) /\ None \notin Proposal
  BY OutsideAssumption DEF JournalWell
<1>4. /\ c.active[t] = IF q.op = "rollback" THEN q.audit.restored ELSE p
      /\ q.op = "promote" => Replaced(c, p) = q.active
  BY <1>2 DEF After, Agree
<1>5. app.proposal = p /\ app.before = q.before
  OBVIOUS
<1>6. \A i \in 1..Len(s) : s[i] \in Application /\ s[i].proposal \in Proposal
  <2>1. \A a \in Application : a.proposal \in Proposal
    BY DEF Application
  <2> HIDE DEF s
  <2> QED BY <1>2, <2>1
<1>7. s # <<>> => 1 \in 1..Len(s)
  BY <1>2
<1> HIDE DEF app, replaced, k
\* Who had a proof on the target was in force there.
<1>8. ASSUME NEW r \in Proposal, j.apps[r] # <<>>
      PROVE  /\ TargetOf(r) = t => r = q.active
             /\ TargetOf(r) # t => c.active[TargetOf(r)] = r
  BY <1>3, <1>8 DEF ChainsWell, ActiveBefore
<1>9. ASSUME NEW r \in Proposal, k.apps[r] = j.apps[r], j.apps[r] # <<>>, c.active[TargetOf(r)] = r
      PROVE  /\ k.apps[r][1].proposal = r /\ Linked(c, k.apps[r]) /\ Writes(r, k.apps[r])
             /\ ActiveBefore(k, c, TargetOf(r)) = r
  BY <1>1, <1>3, <1>9 DEF ChainsWell, ActiveBefore
<1>10. CASE q.op # "rollback"
  <2>1. /\ s # <<>> => /\ s[1].proposal = Replaced(c, p) /\ q.before = s[1].after
                       /\ TargetOf(s[1].proposal) = t
        /\ Linked(c, s) /\ Writes(p, s)
        /\ q.op = "promote" /\ q.active = None => s = <<>>
        /\ q.op = "promote" /\ q.active # None => TargetOf(q.active) = t
    <3>1. CASE q.op = "promote"
      <4>1. CASE q.active = None
        <5>1. s = <<>>
          BY <3>1, <4>1, <1>3 DEF Planned, ProofsFor
        <5> QED BY <5>1, <4>1 DEF Linked, Writes
      <4>2. CASE q.active # None
        <5>1. /\ s = j.apps[q.active] /\ TargetOf(q.active) = t /\ s # <<>> /\ q.before = s[1].after
          BY <3>1, <4>2, <1>3 DEF Planned, ProofsFor
        <5>2. s[1].proposal = q.active /\ Linked(c, s) /\ Writes(q.active, s)
          BY <5>1, <4>2, <1>2, <1>3 DEF ChainsWell
        <5>3. p \in Prompt => q.active \in Prompt
          BY <5>1 DEF TargetOf
        <5>4. Writes(p, s)
          BY <5>2, <5>3 DEF Writes
        <5> QED BY <5>1, <5>2, <5>4, <4>2, <3>1, <1>4
      <4> QED BY <4>1, <4>2
    <3>2. CASE q.op = "reconcile"
      <4>1. /\ Len(s) <= 1
            /\ s # <<>> => /\ Replaced(c, p) = s[1].proposal /\ q.before = s[1].after
                           /\ p \in Prompt => s[1].before \in Content
        BY <3>2, <1>3 DEF Planned
      <4>2. Linked(c, s)
        BY <4>1, <1>2 DEF Linked
      <4>3. Writes(p, s)
        <5>1. \A i \in DOMAIN s : i = 1 /\ s # <<>>
          BY <4>1, <1>2
        <5> QED BY <5>1, <4>1 DEF Writes
      <4>4. s # <<>> => TargetOf(s[1].proposal) = t
        <5>1. s # <<>> => s[1].proposal # None
          BY <1>6, <1>7, <1>3
        <5> QED BY <5>1, <4>1, <1>2 DEF CatalogWell
      <4> QED BY <4>1, <4>2, <4>3, <4>4, <3>2
    <3> QED BY <3>1, <3>2, <1>2, <1>10 DEF Operation
  <2>2. Linked(c, <<app>> \o s) /\ Writes(p, <<app>> \o s)
    <3>1. p \in Prompt => q.before \in Content
      BY <1>3 DEF Planned
    <3> QED BY <3>1, <2>1, <1>1, <1>2, <1>5, LinkedOnTop, WritesOnTop
  <2>3. (<<app>> \o s)[1] = app /\ <<app>> \o s # <<>>
    BY <1>1, <1>2
  <2>4. k.apps[p] = <<app>> \o s
    BY <1>1, <1>2, <1>10
  <2>5. \A r \in Proposal \ {p} : k.apps[r] = replaced[r]
    BY <1>1, <1>2, <1>10
  <2>6. ASSUME NEW r \in Proposal
        PROVE  replaced[r] = IF \/ q.op = "promote" /\ q.active = r
                                \/ ~(q.op = "promote" /\ q.active # None) /\ s # <<>> /\ s[1].proposal = r
                             THEN <<>> ELSE j.apps[r]
    BY <1>2, <1>3 DEF replaced, Forget
  <2>7. ASSUME NEW r \in Proposal, TargetOf(r) # t PROVE k.apps[r] = j.apps[r]
    <3>1. r # p
      BY <2>7
    <3> QED BY <3>1, <2>1, <2>5, <2>6, <2>7, <1>3
  <2>8. ASSUME NEW r \in Proposal, k.apps[r] # <<>>
        PROVE  /\ k.apps[r][1].proposal = r /\ Linked(c, k.apps[r]) /\ Writes(r, k.apps[r])
               /\ ActiveBefore(k, c, TargetOf(r)) = r
    <3>1. CASE r = p
      <4>1. ActiveBefore(k, c, t) = p
        BY <1>1, <1>4, <1>10 DEF ActiveBefore
      <4> QED BY <4>1, <3>1, <2>2, <2>3, <2>4, <1>5
    <3>2. CASE r # p
      <4>1. k.apps[r] = j.apps[r] /\ ~(q.op = "promote" /\ q.active = r)
        BY <3>2, <2>5, <2>6, <2>8
      <4>2. TargetOf(r) # t
        <5>1. CASE q.op = "promote"
          BY <5>1, <4>1, <1>8, <2>8
        <5>2. CASE q.op = "reconcile"
          <6>1. q.active = p
            BY <5>2, <1>3 DEF Planned
          <6> QED BY <6>1, <4>1, <1>8, <2>8, <3>2
        <5> QED BY <5>1, <5>2, <1>2, <1>10 DEF Operation
      <4> QED BY <4>1, <4>2, <1>8, <1>9, <2>8
    <3> QED BY <3>1, <3>2
  <2>9. ChainsWell(k, c)
    BY <2>8, Zenon DEF ChainsWell
  <2> QED BY <2>7, <2>9, <1>1 DEF JournalWell, k
<1>11. CASE q.op = "rollback"
  <2>1. /\ q.active = p /\ s = j.apps[p] /\ s # <<>>
        /\ q.audit.restored = IF Len(s) > 1 THEN s[2].proposal ELSE None
    BY <1>3, <1>11 DEF Planned
  <2>2. s[1].proposal = p /\ Linked(c, s) /\ Writes(p, s) /\ Len(s) \in Nat
    BY <2>1, <1>2, <1>3 DEF ChainsWell
  <2>3. CASE Len(s) < 2
    <3>1. k.apps = [j.apps EXCEPT ![p] = <<>>]
      BY <2>3, <1>1, <1>11
    <3>2. ASSUME NEW r \in Proposal, TargetOf(r) # t PROVE k.apps[r] = j.apps[r]
      BY <3>1, <3>2, <1>2
    <3>3. ASSUME NEW r \in Proposal, k.apps[r] # <<>>
          PROVE  /\ k.apps[r] = j.apps[r] /\ TargetOf(r) # t
      BY <3>1, <3>3, <1>2, <1>8, <2>1
    <3>4. ChainsWell(k, c)
      BY <3>3, <1>8, <1>9 DEF ChainsWell
    <3> QED BY <3>2, <3>4, <1>1 DEF JournalWell, k
  <2>4. CASE Len(s) >= 2
    <3> DEFINE b == s[2].proposal
    <3>1. b \in Proposal /\ Replaced(c, p) = b
      <4>1. 2 \in 1..Len(s) /\ 1 \in 1..Len(s) - 1 /\ 1 + 1 = 2
        BY <2>2, <2>4
      <4> QED BY <4>1, <2>2, <1>6 DEF Linked
    <3>2. TargetOf(b) = t
      BY <3>1, <1>2, <1>3 DEF CatalogWell
    <3>3. k.apps = [j.apps EXCEPT ![p] = <<>>, ![b] = Tail(s)]
      BY <2>2, <2>4, <1>1, <1>11
    <3>4. c.active[t] = b
      BY <2>1, <2>2, <2>4, <1>4, <1>11
    <3>5. Tail(s)[1] = s[2] /\ Tail(s) # <<>>
      <4>1. Len(s) > 1
        BY <2>2, <2>4
      <4> QED BY <4>1, <1>2, TailIs
    <3>6. Linked(c, Tail(s)) /\ Writes(b, Tail(s))
      <4>1. b \in Prompt => p \in Prompt
        BY <3>2 DEF TargetOf
      <4>2. Len(s) > 1
        BY <2>2, <2>4
      <4> QED BY <4>1, <4>2, <2>2, <1>2, LinkedBelow, WritesBelow
    <3> HIDE DEF b
    <3>7. k.apps[b] = Tail(s) /\ \A r \in Proposal \ {b, p} : k.apps[r] = j.apps[r]
      BY <3>1, <3>3, <1>2
    <3>8. p # b => k.apps[p] = <<>>
      BY <3>1, <3>3, <1>2
    <3>9. ASSUME NEW r \in Proposal, TargetOf(r) # t PROVE k.apps[r] = j.apps[r]
      BY <3>2, <3>7, <3>9
    <3>10. ASSUME NEW r \in Proposal, k.apps[r] # <<>>
           PROVE  /\ k.apps[r][1].proposal = r /\ Linked(c, k.apps[r]) /\ Writes(r, k.apps[r])
                  /\ ActiveBefore(k, c, TargetOf(r)) = r
      <4>1. CASE r = b
        <5>1. ActiveBefore(k, c, t) = b
          BY <3>4, <1>1 DEF ActiveBefore
        <5>2. k.apps[r][1].proposal = b
          BY <4>1, <3>5, <3>7 DEF b
        <5> QED BY <5>1, <5>2, <4>1, <3>2, <3>6, <3>7
      <4>2. CASE r # b
        <5>1. r # p /\ k.apps[r] = j.apps[r]
          BY <4>2, <3>7, <3>8, <3>10
        <5> QED BY <5>1, <1>8, <1>9, <2>1, <3>10
      <4> QED BY <4>1, <4>2
    <3>11. ChainsWell(k, c)
      BY <3>10, Zenon DEF ChainsWell
    <3> QED BY <3>9, <3>11, <1>1 DEF JournalWell, k
  <2> QED BY <2>2, <2>3, <2>4
<1> QED BY <1>10, <1>11
-----------------------------------------------------------------------------
(* The journal under a change of the catalog.                              *)

LEMMA ChainsUnderCatalog ==
  ASSUME NEW j \in Journal, NEW c \in Catalog, NEW d, ChainsWell(j, c),
         \A u \in Target : ActiveBefore(j, d, u) = ActiveBefore(j, c, u),
         \A r \in Proposal : Replaced(c, r) # None => Replaced(d, r) = Replaced(c, r)
  PROVE  ChainsWell(j, d)
<1>1. ASSUME NEW r \in Proposal, j.apps[r] # <<>>
      PROVE  /\ j.apps[r][1].proposal = r /\ Linked(d, j.apps[r]) /\ Writes(r, j.apps[r])
             /\ ActiveBefore(j, d, TargetOf(r)) = r
  <2> DEFINE s == j.apps[r]
  <2>1. s \in Seq(Application)
    BY JournalType
  <2>2. s[1].proposal = r /\ Linked(c, s) /\ Writes(r, s) /\ ActiveBefore(j, c, TargetOf(r)) = r
    BY <1>1 DEF ChainsWell
  <2> HIDE DEF s
  <2>3. ASSUME NEW i \in 1..Len(s) - 1
        PROVE  s[i].before = s[i + 1].after /\ Replaced(d, s[i].proposal) = s[i + 1].proposal
    <3>1. s[i].before = s[i + 1].after /\ Replaced(c, s[i].proposal) = s[i + 1].proposal
      BY <2>2 DEF Linked
    <3>2. s[i] \in Application /\ s[i + 1] \in Application
      <4>1. i \in 1..Len(s) /\ i + 1 \in 1..Len(s)
        BY <2>1
      <4> QED BY <4>1, <2>1
    <3>3. s[i].proposal \in Proposal /\ s[i + 1].proposal \in Proposal
      BY <3>2 DEF Application
    <3> QED BY <3>1, <3>3, OutsideAssumption
  <2>4. Linked(d, s)
    BY <2>3 DEF Linked
  <2> QED BY <2>2, <2>4, Targets DEF s
<1> QED BY <1>1, Zenon DEF ChainsWell

LEMMA WellWhenQuiet ==
  ASSUME NEW j \in Journal, NEW c \in Catalog, NEW d \in Catalog, JournalWell(j, c), Agree(c, d),
         j.pending = None
  PROVE  JournalWell(j, d)
<1>1. ChainsWell(j, d)
  BY ChainsUnderCatalog DEF JournalWell, Agree, ActiveBefore
<1> QED BY <1>1 DEF JournalWell

OutcomeFor(c, q) ==
  IF q.op = "promote" THEN Promote(c, q.proposal, q.command)
  ELSE RollBack(c, q.proposal, q.command)

\* What CommitCatalog and SettleFinish make of the catalog is what the journal says of it.
LEMMA OutcomeIs ==
  ASSUME NEW j \in Journal, NEW c \in Catalog, CatalogWell(c), JournalWell(j, c),
         j.pending # None, j.pending.op # "reconcile", Before(c, j.pending)
  PROVE  LET d == OutcomeFor(c, j.pending) IN
         /\ d \in Catalog /\ CatalogWell(d) /\ d.revision = c.revision + 1
         /\ JournalWell(j, d) /\ After(d, j.pending) /\ OutcomeReached(d, j.pending)
         /\ \A u \in Target : u # TargetOf(j.pending.proposal) => d.active[u] = c.active[u]
<1> DEFINE q == j.pending
           p == q.proposal
           t == TargetOf(p)
           d == OutcomeFor(c, q)
<1>1. /\ p \in Proposal /\ q.command \in Command /\ t \in Target /\ q.op \in Operation
      /\ q.revision \in Nat /\ c.active \in [Target -> Proposal \union {None}]
      /\ c.status \in [Proposal -> Status]
  BY JournalType, PendingType, Targets DEF Catalog
<1>2. Planned(j, c, q) /\ ChainsWell(j, c) /\ None \notin Proposal
  BY OutsideAssumption DEF JournalWell
<1>3. c.revision = q.revision /\ c.active[t] = q.active
  BY DEF Before
<1> DEFINE restored == IF q.op = "promote" THEN q.active ELSE Replaced(c, p)
           status == IF q.op = "promote" THEN "promoted" ELSE "rolled-back"
           now == IF q.op = "promote" THEN p ELSE Replaced(c, p)
<1>4. /\ d \in Catalog /\ CatalogWell(d) /\ d.revision = c.revision + 1
      /\ d.status = [c.status EXCEPT ![p] = status]
      /\ d.active = [c.active EXCEPT ![t] = now]
      /\ \A r \in Proposal \ {p} : Replaced(d, r) = Replaced(c, r)
      /\ Replaced(d, p) = restored
      /\ d.audits[p] # <<>>
      /\ Latest(d.audits[p]) =
           [kind |-> IF q.op = "promote" THEN "promotion" ELSE "rollback",
            command |-> q.command, restored |-> restored]
  <2>1. CASE q.op = "promote"
    <3>1. c.status[p] = "passed" /\ d = Promote(c, p, q.command)
      BY <2>1 DEF Before, OutcomeFor
    <3> HIDE DEF d
    <3> QED BY <3>1, <2>1, <1>1, <1>3, PromoteIs
  <2>2. CASE q.op # "promote"
    <3>1. q.op = "rollback" /\ c.status[p] = "promoted" /\ d = RollBack(c, p, q.command)
      BY <2>2, <1>1 DEF Before, OutcomeFor, Operation
    <3> HIDE DEF d
    <3> QED BY <3>1, <2>2, <1>1, <1>3, RollBackIs
  <2> QED BY <2>1, <2>2
<1> HIDE DEF d
<1>5. \A r \in Proposal : Replaced(c, r) # None => Replaced(d, r) = Replaced(c, r)
  <2>1. CASE q.op = "promote"
    <3>1. Replaced(c, p) = None
      BY <2>1, <1>1 DEF CatalogWell, Before, Replaced
    <3> QED BY <3>1, <1>4
  <2>2. CASE q.op # "promote"
    BY <2>2, <1>4
  <2> QED BY <2>1, <2>2
<1>6. \A u \in Target : u # t => d.active[u] = c.active[u]
  BY <1>1, <1>4
<1>7. ChainsWell(j, d)
  <2>1. \A u \in Target : ActiveBefore(j, d, u) = ActiveBefore(j, c, u)
    BY <1>6 DEF ActiveBefore
  <2> QED BY <2>1, <1>2, <1>5, ChainsUnderCatalog
<1>8. Planned(j, d, q)
  BY <1>2 DEF Planned
<1>9. JournalWell(j, d)
  BY <1>1, <1>3, <1>4, <1>7, <1>8 DEF JournalWell
<1>10. q.audit = Latest(d.audits[p]) /\ q.audit.restored = restored /\ q.expected = d.revision
  <2>1. q.expected = d.revision
    BY <1>2, <1>3, <1>4 DEF Planned
  <2>2. CASE q.op = "promote"
    BY <2>1, <2>2, <1>2, <1>4 DEF Planned
  <2>3. CASE q.op = "rollback"
    <3>1. q.audit.restored = Replaced(c, p)
      BY <2>3 DEF Before
    <3>2. PICK x : q.audit = [kind |-> "rollback", command |-> q.command, restored |-> x]
      BY <2>3, <1>2 DEF Planned
    <3>3. x = Replaced(c, p)
      BY <3>1, <3>2
    <3> QED BY <2>1, <2>3, <3>2, <3>3, <1>4
  <2> QED BY <2>2, <2>3, <1>1 DEF Operation
<1>11. d.active[t] = now /\ d.status[p] = status
  BY <1>1, <1>4
<1>12. After(d, q)
  BY <1>1, <1>4, <1>10, <1>11 DEF After, Operation
<1>13. OutcomeReached(d, q)
  <2>1. Known(d, p)
    BY <1>11 DEF Known
  <2>2. CASE q.op = "promote"
    BY <2>1, <2>2, <1>4, <1>10, <1>11 DEF OutcomeReached
  <2>3. CASE q.op = "rollback"
    BY <2>1, <2>3, <1>4, <1>10, <1>11 DEF OutcomeReached
  <2> QED BY <2>2, <2>3, <1>1 DEF Operation
<1> QED BY <1>4, <1>6, <1>9, <1>12, <1>13 DEF d
-----------------------------------------------------------------------------
(* The initial worlds.                                                     *)

LEMMA InitHolds == Init => IInv
<1> SUFFICES ASSUME Init PROVE IInv
  OBVIOUS
<1>1. PICK old \in Legacy :
        /\ catalog = LegacyCatalog(old) /\ memory = LegacyCatalog(old)
        /\ live = [t \in Target |-> IF t = "strategy" THEN old.strategy ELSE old.prompt]
        /\ git = [head |-> 0, touched |-> "other", content |-> old.prompt, staged |-> None]
  BY DEF Init
<1>2. /\ journal = EmptyJournal /\ state = EmptyJournal /\ pc = "down" /\ opened = FALSE
      /\ indeterminate = FALSE /\ previews = {} /\ troubles = 0
      /\ disturbed = [t \in Target |-> FALSE] /\ blind = FALSE
  BY DEF Init
<1>3. catalog \in Catalog /\ CatalogWell(catalog) /\ memory = catalog
  BY <1>1, LegacyIs
<1>4. old.strategy \in Holds /\ old.prompt \in Content /\ Content \subseteq Holds
  BY LegacyAssumption DEF Holds
<1>5. EmptyJournal \in Journal /\ EmptyJournal.pending = None
      /\ \A p \in Proposal : EmptyJournal.apps[p] = <<>>
  <2>1. <<>> \in Seq(Application)
    OBVIOUS
  <2>2. [p \in Proposal |-> <<>>] \in [Proposal -> Seq(Application)]
    BY <2>1
  <2> QED BY <2>2 DEF EmptyJournal, Journal
<1>6. TypeOK
  <2>1. live \in [Target -> Holds] /\ git \in Git
    BY <1>1, <1>4 DEF Git
  <2>2. Cardinality(previews) <= MaxPreviews /\ troubles \in 0..MaxTroubles
    BY <1>2, FS_EmptySet, BoundAssumption
  <2> QED BY <2>1, <2>2, <1>2, <1>3, <1>5 DEF TypeOK, Pc
<1>7. Synchronous /\ CatalogsWell /\ Placed
  BY <1>2, <1>3 DEF Synchronous, CatalogsWell, Placed, Agree, Acting, Settling
<1>8. JournalsWell
  BY <1>2, <1>5 DEF JournalsWell, JournalWell, ChainsWell
<1>9. PreviewsWell /\ ProgressWell
  BY <1>2, <1>5, FS_EmptySet DEF PreviewsWell, ProgressWell, Undisturbed
<1>10. PromptWell
  BY <1>1, <1>4 DEF PromptWell, Target
<1> QED BY <1>6, <1>7, <1>8, <1>9, <1>10 DEF IInv

-----------------------------------------------------------------------------
(* The operations that only change the catalog.                            *)

LEMMA Symmetric == ASSUME NEW c, NEW d, Agree(c, d) PROVE Agree(d, c)
BY DEF Agree

\* Between two operations the coordinator has what the journal says.
LEMMA IdleMeans ==
  ASSUME IInv, Idle
  PROVE  /\ pc = "idle" /\ opened /\ Writable /\ state = journal /\ journal.pending = None
         /\ Agree(catalog, memory)
BY Zenon DEF IInv, Idle, Writable, Synchronous, CatalogsWell

LEMMA MutateKeeps ==
  ASSUME IInv, NEW c, Quiet(memory, c), Mutate(c)
  PROVE  IInv'
<1>1. /\ pc = "idle" /\ opened /\ Writable /\ state = journal /\ journal.pending = None
      /\ Agree(catalog, memory)
  BY IdleMeans DEF Mutate
<1>2. /\ c \in Catalog /\ CatalogWell(c) /\ c.revision = memory.revision + 1 /\ Agree(memory, c)
  BY DEF Quiet
<1>3. TypeOK /\ memory \in Catalog /\ catalog \in Catalog /\ memory.revision \in Nat
  BY DEF IInv, TypeOK, Catalog
<1>4. indeterminate = FALSE /\ memory = catalog /\ CatalogWell(memory)
  BY DEF IInv, TypeOK, CatalogsWell, Mutate, Commit, CommitFails
<1>5. /\ UNCHANGED <<journal, live, git, pc, opened, state, previews, disturbed, blind>>
      /\ troubles' \in 0..MaxTroubles /\ indeterminate' \in BOOLEAN
      /\ \/ catalog' = c /\ memory' = c /\ indeterminate' = FALSE
         \/ catalog' = catalog /\ memory' = memory /\ indeterminate' = FALSE
         \/ catalog' \in {catalog, c} /\ memory' = memory /\ indeterminate' = TRUE
  <2>1. troubles \in 0..MaxTroubles /\ MaxTroubles \in Nat
    BY <1>3, BoundAssumption DEF TypeOK
  <2>2. CASE Commit(c)
    BY <2>1, <2>2, <1>4 DEF Mutate, Commit
  <2>3. CASE CommitFails(c)
    <3>1. troubles' \in 0..MaxTroubles
      BY <2>1, <2>3 DEF CommitFails, Trouble
    <3> QED BY <3>1, <2>3, <1>4 DEF Mutate, CommitFails
  <2> QED BY <2>2, <2>3 DEF Mutate
<1>6. TypeOK'
  BY <1>2, <1>3, <1>5 DEF TypeOK
<1>7. Synchronous' /\ PromptWell'
  BY <1>5 DEF IInv, Synchronous, PromptWell, Writable
<1>8. CatalogsWell'
  <2>1. Agree(c, c) /\ Agree(catalog, memory) /\ Agree(c, memory) /\ Agree(memory, memory)
    BY <1>1, <1>2, <1>4 DEF Agree
  <2>2. catalog' = memory' \/ (indeterminate' /\ catalog' = c /\ memory' = memory)
    BY <1>4, <1>5
  <2>3. CatalogWell(catalog') /\ CatalogWell(memory') /\ Agree(catalog', memory')
    BY <2>1, <1>2, <1>4, <1>5
  <2> QED BY <2>2, <2>3, <1>1, <1>2, <1>5 DEF CatalogsWell, Settling
<1>9. JournalsWell'
  <2>1. journal \in Journal /\ catalog \in Catalog /\ catalog' \in Catalog /\ Agree(catalog, catalog')
    BY <1>2, <1>3, <1>4, <1>5 DEF TypeOK, Agree
  <2>2. JournalWell(journal, catalog)
    BY DEF IInv, JournalsWell
  <2>3. JournalWell(journal, catalog')
    BY <2>1, <2>2, <1>1, WellWhenQuiet
  <2> QED BY <2>3, <1>5 DEF JournalsWell
<1>10. Placed'
  BY <1>1, <1>5 DEF Placed, Acting
<1>11. PreviewsWell'
  <2>1. PreviewsWell
    BY DEF IInv
  <2>2. ASSUME NEW v \in previews PROVE v.revision \in Nat
    BY <1>3 DEF TypeOK, Preview
  <2>3. CASE memory' = memory
    BY <2>1, <2>3, <1>1, <1>5 DEF PreviewsWell, ProofsFor
  <2>4. CASE memory' = c
    <3>1. ASSUME NEW v \in previews
          PROVE  v.revision < memory'.revision
      <4>1. v.revision <= memory.revision
        BY <2>1 DEF PreviewsWell
      <4> QED BY <4>1, <2>2, <2>4, <1>2, <1>3
    <3>2. ASSUME NEW v \in previews
          PROVE  v.revision <= memory'.revision /\ v.revision # memory'.revision
      <4>1. memory'.revision \in Nat
        BY <2>4, <1>2, <1>3
      <4> QED BY <4>1, <3>1, <2>2
    <3> QED BY <2>1, <3>2, <1>1, <1>5 DEF PreviewsWell, Settling
  <2> QED BY <2>3, <2>4, <1>5
<1>12. ProgressWell'
  BY <1>1, <1>5 DEF ProgressWell, Undisturbed
<1> QED BY <1>6, <1>7, <1>8, <1>9, <1>10, <1>11, <1>12 DEF IInv

LEMMA QuietlyMutates ==
  ASSUME IInv, NEW p \in Proposal,
         \/ Propose(p) \/ BeginEvaluation(p) \/ Evaluate(p) \/ Reject(p) \/ Archive(p)
         \/ Unarchive(p) \/ Delete(p)
  PROVE  \E c : Quiet(memory, c) /\ Mutate(c)
<1>1. memory \in Catalog /\ CatalogWell(memory) /\ memory.status[p] \in Status
  BY DEF IInv, TypeOK, CatalogsWell, Catalog
<1>2. \A s \in Status :
        (memory.status[p] \in {"promoted", "rolled-back"} => s = memory.status[p]) =>
          /\ Quiet(memory, Advance(memory, p, s))
          /\ \A kind \in {"rejection", "archive", "unarchive"} :
               Quiet(memory, Audited(Advance(memory, p, s), p, kind, None, None))
  BY <1>1, AdvanceIsQuiet, AuditedIsQuiet
<1>3. CASE Propose(p)
  BY <1>2, <1>3 DEF Propose, Status
<1>4. CASE BeginEvaluation(p)
  BY <1>2, <1>4 DEF BeginEvaluation, Status
<1>5. CASE Evaluate(p)
  BY <1>2, <1>5 DEF Evaluate, Status
<1>6. CASE Reject(p)
  BY <1>2, <1>6 DEF Reject, Status
<1>7. CASE Archive(p)
  BY <1>1, <1>2, <1>7 DEF Archive
<1>8. CASE Unarchive(p)
  BY <1>1, <1>2, <1>8 DEF Unarchive
<1>9. CASE Delete(p)
  BY <1>2, <1>9 DEF Delete, Status
<1> QED BY <1>3, <1>4, <1>5, <1>6, <1>7, <1>8, <1>9

LEMMA CatalogOnly ==
  ASSUME IInv, NEW p \in Proposal,
         \/ Propose(p) \/ BeginEvaluation(p) \/ Evaluate(p) \/ Reject(p) \/ Archive(p)
         \/ Unarchive(p) \/ Delete(p)
  PROVE  IInv'
BY QuietlyMutates, MutateKeeps
-----------------------------------------------------------------------------
(* Previews.                                                               *)

LEMMA MintKeeps ==
  ASSUME IInv, NEW v \in Preview, Mint(v), v.revision = memory.revision,
         v.proposal \in Prompt => v.before \in Content /\ v.after \in Content,
         v.active = memory.active[TargetOf(v.proposal)],
         v.active # None => v.previous # <<>>,
         v.previous = ProofsFor(state, v.active),
         v.op = "promote" /\ v.previous # <<>> => v.before = v.previous[1].after
  PROVE  IInv'
<1>1. pc = "idle" /\ journal.pending = None
  BY IdleMeans DEF Mint
<1>2. previews' = previews \union {v} /\ Cardinality(previews) < MaxPreviews
      /\ UNCHANGED <<journal, catalog, live, git, pc, opened, state, memory, indeterminate,
                     troubles, disturbed, blind>>
  BY DEF Mint
<1>3. TypeOK /\ PreviewsWell
  BY DEF IInv
<1>4. IsFiniteSet(previews') /\ Cardinality(previews') <= MaxPreviews
  <2>1. IsFiniteSet(previews) /\ Cardinality(previews) \in Nat
    BY <1>3, FS_CardinalityType DEF PreviewsWell
  <2>2. Cardinality(previews') <= Cardinality(previews) + 1 /\ IsFiniteSet(previews')
        /\ Cardinality(previews') \in Nat
    <3>1. /\ IsFiniteSet(previews \union {v})
          /\ Cardinality(previews \union {v}) =
               IF v \in previews THEN Cardinality(previews) ELSE Cardinality(previews) + 1
      BY <2>1, FS_AddElement, Zenon
    <3> QED BY <3>1, <2>1, <1>2
  <2> QED BY <2>1, <2>2, <1>2, BoundAssumption
<1>5. TypeOK'
  BY <1>2, <1>3, <1>4 DEF TypeOK
<1>6. Synchronous' /\ PromptWell' /\ CatalogsWell' /\ JournalsWell' /\ Placed' /\ ProgressWell'
  <2>1. Synchronous' /\ PromptWell' /\ CatalogsWell' /\ JournalsWell'
    BY <1>2 DEF IInv, Synchronous, PromptWell, CatalogsWell, JournalsWell, Writable
  <2>2. Placed' /\ ProgressWell'
    BY <1>1, <1>2 DEF Placed, Acting, ProgressWell, Undisturbed
  <2> QED BY <2>1, <2>2
<1>7. PreviewsWell'
  <2>1. memory.revision \in Nat
    BY <1>3 DEF TypeOK, Catalog
  <2>2. ASSUME NEW w \in previews'
        PROVE  /\ w.revision <= memory.revision
               /\ w.proposal \in Prompt => w.before \in Content /\ w.after \in Content
               /\ w.revision = memory.revision =>
                    /\ w.active = memory.active[TargetOf(w.proposal)]
                    /\ w.active # None => w.previous # <<>>
                    /\ w.previous = ProofsFor(state, w.active)
                    /\ w.op = "promote" /\ w.previous # <<>> => w.before = w.previous[1].after
    <3>1. CASE w = v
      BY <3>1, <2>1
    <3>2. CASE w \in previews
      BY <3>2, <1>3 DEF PreviewsWell
    <3> QED BY <3>1, <3>2, <1>2
  <2> QED BY <2>2, <1>1, <1>2, <1>4 DEF PreviewsWell, Settling, ProofsFor
<1> QED BY <1>5, <1>6, <1>7 DEF IInv

LEMMA TargetTypes ==
  ASSUME TypeOK, PromptWell, NEW p \in Proposal
  PROVE  /\ live[TargetOf(p)] \in Holds /\ Definition[p] \in Content /\ Content \subseteq Holds
         /\ p \in Prompt => live[TargetOf(p)] \in Content
         /\ memory.active[TargetOf(p)] \in Proposal \union {None} /\ memory.revision \in Nat
         /\ memory.status[p] \in Status
<1>1. TargetOf(p) \in Target /\ (p \in Prompt => TargetOf(p) = "prompt")
  BY Targets DEF TargetOf
<1>2. live \in [Target -> Holds] /\ memory \in Catalog
  BY DEF TypeOK
<1>3. Definition[p] \in Content
  BY DefinitionAssumption
<1> QED BY <1>1, <1>2, <1>3 DEF PromptWell, Catalog, Holds

LEMMA PreviewPromotionKeeps ==
  ASSUME IInv, NEW p \in Proposal, PreviewPromotion(p)
  PROVE  IInv'
<1> DEFINE t == TargetOf(p)
           active == memory.active[t]
           previous == ProofsOf(active)
           v == [op |-> "promote", proposal |-> p, revision |-> memory.revision,
                 before |-> live[t], after |-> Definition[p], active |-> active,
                 previous |-> previous]
<1>1. /\ Mint(v) /\ (active # None => previous # <<>>)
      /\ previous # <<>> => live[t] = previous[1].after
  BY DEF PreviewPromotion, NoUnreconciledConflict
<1>2. /\ live[t] \in Holds /\ Definition[p] \in Content /\ Content \subseteq Holds
      /\ p \in Prompt => live[t] \in Content
      /\ active \in Proposal \union {None} /\ memory.revision \in Nat
  BY TargetTypes DEF IInv
<1>3. previous = ProofsFor(state, active)
  BY DEF ProofsOf, ProofsFor
<1>4. previous \in Seq(Application)
  <2>1. state.apps \in [Proposal -> Seq(Application)]
    BY JournalType DEF IInv, TypeOK
  <2> QED BY <2>1, <1>2 DEF ProofsOf
<1> HIDE DEF previous, active
<1>5. v \in Preview
  BY <1>2, <1>4 DEF Preview
<1>6. /\ v.revision = memory.revision /\ v.proposal = p /\ v.before = live[t]
      /\ v.after = Definition[p] /\ v.active = active /\ v.previous = previous
      /\ v.op = "promote"
  OBVIOUS
<1> HIDE DEF v
<1> QED BY <1>1, <1>2, <1>3, <1>5, <1>6, MintKeeps DEF active

LEMMA PreviewRollbackKeeps ==
  ASSUME IInv, NEW p \in Proposal, PreviewRollback(p)
  PROVE  IInv'
<1> DEFINE t == TargetOf(p)
           previous == state.apps[p]
           v == [op |-> "rollback", proposal |-> p, revision |-> memory.revision,
                 before |-> live[t], after |-> previous[1].before, active |-> p,
                 previous |-> previous]
<1>1. /\ Mint(v) /\ previous # <<>> /\ memory.active[t] = p
  BY DEF PreviewRollback, CanRollBack
<1>2. /\ live[t] \in Holds /\ (p \in Prompt => live[t] \in Content) /\ memory.revision \in Nat
  BY TargetTypes DEF IInv
<1>3. previous \in Seq(Application)
  BY JournalType DEF IInv, TypeOK
<1>4. previous[1] \in Application /\ 1 \in DOMAIN previous
  <2> HIDE DEF previous
  <2> QED BY <1>1, <1>3
<1>5. previous[1].before \in Holds
  BY <1>4 DEF Application
<1>6. p \in Prompt => previous[1].before \in Content
  <2>1. state = journal
    BY <1>1, IdleMeans DEF Mint
  <2>2. Writes(p, previous)
    BY <2>1, <1>1 DEF IInv, JournalsWell, JournalWell, ChainsWell
  <2> QED BY <2>2, <1>4 DEF Writes
<1>7. p # None
  BY OutsideAssumption
<1>8. previous = ProofsFor(state, p)
  BY <1>7 DEF ProofsFor
<1> HIDE DEF previous
<1>9. v \in Preview
  BY <1>2, <1>3, <1>5 DEF Preview
<1>10. /\ v.revision = memory.revision /\ v.proposal = p /\ v.before = live[t]
       /\ v.after = previous[1].before /\ v.active = p /\ v.previous = previous
       /\ v.op = "rollback"
  OBVIOUS
<1> HIDE DEF v
<1> QED BY <1>1, <1>2, <1>6, <1>8, <1>9, <1>10, MintKeeps

LEMMA ExpireKeeps ==
  ASSUME IInv, NEW v, ExpirePreview(v)
  PROVE  IInv'
<1>1. previews' = previews \ {v}
      /\ UNCHANGED <<journal, catalog, live, git, pc, opened, state, memory, indeterminate,
                     troubles, disturbed, blind>>
  BY DEF ExpirePreview
<1>2. IsFiniteSet(previews) /\ TypeOK /\ PreviewsWell
  BY DEF IInv, PreviewsWell
<1>3. IsFiniteSet(previews') /\ Cardinality(previews') <= MaxPreviews
  <2>1. Cardinality(previews') <= Cardinality(previews) /\ IsFiniteSet(previews')
        /\ Cardinality(previews') \in Nat /\ Cardinality(previews) \in Nat
    BY <1>1, <1>2, FS_Subset, FS_CardinalityType
  <2> QED BY <2>1, <1>2, BoundAssumption DEF TypeOK
<1>4. TypeOK'
  BY <1>1, <1>2, <1>3 DEF TypeOK
<1>5. PreviewsWell'
  BY <1>1, <1>2, <1>3 DEF PreviewsWell, ProofsFor
<1>6. Synchronous' /\ PromptWell' /\ CatalogsWell' /\ JournalsWell'
  BY <1>1 DEF IInv, Synchronous, PromptWell, CatalogsWell, JournalsWell, Writable
<1>7. Placed'
  BY <1>1 DEF IInv, Placed
<1>8. ProgressWell'
  BY <1>1 DEF IInv, ProgressWell, Undisturbed, Pace, Progress, Disputed, Clean, PromptCommitted
<1> QED BY <1>4, <1>5, <1>6, <1>7, <1>8 DEF IInv
-----------------------------------------------------------------------------
(* How an operation begins.                                                *)

LEMMA TroubleType ==
  ASSUME TypeOK, Trouble
  PROVE  troubles' \in 0..MaxTroubles
BY BoundAssumption DEF TypeOK, Trouble

LEMMA StartKeeps ==
  ASSUME IInv, Idle, NEW j \in Journal, NEW left \in SUBSET previews, Start(j, left),
         j.apps = state.apps, j.pending # None, j.pending.op \in Operation,
         Planned(j, catalog, j.pending), Before(memory, j.pending),
         live[TargetOf(j.pending.proposal)] = j.pending.before,
         TargetOf(j.pending.proposal) = "prompt" => Clean
  PROVE  IInv'
<1> DEFINE q == j.pending
           t == TargetOf(q.proposal)
           failed == [j EXCEPT !.recovery = TRUE]
<1>1. /\ pc = "idle" /\ opened /\ Writable /\ state = journal /\ journal.pending = None
      /\ Agree(catalog, memory) /\ TypeOK /\ CatalogsWell /\ JournalsWell /\ PreviewsWell
      /\ PromptWell
  BY IdleMeans DEF IInv
<1>2. /\ UNCHANGED <<catalog, live, git, memory, indeterminate>>
      /\ blind' = indeterminate /\ disturbed' = [disturbed EXCEPT ![t] = FALSE]
      /\ \/ /\ journal' = j /\ state' = j /\ pc' = "apply" /\ previews' = left
            /\ UNCHANGED <<opened, troubles>>
         \/ /\ journal' \in {journal, j} /\ state' = failed /\ pc' = "idle" /\ opened' = FALSE
            /\ UNCHANGED previews /\ Trouble
  BY DEF Start, Persist, PersistFails
<1>3. /\ failed \in Journal /\ failed.apps = j.apps /\ failed.pending = j.pending
  BY DEF Journal
<1>4. /\ q \in Pending /\ t \in Target
  BY JournalType, PendingType, Targets
<1> HIDE DEF failed
<1>5. TypeOK'
  <2>1. previews' \subseteq previews
    BY <1>2
  <2>2. previews' \in SUBSET Preview /\ Cardinality(previews') <= MaxPreviews
    <3>1. Cardinality(previews') <= Cardinality(previews) /\ IsFiniteSet(previews')
          /\ Cardinality(previews') \in Nat /\ Cardinality(previews) \in Nat
      BY <1>1, <2>1, FS_Subset, FS_CardinalityType DEF PreviewsWell
    <3> QED BY <3>1, <1>1, <2>1, BoundAssumption DEF TypeOK
  <2>3. troubles' \in 0..MaxTroubles
    BY <1>1, <1>2, TroubleType DEF TypeOK
  <2>4. /\ journal' \in Journal /\ state' \in Journal /\ pc' \in Pc /\ opened' \in BOOLEAN
        /\ blind' \in BOOLEAN
    BY <1>1, <1>2, <1>3 DEF TypeOK, Pc
  <2>5. disturbed' \in [Target -> BOOLEAN]
    BY <1>1, <1>2 DEF TypeOK
  <2> QED BY <1>1, <1>2, <2>2, <2>3, <2>4, <2>5 DEF TypeOK
<1>6. Synchronous'
  BY <1>2 DEF Synchronous, Writable
<1>7. CatalogsWell'
  BY <1>1, <1>2 DEF CatalogsWell, Settling, Writable
<1>8. JournalWell(j, catalog)
  <2>1. ASSUME NEW r \in Proposal, j.apps[r] # <<>>
        PROVE  /\ j.apps[r][1].proposal = r /\ Linked(catalog, j.apps[r]) /\ Writes(r, j.apps[r])
               /\ ActiveBefore(j, catalog, TargetOf(r)) = r
    <3>1. /\ j.apps[r][1].proposal = r /\ Linked(catalog, j.apps[r]) /\ Writes(r, j.apps[r])
          /\ catalog.active[TargetOf(r)] = r
      BY <2>1, <1>1 DEF JournalsWell, JournalWell, ChainsWell, ActiveBefore
    <3>2. q.active = catalog.active[t]
      BY <1>1, <1>4 DEF Before, Agree
    <3> QED BY <3>1, <3>2 DEF ActiveBefore
  <2>2. ChainsWell(j, catalog)
    BY <2>1, Zenon DEF ChainsWell
  <2>3. catalog.revision = q.revision => Before(catalog, q)
    <3>1. memory.revision = q.revision /\ memory.revision \in Nat
      BY <1>1 DEF Before, TypeOK, Catalog
    <3>2. catalog.revision = q.revision => catalog = memory
      BY <3>1, <1>1 DEF CatalogsWell
    <3> QED BY <3>2
  <2> QED BY <2>2, <2>3 DEF JournalWell
<1>9. JournalsWell'
  BY <1>1, <1>2, <1>8 DEF JournalsWell
<1>10. Placed'
  BY <1>2 DEF Placed, Acting
<1>11. PreviewsWell'
  <2>1. IsFiniteSet(previews') /\ previews' \subseteq previews
    BY <1>1, <1>2, FS_Subset DEF PreviewsWell
  <2>2. state'.apps = state.apps
    BY <1>2, <1>3
  <2> QED BY <2>1, <2>2, <1>1, <1>2 DEF PreviewsWell, ProofsFor, Settling
<1>12. PromptWell'
  BY <1>1, <1>2 DEF PromptWell
<1>13. ProgressWell'
  <2>1. CASE journal' = j
    <3>1. live'[t] = q.before /\ (~blind' => catalog'.revision = q.revision)
      <4>1. ~blind' => memory = catalog
        BY <1>1, <1>2 DEF CatalogsWell
      <4> QED BY <4>1, <2>1, <1>2 DEF Before
    <3>2. t = "prompt" => Clean'
      BY <1>2 DEF Clean
    <3>3. pc' \in {"apply", "idle"}
      BY <1>2
    <3>4. Undisturbed' => Pace'
      BY <2>1, <3>1, <3>2, <3>3 DEF Pace
    <3>5. ~blind' => Progress'
      BY <2>1, <3>1 DEF Progress
    <3> QED BY <3>4, <3>5 DEF ProgressWell, Disputed
  <2>2. CASE journal' = journal
    BY <2>2, <1>1 DEF ProgressWell, Undisturbed
  <2> QED BY <2>1, <2>2, <1>2
<1> QED BY <1>5, <1>6, <1>7, <1>9, <1>10, <1>11, <1>12, <1>13 DEF IInv

LEMMA AuditsSame ==
  ASSUME NEW c \in Catalog, CatalogWell(c), NEW p \in Proposal, NEW command \in Command
  PROVE  /\ c.status[p] = "passed" =>
              Latest(Promote(c, p, command).audits[p]) =
                [kind |-> "promotion", command |-> command, restored |-> c.active[TargetOf(p)]]
         /\ c.status[p] = "promoted" =>
              Latest(RollBack(c, p, command).audits[p]) =
                [kind |-> "rollback", command |-> command, restored |-> Replaced(c, p)]
         /\ [kind |-> "promotion", command |-> command, restored |-> c.active[TargetOf(p)]] \in Audit
         /\ [kind |-> "rollback", command |-> command, restored |-> Replaced(c, p)] \in Audit
<1>1. c.status[p] = "passed" =>
        Latest(Promote(c, p, command).audits[p]) =
          [kind |-> "promotion", command |-> command, restored |-> c.active[TargetOf(p)]]
  <2> DEFINE d == Promote(c, p, command)
             a == [kind |-> "promotion", command |-> command, restored |-> c.active[TargetOf(p)]]
  <2>1. d.audits = [c.audits EXCEPT ![p] = Append(@, a)]
    <3>1. Promotes(c, d, p, command)
      BY PromoteForm
    <3> QED BY <3>1 DEF Promotes, PromotionBy
  <2> HIDE DEF d, a
  <2>2. c.audits[p] \in Seq(Audit) /\ d.audits[p] = Append(c.audits[p], a)
    BY <2>1 DEF Catalog
  <2> QED BY <2>2, LatestIs DEF d, a
<1>2. c.status[p] = "promoted" =>
        Latest(RollBack(c, p, command).audits[p]) =
          [kind |-> "rollback", command |-> command, restored |-> Replaced(c, p)]
  <2> DEFINE d == RollBack(c, p, command)
  <2>1. CASE c.status[p] = "promoted"
    <3>1. Latest(d.audits[p]) =
            [kind |-> "rollback", command |-> command, restored |-> Replaced(c, p)]
      BY <2>1, RollBackIs, ZenonT(40)
    <3> QED BY <3>1
  <2> QED BY <2>1
<1>3. c.active[TargetOf(p)] \in Proposal \union {None} /\ Replaced(c, p) \in Proposal \union {None}
  BY Targets, ReplacedType DEF Catalog
<1> QED BY <1>1, <1>2, <1>3 DEF Audit

\* The command begins an operation on a target as it is, or fails to, and j is what it writes.
Starts(command, j) ==
  LET q == j.pending
      t == TargetOf(q.proposal) IN
  /\ j.apps = state.apps /\ j.commands = state.commands
  /\ \A c \in Command : CompletionsOf(j, c) = CompletionsOf(state, c)
  /\ q # None /\ q.command = command /\ q.proposal \in Proposal
  /\ q.before = live[t] /\ q.active = memory.active[t]
  /\ journal' \in {journal, j} /\ UNCHANGED <<catalog, live>>
  /\ disturbed' = [disturbed EXCEPT ![t] = FALSE]

LEMMA ExecuteKeeps ==
  ASSUME IInv, NEW command \in Command, NEW v \in previews, Execute(command, v)
  PROVE  IInv' /\ \E j : Starts(command, j)
<1> DEFINE p == v.proposal
           t == TargetOf(p)
           a == Latest((IF v.op = "promote" THEN Promote(memory, p, command)
                        ELSE RollBack(memory, p, command)).audits[p])
           q == [command |-> command, op |-> v.op, proposal |-> p, revision |-> v.revision,
                 expected |-> v.revision + 1, before |-> v.before, after |-> v.after,
                 active |-> v.active, previous |-> v.previous, audit |-> a,
                 base |-> IF t = "prompt" THEN git.head ELSE None]
           j == [state EXCEPT !.pending = q]
<1>1. /\ Idle /\ Start(j, previews \ {v}) /\ memory.revision = v.revision
      /\ \/ v.op = "promote" /\ memory.status[p] = "passed"
         \/ /\ v.op = "rollback" /\ CanRollBack(memory, p) /\ state.apps[p] # <<>>
            /\ Replaced(memory, p) = IF Len(v.previous) > 1 THEN v.previous[2].proposal ELSE None
      /\ live[t] = v.before /\ memory.active[t] = v.active
      /\ t = "prompt" => Clean
  BY DEF Execute
<1>2. /\ state = journal /\ TypeOK /\ CatalogsWell /\ PreviewsWell /\ Agree(catalog, memory)
  BY <1>1, IdleMeans DEF IInv
<1>3. /\ p \in Proposal /\ v.op \in {"promote", "rollback"} /\ v.revision \in Nat
      /\ v.before \in Holds /\ v.after \in Holds /\ v.active \in Proposal \union {None}
      /\ v.previous \in Seq(Application) /\ t \in Target
  BY <1>2, Targets DEF TypeOK, Preview
<1>4. /\ p \in Prompt => v.before \in Content /\ v.after \in Content
      /\ v.active # None => v.previous # <<>>
      /\ v.previous = ProofsFor(state, v.active)
      /\ v.op = "promote" /\ v.previous # <<>> => v.before = v.previous[1].after
  BY <1>1, <1>2 DEF PreviewsWell
<1>5. memory \in Catalog /\ CatalogWell(memory) /\ state \in Journal /\ git.head \in Nat
  BY <1>2 DEF TypeOK, CatalogsWell, Git
<1>6. a = [kind |-> IF v.op = "promote" THEN "promotion" ELSE "rollback", command |-> command,
           restored |-> IF v.op = "promote" THEN v.active ELSE Replaced(memory, p)]
      /\ a \in Audit
  <2>1. CASE v.op = "promote"
    BY <2>1, <1>1, <1>3, <1>5, AuditsSame
  <2>2. CASE v.op = "rollback"
    BY <2>2, <1>1, <1>3, <1>5, AuditsSame DEF CanRollBack
  <2> QED BY <2>1, <2>2, <1>3
<1> HIDE DEF a
<1>7. q \in Pending
  <2>1. v.revision + 1 \in Nat /\ v.op \in Operation
    BY <1>3 DEF Operation
  <2> QED BY <2>1, <1>3, <1>5, <1>6 DEF Pending
<1>8. /\ q.command = command /\ q.op = v.op /\ q.proposal = p /\ q.revision = v.revision
      /\ q.expected = v.revision + 1 /\ q.before = v.before /\ q.after = v.after
      /\ q.active = v.active /\ q.previous = v.previous /\ q.audit = a
  OBVIOUS
<1> HIDE DEF q
<1>9. j \in Journal /\ j.apps = state.apps /\ j.pending = q
      /\ j.commands = state.commands /\ j.completed = state.completed
  BY <1>5, <1>7 DEF Journal
<1> HIDE DEF j
<1>10. q # None /\ q.op \in Operation
  BY <1>7, NoneAssumption, PendingType
<1>11. Before(memory, q)
  BY <1>1, <1>3, <1>6, <1>8 DEF Before, CanRollBack
<1>12. Planned(j, catalog, q)
  <2>1. v.op = "promote" =>
          /\ v.previous = ProofsFor(j, v.active)
          /\ v.active # None => TargetOf(v.active) = t /\ v.previous # <<>>
    BY <1>1, <1>3, <1>4, <1>5, <1>9 DEF CatalogWell, ProofsFor
  <2>2. v.op = "rollback" =>
          /\ v.active = p /\ v.previous = j.apps[p] /\ v.previous # <<>>
          /\ Replaced(memory, p) = IF Len(v.previous) > 1 THEN v.previous[2].proposal ELSE None
    <3>1. p # None
      BY <1>3, OutsideAssumption
    <3> QED BY <3>1, <1>1, <1>3, <1>4, <1>9 DEF CanRollBack, ProofsFor
  <2>3. v.after = IF v.op = "rollback" THEN v.previous[1].before ELSE Definition[p]
    BY <2>2, <1>3, <1>9 DEF Execute
  <2> QED BY <2>1, <2>2, <2>3, <1>3, <1>4, <1>6, <1>8 DEF Planned
<1>13. Starts(command, j)
  BY <1>1, <1>3, <1>8, <1>9, <1>10 DEF Starts, Start, Persist, PersistFails, CompletionsOf
<1> QED
  <2>1. previews \ {v} \in SUBSET previews
    OBVIOUS
  <2> QED BY <2>1, <1>1, <1>8, <1>9, <1>10, <1>11, <1>12, <1>13, StartKeeps
-----------------------------------------------------------------------------
(* The journal when an operation is over.                                  *)

\* A write of the journal after which nothing is pending, or what was pending before.
LEMMA SaveKeeps ==
  ASSUME IInv, NEW k \in Journal, Persist(k) \/ PersistFails(k), pc' = "idle",
         UNCHANGED <<catalog, live, git, memory, indeterminate, previews, disturbed, blind>>,
         JournalWell(k, catalog), k.pending # None => k.pending = journal.pending,
         k.pending = None => Agree(catalog, memory), pc \notin Settling \union {"down"},
         \A v \in previews : v.revision = memory.revision =>
           ProofsFor(k, v.active) = ProofsFor(state, v.active)
  PROVE  IInv'
<1> DEFINE failed == [k EXCEPT !.recovery = TRUE]
<1>1. failed \in Journal /\ failed.apps = k.apps /\ failed.pending = k.pending
  BY DEF Journal
<1>2. /\ TypeOK /\ CatalogsWell /\ JournalsWell /\ PreviewsWell /\ PromptWell /\ ProgressWell
  BY DEF IInv
<1> HIDE DEF failed
<1>3. /\ \/ journal' = k /\ state' = k /\ opened' = opened
         \/ journal' \in {journal, k} /\ state' = failed /\ opened' = FALSE
      /\ troubles' \in 0..MaxTroubles /\ opened' \in BOOLEAN
  <2>1. CASE Persist(k)
    BY <2>1, <1>2 DEF Persist, TypeOK
  <2>2. CASE PersistFails(k)
    BY <2>2, <1>2, TroubleType DEF PersistFails, failed
  <2> QED BY <2>1, <2>2
<1>4. TypeOK'
  BY <1>1, <1>2, <1>3 DEF TypeOK, Pc
<1>5. Synchronous' /\ Placed' /\ PromptWell'
  BY <1>2, <1>3 DEF Synchronous, Placed, PromptWell, Writable, Acting
<1>6. CatalogsWell'
  <2>1. Writable' => k.pending = None
    BY <1>1, <1>3 DEF Writable
  <2> QED BY <2>1, <1>2 DEF CatalogsWell, Settling
<1>7. JournalsWell'
  BY <1>2, <1>3 DEF JournalsWell
<1>8. PreviewsWell'
  <2>1. state'.apps = k.apps
    BY <1>1, <1>3
  <2>2. ASSUME NEW v \in previews, v.revision = memory.revision
        PROVE  ProofsFor(state, v.active)' = ProofsFor(state, v.active)
    BY <2>1, <2>2 DEF ProofsFor
  <2> QED BY <2>1, <1>2 DEF PreviewsWell, Settling, ProofsFor
<1>9. ProgressWell'
  <2>1. journal'.pending # None => journal'.pending = journal.pending
    BY <1>3
  <2>2. Undisturbed' => Pace'
    BY DEF Pace
  <2>3. ASSUME journal'.pending # None, ~Disputed' PROVE Progress'
    <3>1. journal'.pending = journal.pending /\ journal.pending # None
      BY <2>1, <2>3
    <3>2. ~Disputed
      BY <2>3, <3>1 DEF Disputed
    <3>3. Progress
      BY <3>1, <3>2, <1>2 DEF ProgressWell
    <3> QED BY <3>1, <3>3 DEF Progress, PromptCommitted, Clean
  <2> QED BY <2>2, <2>3 DEF ProgressWell
<1> QED BY <1>4, <1>5, <1>6, <1>7, <1>8, <1>9 DEF IInv
-----------------------------------------------------------------------------
(* Reconciliations.                                                        *)

\* Below a promotion without a proof there is nothing, or what is captured now.
Below(p, chain) ==
  IF Replaced(memory, p) = None THEN chain = <<>>
  ELSE /\ state.apps[Replaced(memory, p)] = <<>>
       /\ chain \in Seq(Application) /\ Len(chain) = 1
       /\ chain[1].proposal = Replaced(memory, p)
       /\ chain[1].before = live[TargetOf(p)] /\ chain[1].after = live[TargetOf(p)]

LEMMA PredecessorIs ==
  ASSUME IInv, NEW command \in Command, NEW p \in Proposal, Reconcilable(command, p)
  PROVE  Below(p, Predecessor(p, command))
<1> DEFINE t == TargetOf(p)
           below == Replaced(memory, p)
           chain == Predecessor(p, command)
           app == [proposal |-> below, command |-> LegacyOf(command), status |-> "adopted",
                   before |-> live[t], after |-> live[t], safe |-> FALSE,
                   revision |-> memory.revision]
<1>1. /\ state = journal /\ journal.pending = None /\ Agree(catalog, memory)
      /\ TypeOK /\ PromptWell /\ CatalogsWell /\ JournalsWell
  BY IdleMeans DEF IInv, Reconcilable
<1>2. memory.active[t] = p /\ state.apps[p] = <<>>
  BY DEF Reconcilable, CanRollBack
<1>3. CASE below = None
  BY <1>3 DEF Predecessor, Below
<1>4. CASE below # None
  <2>1. below \in Proposal /\ TargetOf(below) = t
    BY <1>4, <1>1, ReplacedType DEF TypeOK, CatalogsWell, CatalogWell
  <2>2. state.apps[below] = <<>>
    <3>1. SUFFICES ASSUME state.apps[below] # <<>> PROVE FALSE
      OBVIOUS
    <3>2. ActiveBefore(journal, catalog, t) = below
      BY <3>1, <2>1, <1>1 DEF JournalsWell, JournalWell, ChainsWell
    <3>3. below = p
      BY <3>2, <1>1, <1>2 DEF ActiveBefore, Agree
    <3> QED BY <3>1, <3>3, <1>2
  <2>3. app \in Application
    <3>1. live[t] \in Holds /\ memory.revision \in Nat
      BY <1>1, TargetTypes
    <3>2. LegacyOf(command) \in LegacyId
      BY DEF LegacyId
    <3> QED BY <3>1, <3>2, <2>1 DEF Application
  <2>4. chain = <<app>>
    BY <2>2, <1>4 DEF Predecessor
  <2>5. app.proposal = below /\ app.before = live[t] /\ app.after = live[t]
    OBVIOUS
  <2> HIDE DEF app, chain
  <2>6. chain \in Seq(Application) /\ Len(chain) = 1 /\ chain[1] = app
    BY <2>3, <2>4
  <2> QED BY <2>2, <2>5, <2>6, <1>4 DEF chain, Below
<1> QED BY <1>3, <1>4

LEMMA ReapplyKeeps ==
  ASSUME IInv, NEW command \in Command, NEW p \in Proposal, Reapply(command, p)
  PROVE  IInv' /\ \E j : Starts(command, j)
<1> DEFINE t == TargetOf(p)
           chain == Predecessor(p, command)
           more == state.completed \union CapturedCompletion(chain)
           q == [command |-> command, op |-> "reconcile", proposal |-> p,
                 revision |-> memory.revision, expected |-> memory.revision,
                 before |-> live[t], after |-> Definition[p], active |-> p,
                 previous |-> chain, audit |-> None,
                 base |-> IF t = "prompt" THEN git.head ELSE None]
           j == [state EXCEPT !.completed = more, !.pending = q]
<1>1. /\ Idle /\ Start(j, previews) /\ Reconcilable(command, p) /\ (t = "prompt" => Clean)
      /\ memory.status[p] = "promoted" /\ memory.active[t] = p /\ state.apps[p] = <<>>
  BY DEF Reapply, Reconcilable, CanRollBack
<1>2. /\ state = journal /\ TypeOK /\ PromptWell /\ Agree(catalog, memory) /\ state \in Journal
      /\ git.head \in Nat
  BY <1>1, IdleMeans DEF IInv, TypeOK, Git
<1>3. /\ live[t] \in Holds /\ Definition[p] \in Content /\ Content \subseteq Holds
      /\ p \in Prompt => live[t] \in Content
      /\ memory.revision \in Nat
  BY <1>2, TargetTypes
<1>4. /\ chain \in Seq(Application) /\ Len(chain) <= 1
      /\ chain # <<>> => /\ chain[1].proposal = Replaced(memory, p)
                         /\ chain[1].before = live[t] /\ chain[1].after = live[t]
  <2>1. Below(p, chain)
    BY <1>1, PredecessorIs
  <2> HIDE DEF chain, more, q, j
  <2>2. CASE Replaced(memory, p) = None
    <3>1. chain = <<>>
      BY <2>1, <2>2 DEF Below
    <3> QED BY <3>1
  <2>3. CASE Replaced(memory, p) # None
    <3>1. /\ chain \in Seq(Application) /\ Len(chain) = 1
          /\ chain[1].proposal = Replaced(memory, p)
          /\ chain[1].before = live[t] /\ chain[1].after = live[t]
      BY <2>1, <2>3 DEF Below
    <3>2. Len(chain) <= 1
      BY <3>1
    <3> QED BY <3>1, <3>2
  <2> QED BY <2>2, <2>3
<1> HIDE DEF chain
<1>5. CapturedCompletion(chain) \subseteq Completion
  <2>1. ASSUME NEW app \in Application
        PROVE  [command |-> app.command, op |-> "reconcile", proposal |-> app.proposal,
                status |-> "adopted", before |-> app.before, after |-> app.after,
                from |-> app.revision, to |-> app.revision] \in Completion
    BY DEF Application, Completion, Operation, Outcome
  <2>2. \A i \in DOMAIN chain : chain[i] \in Application
    BY <1>4
  <2> QED BY <2>1, <2>2 DEF CapturedCompletion
<1>6. more \subseteq Completion
  BY <1>2, <1>5, JournalType
\* What is captured is not a command's.
<1>7. \A c \in Command : \A done \in CapturedCompletion(chain) : done.command # c
  <2>1. \A c \in Command : c \notin LegacyId
    BY CommandAssumption DEF LegacyId, LegacyOf
  <2>2. \A done \in CapturedCompletion(chain) : done.command \in LegacyId
    BY DEF CapturedCompletion
  <2> QED BY <2>1, <2>2
<1>8. \A c \in Command : \A done \in more : done.command = c => done \in state.completed
  BY <1>7
<1>9. state.completed \subseteq more
  OBVIOUS
<1> HIDE DEF more
<1>10. q \in Pending
  <2>1. "reconcile" \in Operation
    BY DEF Operation
  <2> QED BY <2>1, <1>2, <1>3, <1>4 DEF Pending
<1>11. /\ q.command = command /\ q.op = "reconcile" /\ q.proposal = p
      /\ q.revision = memory.revision /\ q.expected = memory.revision /\ q.before = live[t]
      /\ q.after = Definition[p] /\ q.active = p /\ q.previous = chain /\ q.audit = None
  OBVIOUS
<1> HIDE DEF q
<1>12. j \in Journal /\ j.apps = state.apps /\ j.pending = q
      /\ j.commands = state.commands /\ j.completed = more
  BY <1>2, <1>6, <1>10 DEF Journal
<1>13. Start(j, previews)
  BY <1>1 DEF more, q, chain
<1> HIDE DEF j
<1>14. q # None /\ q.op \in Operation
  BY <1>10, NoneAssumption, PendingType
<1>15. Before(memory, q)
  BY <1>1, <1>11 DEF Before
<1>16. Planned(j, catalog, q)
  <2>1. Replaced(catalog, p) = Replaced(memory, p)
    BY <1>2 DEF Agree
  <2> QED BY <2>1, <1>1, <1>3, <1>4, <1>11, <1>12 DEF Planned
<1>17. Starts(command, j)
  <2>1. \A c \in Command : CompletionsOf(j, c) = CompletionsOf(state, c)
    BY <1>12, <1>8, <1>9 DEF CompletionsOf
  <2> QED BY <2>1, <1>1, <1>11, <1>12, <1>13, <1>14 DEF Starts, Start, Persist, PersistFails
<1> QED
  <2>1. previews \in SUBSET previews
    OBVIOUS
  <2> QED BY <2>1, <1>1, <1>11, <1>12, <1>13, <1>14, <1>15, <1>16, <1>17, StartKeeps
LEMMA AdoptKeeps ==
  ASSUME IInv, NEW command \in Command, NEW p \in Proposal, Adopt(command, p)
  PROVE  IInv'
<1> DEFINE t == TargetOf(p)
           chain == Predecessor(p, command)
           now == live[t]
           before == IF chain = <<>> THEN now ELSE chain[1].after
           app == [proposal |-> p, command |-> command, status |-> "adopted", before |-> before,
                   after |-> now, safe |-> chain # <<>>, revision |-> memory.revision]
           done == [command |-> command, op |-> "reconcile", proposal |-> p,
                    status |-> "adopted", before |-> before, after |-> now,
                    from |-> memory.revision, to |-> memory.revision]
           binding == [op |-> "reconcile", proposal |-> p, snapshot |-> memory.status[p],
                       status |-> "adopted"]
           apps == [Forget(state.apps, chain) EXCEPT ![p] = <<app>> \o chain]
           more == state.completed \union {done}
           j == [state EXCEPT !.apps = apps, !.completed = more, !.commands[command] = binding]
<1>1. /\ Reconcilable(command, p) /\ Idle
      /\ Replaced(memory, p) # None => state.apps[Replaced(memory, p)] # <<>>
      /\ Persist(j) \/ PersistFails(j)
      /\ UNCHANGED <<catalog, live, git, pc, memory, indeterminate, previews, disturbed, blind>>
  BY DEF Adopt, Reconcilable
<1>2. /\ memory.active[t] = p /\ state.apps[p] = <<>>
  BY <1>1 DEF Reconcilable, CanRollBack
<1>3. /\ pc = "idle" /\ state = journal /\ journal.pending = None /\ Agree(catalog, memory)
      /\ TypeOK /\ PromptWell /\ JournalsWell /\ PreviewsWell /\ state \in Journal
  BY <1>1, IdleMeans DEF IInv, TypeOK
<1>4. chain = <<>>
  <2>1. Below(p, chain)
    BY <1>1, PredecessorIs
  <2> QED BY <2>1, <1>1 DEF Below
<1>5. /\ now \in Holds /\ (p \in Prompt => now \in Content) /\ memory.revision \in Nat
      /\ memory.status[p] \in Status
  BY <1>3, TargetTypes
<1>6. state.apps \in [Proposal -> Seq(Application)]
  BY <1>3, JournalType
<1> HIDE DEF chain
<1>7. before = now
  BY <1>4
<1> HIDE DEF before
<1>8. app \in Application /\ done \in Completion /\ binding \in Binding
  BY <1>5, <1>7 DEF Application, Completion, Binding, Operation, Outcome
<1>9. app.proposal = p /\ app.before = now
  BY <1>7
<1> HIDE DEF app, done, binding, now
<1>10. <<app>> \o chain = <<app>> /\ <<app>> \in Seq(Application) /\ Forget(state.apps, chain) = state.apps
  BY <1>4, <1>8 DEF Forget
<1>11. apps = [state.apps EXCEPT ![p] = <<app>>] /\ apps \in [Proposal -> Seq(Application)]
  BY <1>6, <1>10
<1>12. more \subseteq Completion
  BY <1>3, <1>8, JournalType
<1> HIDE DEF apps, more
<1>13. [state.commands EXCEPT ![command] = binding] \in [Command -> Binding \union {None}]
  <2>1. state.commands \in [Command -> Binding \union {None}]
    BY <1>3, JournalType
  <2> QED BY <2>1, <1>8
<1>14. j \in Journal /\ j.apps = apps /\ j.pending = None
  <2>1. j = [state EXCEPT !.apps = apps, !.completed = more,
                          !.commands = [state.commands EXCEPT ![command] = binding]]
    BY <1>3 DEF Journal
  <2>2. state.pending = None
    BY <1>3
  <2> HIDE DEF j
  <2> QED BY <2>1, <2>2, <1>3, <1>11, <1>12, <1>13 DEF Journal
<1> HIDE DEF j
<1>15. JournalWell(j, catalog)
  <2>1. ASSUME NEW r \in Proposal, j.apps[r] # <<>>
        PROVE  /\ j.apps[r][1].proposal = r /\ Linked(catalog, j.apps[r]) /\ Writes(r, j.apps[r])
               /\ ActiveBefore(j, catalog, TargetOf(r)) = r
    <3>1. CASE r = p
      <4>1. j.apps[r] = <<app>>
        BY <3>1, <1>6, <1>11, <1>14
      <4>2. Linked(catalog, <<app>>)
        BY DEF Linked
      <4>3. Writes(p, <<app>>)
        BY <1>5, <1>9 DEF Writes, now
      <4>4. ActiveBefore(j, catalog, t) = p
        BY <1>2, <1>3, <1>14 DEF ActiveBefore, Agree
      <4> QED BY <4>1, <4>2, <4>3, <4>4, <3>1, <1>9
    <3>2. CASE r # p
      <4>1. j.apps[r] = journal.apps[r]
        BY <3>2, <1>3, <1>6, <1>11, <1>14
      <4> QED BY <4>1, <2>1, <1>3, <1>14 DEF JournalsWell, JournalWell, ChainsWell, ActiveBefore
    <3> QED BY <3>1, <3>2
  <2>2. ChainsWell(j, catalog)
    BY <2>1, Zenon DEF ChainsWell
  <2> QED BY <2>2, <1>14 DEF JournalWell
<1>16. ASSUME NEW v \in previews, v.revision = memory.revision
       PROVE  ProofsFor(j, v.active) = ProofsFor(state, v.active)
  <2>1. /\ v.active # None => v.previous # <<>>
        /\ v.previous = ProofsFor(state, v.active)
    BY <1>3, <1>16 DEF PreviewsWell
  <2>2. v.active # p
    BY <2>1, <1>2, OutsideAssumption DEF ProofsFor
  <2>3. v.active \in Proposal \union {None}
    BY <1>3 DEF TypeOK, Preview
  <2> QED BY <2>2, <2>3, <1>6, <1>11, <1>14 DEF ProofsFor
<1>17. Persist(j) \/ PersistFails(j)
  BY <1>1 DEF j, apps, more, app, done, binding, before, now, chain
<1> QED BY <1>1, <1>3, <1>14, <1>15, <1>16, <1>17, SaveKeeps DEF Settling
-----------------------------------------------------------------------------
(* The steps of a command.                                                 *)

\* Between the two writes of the journal the operation is the one that was begun.
LEMMA ActingMeans ==
  ASSUME IInv, pc \in Acting
  PROVE  /\ state = journal /\ journal.pending # None /\ journal \in Journal
         /\ journal.pending \in Pending
         /\ Before(memory, journal.pending) /\ Agree(catalog, memory)
         /\ ~blind => memory = catalog /\ catalog.revision = journal.pending.revision
         /\ Planned(journal, catalog, journal.pending)
         /\ JournalWell(journal, catalog)
<1>1. state = journal /\ journal.pending # None /\ Before(memory, journal.pending)
  BY DEF IInv, Synchronous, Placed, Acting
<1>2. Agree(catalog, memory) /\ (~blind => memory = catalog)
  BY DEF IInv, CatalogsWell, Placed, Acting
<1>3. Planned(journal, catalog, journal.pending) /\ JournalWell(journal, catalog)
  BY <1>1 DEF IInv, JournalsWell, JournalWell
<1>4. journal \in Journal /\ journal.pending \in Pending
  BY <1>1, JournalType DEF IInv, TypeOK
<1> QED BY <1>1, <1>2, <1>3, <1>4 DEF Before

LEMMA TouchKeeps ==
  ASSUME IInv, pc \in Acting, Touch, pc' \in {"stage", "commit", "verify", "promote", "record",
                                              "refused", "lost"},
         troubles' = troubles \/ Trouble,
         live' \in [Target -> Holds], git' \in Git, live'["prompt"] \in Content,
         pc' = "promote" => state.pending.op # "reconcile",
         pc' = "record" => state.pending.op = "reconcile",
         ProgressWell'
  PROVE  IInv'
<1>1. UNCHANGED <<journal, catalog, opened, state, memory, indeterminate, previews, disturbed,
                  blind>>
  BY DEF Touch
<1>2. /\ state = journal /\ journal.pending # None /\ Before(memory, journal.pending)
      /\ Agree(catalog, memory) /\ Planned(journal, catalog, journal.pending)
  BY ActingMeans
<1>3. TypeOK /\ CatalogsWell /\ Placed /\ PreviewsWell /\ JournalsWell
  BY DEF IInv
<1>4. TypeOK'
  <2>1. troubles' \in 0..MaxTroubles
    BY <1>3, TroubleType DEF TypeOK
  <2> QED BY <2>1, <1>1, <1>3 DEF TypeOK, Pc
<1>5. Synchronous' /\ JournalsWell' /\ PromptWell'
  BY <1>1, <1>2, <1>3 DEF Synchronous, JournalsWell, PromptWell
<1>6. CatalogsWell'
  BY <1>1, <1>2, <1>3 DEF CatalogsWell, Settling
<1>7. Placed'
  <2>1. pc' = "record" => After(memory, state.pending)
    BY <1>2 DEF Planned, Before, After
  <2>2. Before(memory', state'.pending) /\ state'.pending # None
    BY <1>1, <1>2
  <2>3. ~blind' => ~indeterminate'
    BY <1>1, <1>3 DEF Placed
  <2> QED BY <2>1, <2>2, <2>3, <1>1 DEF Placed, Acting
<1>8. PreviewsWell'
  BY <1>1, <1>3 DEF PreviewsWell, Settling, ProofsFor
<1> QED BY <1>4, <1>5, <1>6, <1>7, <1>8 DEF IInv

\* Nothing moved but where the coordinator is.
LEMMA PauseKeeps ==
  ASSUME IInv, pc \in Acting, Touch, UNCHANGED <<live, git>>, pc' \in {"refused", "lost"},
         troubles' = troubles \/ Trouble
  PROVE  IInv'
<1>1. TypeOK /\ PromptWell /\ ProgressWell
  BY DEF IInv
<1>2. ProgressWell'
  <2>1. Undisturbed' => Pace'
    BY DEF Pace
  <2>2. Disputed' = Disputed /\ Progress' = Progress /\ journal' = journal
    BY DEF Touch, Disputed, Progress, PromptCommitted, Clean
  <2> QED BY <2>1, <2>2, <1>1 DEF ProgressWell
<1>3. live' \in [Target -> Holds] /\ git' \in Git /\ live'["prompt"] \in Content
  BY <1>1 DEF TypeOK, PromptWell
<1> QED BY <1>2, <1>3, TouchKeeps

\* The target is written.
LEMMA WriteKeeps ==
  ASSUME IInv, pc = "apply", Touch, UNCHANGED git, troubles' = troubles \/ Trouble,
         NEW t \in Target, On(t), Hold(t, state.pending.after),
         \/ pc' = "verify" /\ t = "strategy"
         \/ pc' = "stage" /\ t = "prompt"
         \/ pc' = "lost"
  PROVE  IInv'
<1> DEFINE q == journal.pending
<1>1. pc \in Acting
  BY DEF Acting
<1>2. /\ state = journal /\ q # None /\ q \in Pending /\ Planned(journal, catalog, q)
      /\ ~blind => catalog.revision = q.revision
  BY <1>1, ActingMeans
<1>3. q.proposal \in Proposal /\ q.after \in Holds /\ TargetOf(q.proposal) = t
  BY <1>2, PendingType DEF On
<1>4. TypeOK /\ PromptWell
  BY DEF IInv
<1>5. live' \in [Target -> Holds] /\ git' \in Git /\ live'["prompt"] \in Content /\ live'[t] = q.after
  <2>1. t = "prompt" => q.after \in Content
    BY <1>2, <1>3 DEF Planned, TargetOf
  <2>2. live' = [live EXCEPT ![t] = q.after] /\ live \in [Target -> Holds]
    BY <1>2, <1>4 DEF Hold, TypeOK
  <2> HIDE DEF q
  <2>3. live' \in [Target -> Holds] /\ live'[t] = q.after
    BY <2>2, <1>3
  <2>4. live'["prompt"] \in Content
    BY <2>1, <2>2, <1>4 DEF PromptWell, Target
  <2> QED BY <2>3, <2>4, <1>4 DEF TypeOK
<1>6. ProgressWell'
  <2>1. journal' = journal /\ catalog' = catalog /\ blind' = blind
    BY DEF Touch
  <2>2. Undisturbed' => Pace'
    BY <2>1, <1>3, <1>5 DEF Pace
  <2>3. ~Disputed' /\ journal'.pending # None => Progress'
    BY <2>1, <1>2, <1>3, <1>5 DEF Disputed, Progress
  <2> QED BY <2>2, <2>3 DEF ProgressWell
<1> QED BY <1>1, <1>5, <1>6, TouchKeeps

LEMMA ApplyStrategyKeeps == IInv /\ ApplyStrategy => IInv'
<1> SUFFICES ASSUME IInv, ApplyStrategy PROVE IInv'
  OBVIOUS
<1>1. On("strategy") /\ Touch /\ UNCHANGED git /\ pc = "apply" /\ pc \in Acting
      /\ "strategy" \in Target
  BY DEF ApplyStrategy, Step, Acting, Target
<1>2. \/ pc' = "refused" /\ UNCHANGED live /\ (troubles' = troubles \/ Trouble)
      \/ /\ pc' \in {"verify", "lost"} /\ Hold("strategy", state.pending.after)
         /\ troubles' = troubles \/ Trouble
  BY DEF ApplyStrategy, Step
<1> QED BY <1>1, <1>2, PauseKeeps, WriteKeeps

LEMMA WritePromptKeeps == IInv /\ WritePrompt => IInv'
<1> SUFFICES ASSUME IInv, WritePrompt PROVE IInv'
  OBVIOUS
<1>1. On("prompt") /\ Touch /\ UNCHANGED git /\ pc = "apply" /\ pc \in Acting
      /\ "prompt" \in Target
  BY DEF WritePrompt, Step, Acting, Target
<1>2. \/ pc' = "refused" /\ UNCHANGED live /\ (troubles' = troubles \/ Trouble)
      \/ /\ pc' \in {"stage", "lost"} /\ Hold("prompt", state.pending.after)
         /\ troubles' = troubles \/ Trouble
  BY DEF WritePrompt, Step
<1> QED BY <1>1, <1>2, PauseKeeps, WriteKeeps

LEMMA StagePromptKeeps == IInv /\ StagePrompt => IInv'
<1> SUFFICES ASSUME IInv, StagePrompt PROVE IInv'
  OBVIOUS
<1> DEFINE q == journal.pending
<1>1. On("prompt") /\ Touch /\ UNCHANGED <<live, troubles>> /\ pc = "stage" /\ pc \in Acting
  BY DEF StagePrompt, Step, Acting
<1>2. CASE UNCHANGED git /\ pc' = "refused"
  BY <1>1, <1>2, PauseKeeps
<1>3. CASE git' = [git EXCEPT !.staged = live["prompt"]] /\ pc' = "commit"
  <2>1. /\ state = journal /\ q # None /\ TargetOf(q.proposal) = "prompt"
        /\ ~blind => catalog.revision = q.revision
    BY <1>1, ActingMeans DEF On
  <2>2. TypeOK /\ PromptWell /\ ProgressWell
    BY DEF IInv
  <2>3. live' \in [Target -> Holds] /\ live'["prompt"] \in Content
    BY <2>2, <1>1 DEF TypeOK, PromptWell
  <2>4. git' \in Git /\ git'.staged = live["prompt"] /\ git'.head = git.head
    BY <2>2, <1>3 DEF TypeOK, PromptWell, Git
  <2>5. journal' = journal /\ catalog' = catalog /\ blind' = blind /\ disturbed' = disturbed
    BY <1>1 DEF Touch
  <2>6. Undisturbed => live["prompt"] = q.after
    BY <2>1, <2>2, <1>1 DEF ProgressWell, Pace
  <2>7. Undisturbed' => Pace'
    BY <2>1, <2>4, <2>5, <2>6, <1>1, <1>3 DEF Undisturbed, Pace
  <2>8. Disputed'
    BY <2>1, <2>3, <2>4, <2>5, <1>1, OutsideAssumption DEF Disputed
  <2>9. ProgressWell'
    BY <2>7, <2>8 DEF ProgressWell
  <2> QED BY <2>3, <2>4, <2>9, <1>1, <1>3, TouchKeeps
<1> QED BY <1>2, <1>3 DEF StagePrompt, Step

LEMMA CommitPromptKeeps == IInv /\ CommitPrompt => IInv'
<1> SUFFICES ASSUME IInv, CommitPrompt PROVE IInv'
  OBVIOUS
<1> DEFINE q == journal.pending
<1>1. On("prompt") /\ Touch /\ UNCHANGED live /\ pc = "commit" /\ pc \in Acting
  BY DEF CommitPrompt, Step, Acting
<1>2. CASE UNCHANGED git /\ pc' \in {"refused", "lost"} /\ (troubles' = troubles \/ Trouble)
  BY <1>1, <1>2, PauseKeeps
<1>3. CASE /\ git.head = state.pending.base /\ git.staged # None /\ pc' = "verify"
           /\ git' = [head |-> git.head + 1, touched |-> "prompt", content |-> git.staged,
                      staged |-> None]
           /\ UNCHANGED troubles
  <2>1. /\ state = journal /\ q # None /\ TargetOf(q.proposal) = "prompt"
        /\ ~blind => catalog.revision = q.revision
    BY <1>1, ActingMeans DEF On
  <2>2. TypeOK /\ PromptWell /\ ProgressWell
    BY DEF IInv
  <2>3. live' \in [Target -> Holds] /\ live'["prompt"] \in Content
    BY <2>2, <1>1 DEF TypeOK, PromptWell
  <2>4. /\ git' \in Git /\ git'.staged = None /\ git'.head = q.base + 1
        /\ git'.touched = "prompt" /\ git'.content = git.staged
    <3>1. git.head + 1 \in Nat /\ git.staged \in Content
      BY <2>2, <1>3 DEF TypeOK, Git
    <3> QED BY <3>1, <2>1, <1>3 DEF Git
  <2>5. journal' = journal /\ catalog' = catalog /\ blind' = blind /\ disturbed' = disturbed
    BY <1>1 DEF Touch
  <2>6. Undisturbed => live["prompt"] = q.after /\ git.staged = q.after
    BY <2>1, <2>2, <1>1 DEF ProgressWell, Pace
  <2>7. Undisturbed' => Pace'
    BY <2>1, <2>4, <2>5, <2>6, <1>1, <1>3 DEF Undisturbed, Pace, PromptCommitted, Clean
  <2>8. ~Disputed' /\ journal'.pending # None => Progress'
    BY <2>1, <2>5, <2>6, <1>1 DEF Disputed, Progress, Undisturbed
  <2>9. ProgressWell'
    BY <2>7, <2>8 DEF ProgressWell
  <2> QED BY <2>3, <2>4, <2>9, <1>1, <1>3, TouchKeeps
<1> QED BY <1>2, <1>3 DEF CommitPrompt, Step

LEMMA VerifyKeeps == IInv /\ Verify => IInv'
<1> SUFFICES ASSUME IInv, Verify PROVE IInv'
  OBVIOUS
<1>1. /\ Touch /\ UNCHANGED <<live, git, troubles>> /\ pc = "verify" /\ pc \in Acting
      /\ pc' \in {"lost", "promote", "record"}
      /\ pc' = "promote" => state.pending.op # "reconcile"
      /\ pc' = "record" => state.pending.op = "reconcile"
  BY DEF Verify, Step, Acting
<1>2. TypeOK /\ PromptWell /\ ProgressWell
  BY DEF IInv
<1>3. live' \in [Target -> Holds] /\ git' \in Git /\ live'["prompt"] \in Content
  BY <1>1, <1>2 DEF TypeOK, PromptWell
<1>4. ProgressWell'
  <2>1. /\ Disputed' = Disputed /\ Progress' = Progress /\ journal' = journal
        /\ Undisturbed' = Undisturbed
    BY <1>1 DEF Touch, Disputed, Progress, PromptCommitted, Clean, Undisturbed
  <2>2. Pace => Pace'
    BY <2>1, <1>1 DEF Pace, PromptCommitted, Clean
  <2> QED BY <2>1, <2>2, <1>2 DEF ProgressWell
<1> QED BY <1>1, <1>3, <1>4, TouchKeeps

LEMMA CommitCatalogKeeps == IInv /\ CommitCatalog => IInv'
<1> SUFFICES ASSUME IInv, CommitCatalog PROVE IInv'
  OBVIOUS
<1> DEFINE q == journal.pending
           d == OutcomeFor(memory, q)
<1>1. /\ pc = "promote" /\ pc \in Acting
      /\ UNCHANGED <<journal, live, git, opened, state, previews, disturbed, blind>>
  BY DEF CommitCatalog, Step, Acting
<1>2. /\ state = journal /\ journal \in Journal /\ q # None /\ Before(memory, q)
      /\ JournalWell(journal, catalog) /\ Agree(catalog, memory)
  BY <1>1, ActingMeans
<1>3. q.op # "reconcile"
  BY <1>1, <1>2 DEF IInv, Placed
<1>4. TypeOK /\ CatalogsWell /\ Placed /\ PreviewsWell /\ PromptWell /\ ProgressWell /\ JournalsWell
  BY DEF IInv
<1>5. CatalogOutcome = d
  BY <1>2 DEF CatalogOutcome, OutcomeFor
<1> HIDE DEF d
\* Either nothing of the catalog changes, or it was known to be as on disk and d may be there.
<1>6. \/ pc' = "unfinished" /\ UNCHANGED <<catalog, memory, indeterminate>>
         /\ (troubles' = troubles \/ Trouble)
      \/ ~indeterminate /\ pc' = "record" /\ catalog' = d /\ memory' = d
         /\ UNCHANGED <<indeterminate, troubles>>
      \/ ~indeterminate /\ pc' = "unfinished" /\ catalog' \in {catalog, d} /\ memory' = memory
         /\ indeterminate' = TRUE /\ Trouble
  BY <1>5 DEF CommitCatalog, Step, Commit, CommitFails
<1>7. troubles' \in 0..MaxTroubles
  BY <1>4, <1>6, TroubleType DEF TypeOK
<1>8. Synchronous' /\ PromptWell'
  BY <1>1, <1>2, <1>4 DEF Synchronous, PromptWell
<1>9. CASE pc' = "unfinished" /\ UNCHANGED <<catalog, memory, indeterminate>>
  <2>1. TypeOK'
    BY <1>1, <1>4, <1>7, <1>9 DEF TypeOK, Pc
  <2>2. CatalogsWell' /\ JournalsWell' /\ Placed'
    BY <1>1, <1>2, <1>4, <1>9 DEF CatalogsWell, Settling, JournalsWell, Placed, Acting
  <2>3. PreviewsWell'
    BY <1>1, <1>4, <1>9 DEF PreviewsWell, Settling, ProofsFor
  <2>4. ProgressWell'
    <3>1. Undisturbed' => Pace'
      BY <1>9 DEF Pace
    <3>2. Disputed' = Disputed /\ Progress' = Progress /\ journal' = journal
      BY <1>1, <1>9 DEF Disputed, Progress, PromptCommitted, Clean
    <3> QED BY <3>1, <3>2, <1>4 DEF ProgressWell
  <2> QED BY <2>1, <2>2, <2>3, <2>4, <1>8 DEF IInv
<1>10. CASE ~indeterminate /\ catalog' \in {catalog, d} /\ pc' \in {"record", "unfinished"}
            /\ \/ pc' = "record" /\ catalog' = d /\ memory' = d /\ UNCHANGED indeterminate
               \/ pc' = "unfinished" /\ memory' = memory /\ indeterminate' = TRUE
  <2>1. memory = catalog /\ catalog \in Catalog /\ CatalogWell(catalog)
    BY <1>4, <1>10 DEF CatalogsWell, TypeOK
  <2>2. /\ d \in Catalog /\ CatalogWell(d) /\ d.revision = memory.revision + 1
        /\ JournalWell(journal, d) /\ After(d, q) /\ OutcomeReached(d, q)
    <3>1. JournalWell(journal, memory) /\ CatalogWell(memory) /\ memory \in Catalog
      BY <2>1, <1>2
    <3> QED BY <3>1, <1>2, <1>3, OutcomeIs DEF d
  <2>3. TypeOK'
    BY <1>1, <1>4, <1>7, <1>10, <2>2 DEF TypeOK, Pc
  <2>4. CatalogsWell'
    <3>1. Agree(d, d)
      BY DEF Agree
    <3> QED BY <3>1, <2>1, <2>2, <1>10 DEF CatalogsWell, Settling
  <2>5. JournalsWell'
    BY <2>2, <1>1, <1>2, <1>10 DEF JournalsWell
  <2>6. Placed'
    BY <2>2, <1>1, <1>2, <1>3, <1>10 DEF Placed, Acting
  <2>7. PreviewsWell'
    <3>1. CASE memory' = memory /\ pc' = "unfinished"
      BY <3>1, <1>1, <1>4 DEF PreviewsWell, Settling, ProofsFor
    <3>2. CASE memory' = d /\ pc' = "record"
      <4>1. memory.revision \in Nat
        BY <1>4 DEF TypeOK, Catalog
      <4>2. ASSUME NEW v \in previews
            PROVE  /\ v.revision < memory'.revision /\ v.revision <= memory'.revision
                   /\ v.revision # memory'.revision
                   /\ v.proposal \in Prompt => v.before \in Content /\ v.after \in Content
        <5>1. v.revision \in Nat /\ v.revision <= memory.revision
          BY <1>4 DEF TypeOK, Preview, PreviewsWell
        <5> QED BY <5>1, <4>1, <3>2, <2>2, <1>4 DEF PreviewsWell
      <4> QED BY <4>2, <3>2, <1>1, <1>4 DEF PreviewsWell, Settling
    <3> QED BY <3>1, <3>2, <1>10
  <2>8. ProgressWell'
    <3>1. Undisturbed' => Pace'
      BY <1>1, <1>4, <1>10 DEF ProgressWell, Undisturbed, Pace
    <3>2. ASSUME journal'.pending # None, ~Disputed' PROVE Progress'
      <4>1. Undisturbed /\ ~Disputed
        BY <3>2, <1>1 DEF Disputed, Undisturbed
      <4>2. Progress /\ Pace
        BY <4>1, <1>1, <1>2, <1>4 DEF ProgressWell
      <4>3. CASE catalog' = catalog
        BY <4>2, <4>3, <1>1 DEF Progress, PromptCommitted, Clean
      <4>4. CASE catalog' = d
        BY <4>2, <4>4, <2>2, <1>1 DEF Progress, Pace, PromptCommitted, Clean
      <4> QED BY <4>3, <4>4, <1>10
    <3> QED BY <3>1, <3>2 DEF ProgressWell
  <2> QED BY <2>3, <2>4, <2>5, <2>6, <2>7, <2>8, <1>8 DEF IInv
<1> QED BY <1>6, <1>9, <1>10

LEMMA RecordKeeps == IInv /\ Record => IInv'
<1> SUFFICES ASSUME IInv, Record PROVE IInv'
  OBVIOUS
<1> DEFINE q == journal.pending
           k == Finished(journal, memory)
<1>1. /\ pc = "record" /\ pc' = "idle" /\ Save(Finished(state, memory))
  BY DEF Record, Step
<1>2. /\ state = journal /\ journal \in Journal /\ q # None /\ After(memory, q)
      /\ JournalWell(journal, catalog) /\ Agree(catalog, memory) /\ PreviewsWell
      /\ catalog \in Catalog /\ memory \in Catalog /\ CatalogWell(catalog)
      /\ q.op = "reconcile" => Before(memory, q)
  BY <1>1 DEF IInv, TypeOK, Synchronous, Placed, CatalogsWell, JournalsWell
<1>3. /\ k \in Journal /\ k.pending = None /\ JournalWell(k, catalog)
      /\ \A r \in Proposal : TargetOf(r) # TargetOf(q.proposal) => k.apps[r] = journal.apps[r]
  BY <1>2, FinishedIs
<1>4. Save(k)
  BY <1>1, <1>2
<1> HIDE DEF k
<1>5. ASSUME NEW v \in previews, v.revision = memory.revision
      PROVE  ProofsFor(k, v.active) = ProofsFor(state, v.active)
  <2>1. q.op = "reconcile"
    <3>1. v.revision \in Nat
      BY DEF IInv, TypeOK, Preview
    <3> QED BY <3>1, <1>1, <1>2, <1>5 DEF PreviewsWell
  <2>2. q.active = q.proposal /\ journal.apps[q.proposal] = <<>> /\ q.proposal \in Proposal
    BY <2>1, <1>2, PendingType, JournalType DEF JournalWell, Planned
  <2>3. /\ v.active = memory.active[TargetOf(v.proposal)]
        /\ v.active # None => v.previous # <<>>
        /\ v.previous = ProofsFor(state, v.active)
    BY <1>2, <1>5 DEF PreviewsWell
  <2>4. v.active \in Proposal \union {None} /\ v.proposal \in Proposal
    BY DEF IInv, TypeOK, Preview
  <2>5. CASE v.active = None
    BY <2>5 DEF ProofsFor
  <2>6. CASE v.active # None
    <3>1. TargetOf(v.active) = TargetOf(v.proposal)
      BY <2>3, <2>4, <2>6, Targets DEF IInv, CatalogsWell, CatalogWell
    <3>2. memory.active[TargetOf(q.proposal)] = q.proposal
      BY <2>1, <2>2, <1>2 DEF Before
    <3>3. v.active # q.proposal
      BY <2>2, <2>3, <2>6, <1>2 DEF ProofsFor
    <3>4. TargetOf(v.active) # TargetOf(q.proposal)
      BY <3>1, <3>2, <3>3, <2>3
    <3> QED BY <3>4, <2>4, <2>6, <1>2, <1>3 DEF ProofsFor
  <2> QED BY <2>5, <2>6
<1> QED BY <1>1, <1>2, <1>3, <1>4, <1>5, SaveKeeps DEF Save, Settling

LEMMA SettleRefusalKeeps == IInv /\ SettleRefusal => IInv'
<1> SUFFICES ASSUME IInv, SettleRefusal PROVE IInv'
  OBVIOUS
<1> DEFINE q == journal.pending
           k == Aborted(journal, memory)
<1>1. pc = "refused" /\ pc \in Acting
  BY DEF SettleRefusal, Step, Acting
<1>2. /\ state = journal /\ journal \in Journal /\ q # None /\ Before(memory, q)
      /\ JournalWell(journal, catalog) /\ Agree(catalog, memory)
  BY <1>1, ActingMeans
<1>3. CASE pc' = "idle" /\ Save(Aborted(state, memory))
  <2>1. catalog \in Catalog /\ memory \in Catalog
    BY DEF IInv, TypeOK
  <2>2. catalog.active[TargetOf(q.proposal)] = q.active
    BY <1>2 DEF Before, Agree
  <2>3. k \in Journal /\ k.pending = None /\ k.apps = journal.apps /\ JournalWell(k, catalog)
    BY <1>2, <2>1, <2>2, AbortedIs
  <2>4. Save(k)
    BY <1>2, <1>3
  <2> HIDE DEF k
  <2>5. \A v \in previews : ProofsFor(k, v.active) = ProofsFor(state, v.active)
    BY <2>3, <1>2 DEF ProofsFor
  <2> QED BY <1>1, <1>2, <1>3, <2>3, <2>4, <2>5, SaveKeeps DEF Save, Settling
<1>4. CASE pc' = "lost" /\ Touch /\ UNCHANGED <<live, git, troubles>>
  BY <1>1, <1>4, PauseKeeps
<1> QED BY <1>3, <1>4 DEF SettleRefusal, Step

LEMMA SettleLossKeeps == IInv /\ SettleLoss => IInv'
<1> SUFFICES ASSUME IInv, SettleLoss PROVE IInv'
  OBVIOUS
<1>1. PICK recovery \in BOOLEAN :
        pc' = "idle" /\ Save([state EXCEPT !.recovery = recovery]) /\ pc \in {"lost", "unfinished"}
  BY DEF SettleLoss, Step
<1> DEFINE k == [state EXCEPT !.recovery = recovery]
<1>2. state = journal /\ journal \in Journal /\ journal.pending # None
  BY <1>1 DEF IInv, TypeOK, Synchronous, Placed
<1>3. k \in Journal /\ k.pending = journal.pending /\ k.apps = journal.apps
  BY <1>2 DEF Journal
<1>4. Save(k)
  BY <1>1
<1> HIDE DEF k
<1>5. JournalWell(k, catalog)
  BY <1>2, <1>3 DEF IInv, JournalsWell, JournalWell, ChainsWell, ActiveBefore, Planned, ProofsFor
<1>6. \A v \in previews : ProofsFor(k, v.active) = ProofsFor(state, v.active)
  BY <1>2, <1>3 DEF ProofsFor
<1> QED BY <1>1, <1>2, <1>3, <1>4, <1>5, <1>6, SaveKeeps DEF Save, Settling
-----------------------------------------------------------------------------
(* Opening.                                                                *)

\* What the opening finds is what is on disk.
LEMMA SettlingMeans ==
  ASSUME IInv, pc \in Settling
  PROVE  /\ state = journal /\ journal \in Journal /\ journal.pending # None
         /\ journal.pending \in Pending /\ memory = catalog /\ catalog \in Catalog
         /\ CatalogWell(catalog) /\ JournalWell(journal, catalog) /\ previews = {}
         /\ Planned(journal, catalog, journal.pending)
<1>1. state = journal /\ journal.pending # None /\ memory = catalog /\ previews = {}
  BY DEF IInv, Synchronous, Placed, CatalogsWell, PreviewsWell, Settling
<1>2. JournalWell(journal, catalog) /\ Planned(journal, catalog, journal.pending)
  BY <1>1 DEF IInv, JournalsWell, JournalWell
<1>3. journal \in Journal /\ journal.pending \in Pending
  BY <1>1, JournalType DEF IInv, TypeOK
<1> QED BY <1>1, <1>2, <1>3 DEF IInv, TypeOK, CatalogsWell

\* The opening writes the journal, or fails to, and nothing else; or it gives up.
LEMMA OpeningKeeps ==
  ASSUME IInv, pc \in Settling, NEW k \in Journal, JournalWell(k, catalog),
         k.pending = None \/ k = journal,
         UNCHANGED <<catalog, live, git, memory, indeterminate, previews, disturbed, blind>>,
         journal' \in {journal, k}, pc' \in {"idle", "down"}, opened' \in BOOLEAN,
         troubles' = troubles \/ Trouble,
         \/ state' = journal'
         \/ pc' = "idle" /\ state' \in Journal /\ state'.recovery
  PROVE  IInv'
<1>1. /\ TypeOK /\ CatalogsWell /\ JournalsWell /\ PreviewsWell /\ PromptWell /\ ProgressWell
  BY DEF IInv
<1>2. memory = catalog /\ previews = {} /\ JournalWell(journal, catalog)
  BY SettlingMeans
<1>3. TypeOK'
  <2>1. troubles' \in 0..MaxTroubles
    BY <1>1, TroubleType DEF TypeOK
  <2>2. journal' \in Journal /\ state' \in Journal
    BY <1>1 DEF TypeOK
  <2> QED BY <1>1, <2>1, <2>2 DEF TypeOK, Pc
<1>4. Synchronous' /\ Placed' /\ PromptWell'
  BY <1>1 DEF Synchronous, Placed, PromptWell, Writable, Acting
<1>5. CatalogsWell' /\ JournalsWell' /\ PreviewsWell'
  <2>1. Agree(catalog, catalog)
    BY DEF Agree
  <2>2. CatalogsWell'
    BY <2>1, <1>1, <1>2 DEF CatalogsWell
  <2>3. PreviewsWell'
    BY <1>1, <1>2 DEF PreviewsWell, Settling
  <2> QED BY <2>2, <2>3, <1>1, <1>2 DEF JournalsWell
<1>6. ProgressWell'
  <2>1. Undisturbed' => Pace'
    BY DEF Pace
  <2>2. ASSUME journal'.pending # None, ~Disputed' PROVE Progress'
    <3>1. journal' = journal
      BY <2>2
    <3>2. Disputed' = Disputed /\ Progress' = Progress
      BY <3>1 DEF Disputed, Progress, PromptCommitted, Clean
    <3> QED BY <3>1, <3>2, <2>2, <1>1 DEF ProgressWell
  <2> QED BY <2>1, <2>2 DEF ProgressWell
<1> QED BY <1>3, <1>4, <1>5, <1>6 DEF IInv

LEMMA OpenKeeps == IInv /\ Open => IInv'
<1> SUFFICES ASSUME IInv, Open PROVE IInv'
  OBVIOUS
<1>1. /\ pc = "down" /\ state' = journal /\ memory' = catalog
      /\ opened' = (journal.pending = None)
      /\ pc' = IF journal.pending = None THEN "idle" ELSE "settle"
      /\ UNCHANGED <<journal, catalog, live, git, indeterminate, previews, troubles, disturbed,
                     blind>>
  BY DEF Open
<1>2. /\ TypeOK /\ CatalogsWell /\ JournalsWell /\ PreviewsWell /\ PromptWell /\ ProgressWell
  BY DEF IInv
<1>3. memory = catalog /\ previews = {}
  BY <1>1, <1>2 DEF CatalogsWell, PreviewsWell
<1>4. TypeOK'
  <2>1. opened' \in BOOLEAN /\ pc' \in Pc
    BY <1>1 DEF Pc
  <2> QED BY <2>1, <1>1, <1>2 DEF TypeOK
<1>5. Synchronous' /\ Placed' /\ PromptWell' /\ JournalsWell'
  BY <1>1, <1>2 DEF Synchronous, Placed, PromptWell, Acting, JournalsWell
<1>6. CatalogsWell' /\ PreviewsWell'
  <2>1. Agree(catalog, catalog)
    BY DEF Agree
  <2> QED BY <2>1, <1>1, <1>2, <1>3 DEF CatalogsWell, PreviewsWell
<1>7. ProgressWell'
  <2>1. Undisturbed' => Pace'
    BY <1>1 DEF Pace
  <2>2. Disputed' = Disputed /\ Progress' = Progress /\ journal' = journal
    BY <1>1 DEF Disputed, Progress, PromptCommitted, Clean
  <2> QED BY <2>1, <2>2, <1>2 DEF ProgressWell
<1> QED BY <1>4, <1>5, <1>6, <1>7 DEF IInv

\* The coordinator opens without having decided.
LEMMA GivesUpKeeps ==
  ASSUME IInv, pc \in Settling, GiveUp(state),
         UNCHANGED <<journal, catalog, live, git, memory, indeterminate, previews, troubles,
                     disturbed, blind>>
  PROVE  IInv'
<1>1. state = journal /\ journal \in Journal /\ JournalWell(journal, catalog)
  BY SettlingMeans
<1>2. state' \in Journal /\ state'.recovery /\ pc' = "idle" /\ opened' = TRUE
  BY <1>1 DEF GiveUp, Journal
<1> QED BY <1>1, <1>2, OpeningKeeps

\* An operation that is over, whatever becomes of the write that says so.
LEMMA EndsKeeps ==
  ASSUME IInv, pc \in Settling, NEW k \in Journal, JournalWell(k, catalog), k.pending = None,
         EndsOpening(k, Closed) \/ EndsOpening(k, GiveUp(k))
  PROVE  IInv'
<1>1. UNCHANGED <<catalog, live, git, memory, indeterminate, previews, disturbed, blind>>
  BY DEF EndsOpening
<1>2. [k EXCEPT !.recovery = TRUE] \in Journal /\ [k EXCEPT !.recovery = TRUE].recovery
  BY DEF Journal
<1>3. /\ journal' \in {journal, k} /\ pc' \in {"idle", "down"} /\ opened' \in BOOLEAN
      /\ troubles' = troubles \/ Trouble
      /\ \/ state' = journal'
         \/ pc' = "idle" /\ state' \in Journal /\ state'.recovery
  <2>1. CASE EndsOpening(k, Closed)
    BY <2>1 DEF EndsOpening, Closed
  <2>2. CASE EndsOpening(k, GiveUp(k))
    BY <2>2, <1>2 DEF EndsOpening, GiveUp
  <2> QED BY <2>1, <2>2
<1> QED BY <1>1, <1>3, OpeningKeeps

\* Nothing of the operation was done, as far as the catalog goes.
LEMMA AbortsKeeps ==
  ASSUME IInv, pc \in Settling, Before(catalog, journal.pending),
         \/ EndsOpening(Aborted(state, memory), Closed)
         \/ EndsOpening(Aborted(state, memory), GiveUp(Aborted(state, memory)))
  PROVE  IInv'
<1> DEFINE k == Aborted(journal, catalog)
<1>1. /\ state = journal /\ journal \in Journal /\ journal.pending # None /\ memory = catalog
      /\ catalog \in Catalog /\ JournalWell(journal, catalog)
  BY SettlingMeans
<1>2. k \in Journal /\ k.pending = None /\ JournalWell(k, catalog)
  BY <1>1, AbortedIs DEF Before
<1>3. EndsOpening(k, Closed) \/ EndsOpening(k, GiveUp(k))
  BY <1>1
<1> HIDE DEF k
<1> QED BY <1>2, <1>3, EndsKeeps

\* All of it was done.
LEMMA FinishesKeeps ==
  ASSUME IInv, pc \in Settling, After(catalog, journal.pending),
         \/ EndsOpening(Finished(state, memory), Closed)
         \/ EndsOpening(Finished(state, memory), GiveUp(Finished(state, memory)))
  PROVE  IInv'
<1> DEFINE k == Finished(journal, catalog)
<1>1. /\ state = journal /\ journal \in Journal /\ journal.pending # None /\ memory = catalog
      /\ catalog \in Catalog /\ CatalogWell(catalog) /\ JournalWell(journal, catalog)
  BY SettlingMeans
<1>2. Agree(catalog, catalog)
  BY DEF Agree
<1>3. k \in Journal /\ k.pending = None /\ JournalWell(k, catalog)
  BY <1>1, <1>2, FinishedIs
<1>4. EndsOpening(k, Closed) \/ EndsOpening(k, GiveUp(k))
  BY <1>1
<1> HIDE DEF k
<1> QED BY <1>3, <1>4, EndsKeeps

LEMMA SettleAbortedKeeps == IInv /\ SettleAborted => IInv'
<1> SUFFICES ASSUME IInv, SettleAborted PROVE IInv'
  OBVIOUS
<1>1. pc \in Settling
  BY DEF SettleAborted, Settling
<1>2. Before(catalog, journal.pending)
  <2>1. memory.revision = state.pending.revision
    BY DEF SettleAborted, Situation, SituationOf
  <2> QED BY <2>1, <1>1, SettlingMeans DEF JournalWell
<1>3. CASE EndsOpening(Aborted(state, memory), Closed)
  BY <1>1, <1>2, <1>3, AbortsKeeps
<1>4. CASE /\ GiveUp(state)
           /\ UNCHANGED <<journal, catalog, live, git, memory, indeterminate, previews, troubles,
                          disturbed, blind>>
  BY <1>1, <1>4, GivesUpKeeps
<1> QED BY <1>3, <1>4 DEF SettleAborted

\* What the audit of the proposal says is what the catalog says.
LEMMA ReachedIs ==
  ASSUME NEW j \in Journal, NEW c \in Catalog, CatalogWell(c), JournalWell(j, c),
         j.pending # None, OutcomeReached(c, j.pending)
  PROVE  After(c, j.pending)
<1> DEFINE q == j.pending
           p == q.proposal
<1>1. p \in Proposal /\ q.op \in Operation /\ Planned(j, c, q)
  BY JournalType, PendingType DEF JournalWell
<1>2. c.active[TargetOf(p)] = IF q.op = "rollback" THEN q.audit.restored ELSE p
  BY DEF OutcomeReached
<1>3. ASSUME q.op = "promote" PROVE Replaced(c, p) = q.active
  <2>1. /\ c.audits[p] # <<>> /\ Latest(c.audits[p]) = q.audit /\ c.audits[p] \in Seq(Audit)
        /\ q.audit.kind = "promotion" /\ q.audit.restored = q.active
    BY <1>1, <1>3 DEF OutcomeReached, Planned, Catalog
  <2> DEFINE s == c.audits[p]
  <2>2. Len(s) \in DOMAIN s /\ q.audit = s[Len(s)]
    <3>1. s \in Seq(Audit) /\ s # <<>> /\ q.audit = s[Len(s)]
      BY <2>1 DEF Latest
    <3> HIDE DEF s
    <3> QED BY <3>1
  <2>3. q.audit \in AuditsOf(c, p)
    BY <2>2 DEF AuditsOf
  <2> QED BY <2>1, <2>3, <1>1, PromotionIs
<1> QED BY <1>2, <1>3 DEF After

LEMMA SettleFinalizeKeeps == IInv /\ SettleFinalize => IInv'
<1> SUFFICES ASSUME IInv, SettleFinalize PROVE IInv'
  OBVIOUS
<1>1. pc \in Settling
  BY DEF SettleFinalize, Settling
<1>2. OutcomeReached(memory, state.pending)
  BY DEF SettleFinalize, Situation, SituationOf
<1>3. After(catalog, journal.pending)
  BY <1>1, <1>2, SettlingMeans, ReachedIs
<1> QED BY <1>1, <1>3, FinishesKeeps DEF SettleFinalize

LEMMA ConcludeKeeps == IInv /\ Conclude => IInv'
<1> SUFFICES ASSUME IInv, Conclude PROVE IInv'
  OBVIOUS
<1>1. pc \in Settling
  BY DEF Conclude, Settling
<1>2. After(memory, state.pending)
  BY DEF IInv, Placed, Conclude
<1>3. After(catalog, journal.pending)
  BY <1>1, <1>2, SettlingMeans
<1> QED BY <1>1, <1>3, FinishesKeeps DEF Conclude

LEMMA ConcludeRestoredKeeps == IInv /\ ConcludeRestored => IInv'
<1> SUFFICES ASSUME IInv, ConcludeRestored PROVE IInv'
  OBVIOUS
<1>1. pc \in Settling
  BY DEF ConcludeRestored, Settling
<1>2. Before(memory, state.pending)
  BY DEF IInv, Placed, ConcludeRestored
<1>3. Before(catalog, journal.pending)
  BY <1>1, <1>2, SettlingMeans
<1> QED BY <1>1, <1>3, AbortsKeeps DEF ConcludeRestored

LEMMA SettleUnknownKeeps == IInv /\ SettleUnknown => IInv'
BY GivesUpKeeps DEF SettleUnknown, Settling

LEMMA RestorePromptKeeps == IInv /\ RestorePrompt => IInv'
<1> SUFFICES ASSUME IInv, RestorePrompt PROVE IInv'
  OBVIOUS
<1> DEFINE q == journal.pending
<1>1. pc = "settle" /\ pc \in Settling
  BY DEF RestorePrompt, Settling
<1>2. /\ state = journal /\ journal \in Journal /\ q # None /\ q \in Pending /\ memory = catalog
      /\ JournalWell(journal, catalog) /\ previews = {} /\ Planned(journal, catalog, q)
  BY <1>1, SettlingMeans
<1>3. /\ TargetOf(q.proposal) = "prompt" /\ memory.revision = q.revision
  BY <1>2 DEF RestorePrompt, On, Situation, SituationOf
<1>4. q.proposal \in Prompt /\ q.before \in Content
  <2>1. q.proposal \in Prompt
    BY <1>2, <1>3, PendingType DEF TargetOf
  <2> QED BY <2>1, <1>2 DEF Planned
<1>5. /\ live' = [live EXCEPT !["prompt"] = q.before]
      /\ UNCHANGED <<journal, catalog, git, memory, indeterminate, previews, troubles, disturbed,
                     blind>>
      /\ \/ pc' = "restored" /\ UNCHANGED <<opened, state>>
         \/ pc' = "idle" /\ opened' = TRUE /\ state' = [state EXCEPT !.recovery = TRUE]
  BY <1>2 DEF RestorePrompt, Hold, GiveUp
<1>6. /\ TypeOK /\ CatalogsWell /\ JournalsWell /\ PreviewsWell /\ Placed
  BY DEF IInv
<1> HIDE DEF q
<1>7. /\ live' \in [Target -> Holds] /\ live'["prompt"] = q.before
  BY <1>4, <1>5, <1>6 DEF TypeOK, Target, Holds
<1>8. [state EXCEPT !.recovery = TRUE] \in Journal /\ [state EXCEPT !.recovery = TRUE].recovery
  BY <1>2 DEF Journal
<1>9. TypeOK'
  BY <1>5, <1>6, <1>7, <1>8 DEF TypeOK, Pc
<1>10. Synchronous' /\ PromptWell'
  BY <1>2, <1>4, <1>5, <1>7, <1>8 DEF Synchronous, PromptWell, Writable
<1>11. CatalogsWell' /\ JournalsWell' /\ PreviewsWell'
  <2>1. Agree(catalog, catalog)
    BY DEF Agree
  <2> QED BY <2>1, <1>1, <1>2, <1>5, <1>6 DEF CatalogsWell, JournalsWell, PreviewsWell, Settling
<1>12. Placed'
  <2>1. Before(memory, q)
    BY <1>2, <1>3 DEF JournalWell, q
  <2> QED BY <2>1, <1>2, <1>5 DEF Placed, Acting, q
<1>13. ProgressWell'
  <2>1. Undisturbed' => Pace'
    BY <1>2, <1>3, <1>5, <1>7 DEF Pace, q
  <2>2. Progress'
    BY <1>2, <1>3, <1>5, <1>7 DEF Progress, q
  <2> QED BY <2>1, <2>2 DEF ProgressWell
<1> QED BY <1>9, <1>10, <1>11, <1>12, <1>13 DEF IInv

LEMMA SettleFinishKeeps == IInv /\ SettleFinish => IInv'
<1> SUFFICES ASSUME IInv, SettleFinish PROVE IInv'
  OBVIOUS
<1> DEFINE q == journal.pending
           d == OutcomeFor(catalog, q)
<1>1. pc = "settle" /\ pc \in Settling
  BY DEF SettleFinish, Settling
<1>2. /\ state = journal /\ journal \in Journal /\ q # None /\ q \in Pending /\ memory = catalog
      /\ catalog \in Catalog /\ CatalogWell(catalog) /\ JournalWell(journal, catalog)
      /\ previews = {} /\ Planned(journal, catalog, q)
  BY <1>1, SettlingMeans
<1>3. q.proposal \in Proposal /\ q.op \in Operation
  BY <1>2, PendingType
<1>4. /\ live[TargetOf(q.proposal)] = q.after /\ catalog.revision = q.revision
      /\ TargetOf(q.proposal) = "prompt" => PromptCommitted(q)
      /\ ~OutcomeReached(catalog, q)
  BY <1>2 DEF SettleFinish, On, Situation, SituationOf
<1>5. Before(catalog, q)
  BY <1>2, <1>4 DEF JournalWell
\* A reconciliation whose target is written is complete.
<1>6. q.op # "reconcile"
  BY <1>2, <1>4, <1>5 DEF OutcomeReached, Known, Before, Planned
<1>7. /\ d \in Catalog /\ CatalogWell(d) /\ d.revision = catalog.revision + 1
      /\ JournalWell(journal, d) /\ After(d, q) /\ OutcomeReached(d, q)
  BY <1>2, <1>5, <1>6, OutcomeIs
<1>8. CatalogOutcome = d
  BY <1>2 DEF CatalogOutcome, OutcomeFor
<1> HIDE DEF d
<1>9. /\ TypeOK /\ CatalogsWell /\ JournalsWell /\ PreviewsWell /\ PromptWell /\ ProgressWell
  BY DEF IInv
<1>10. /\ UNCHANGED <<journal, live, git, previews, disturbed, blind>>
       /\ catalog' \in {catalog, d} /\ (troubles' = troubles \/ Trouble)
       /\ \/ /\ pc' = "conclude" /\ UNCHANGED <<opened, state, indeterminate>>
             /\ catalog' = d /\ memory' = d
          \/ /\ pc' = "idle" /\ opened' = TRUE /\ state' = [state EXCEPT !.recovery = TRUE]
             /\ memory' = memory
             /\ \/ catalog' = catalog /\ UNCHANGED indeterminate
                \/ indeterminate' = TRUE
  BY <1>8 DEF SettleFinish, Commit, CommitFails, GiveUp
<1>11. [state EXCEPT !.recovery = TRUE] \in Journal /\ [state EXCEPT !.recovery = TRUE].recovery
  BY <1>2 DEF Journal
<1>12. TypeOK'
  <2>1. troubles' \in 0..MaxTroubles
    BY <1>9, <1>10, TroubleType DEF TypeOK
  <2> QED BY <2>1, <1>7, <1>9, <1>10, <1>11 DEF TypeOK, Pc
<1>13. Synchronous' /\ PromptWell'
  BY <1>2, <1>9, <1>10, <1>11 DEF Synchronous, PromptWell, Writable
<1>14. CatalogsWell'
  <2>1. Agree(d, d)
    BY DEF Agree
  <2>2. CASE pc' = "conclude"
    BY <2>1, <2>2, <1>7, <1>10 DEF CatalogsWell
  <2>3. CASE pc' = "idle"
    <3>1. ~Writable'
      BY <2>3, <1>10, <1>11 DEF Writable
    <3> QED BY <3>1, <2>3, <1>2, <1>7, <1>9, <1>10 DEF CatalogsWell, Settling
  <2> QED BY <2>2, <2>3, <1>10
<1>15. JournalsWell'
  BY <1>2, <1>7, <1>10 DEF JournalsWell
<1>16. Placed'
  BY <1>2, <1>7, <1>10 DEF Placed, Acting
<1>17. PreviewsWell'
  BY <1>2, <1>9, <1>10 DEF PreviewsWell
<1>18. ProgressWell'
  <2>1. Undisturbed' => Pace'
    BY <1>4, <1>10 DEF Pace
  <2>2. Progress'
    <3>1. PromptCommitted(q)' = PromptCommitted(q)
      BY <1>10 DEF PromptCommitted, Clean
    <3> QED BY <3>1, <1>4, <1>7, <1>10 DEF Progress
  <2> QED BY <2>1, <2>2 DEF ProgressWell
<1> QED BY <1>12, <1>13, <1>14, <1>15, <1>16, <1>17, <1>18 DEF IInv
-----------------------------------------------------------------------------
(* The process dies, and people.                                           *)

LEMMA StopKeeps == IInv /\ Stop => IInv'
<1> SUFFICES ASSUME IInv, Stop PROVE IInv'
  OBVIOUS
<1>1. /\ pc' = "down" /\ state' = journal /\ memory' = catalog /\ opened' = FALSE
      /\ indeterminate' = FALSE /\ previews' = {} /\ (troubles' = troubles \/ Trouble)
      /\ UNCHANGED <<journal, catalog, live, git, disturbed, blind>>
  BY DEF Stop
<1>2. /\ TypeOK /\ CatalogsWell /\ JournalsWell /\ PromptWell /\ ProgressWell
  BY DEF IInv
<1>3. TypeOK'
  <2>1. troubles' \in 0..MaxTroubles
    BY <1>1, <1>2, TroubleType DEF TypeOK
  <2>2. Cardinality(previews') <= MaxPreviews
    BY <1>1, FS_EmptySet, BoundAssumption
  <2> QED BY <2>1, <2>2, <1>1, <1>2 DEF TypeOK, Pc
<1>4. Synchronous' /\ Placed' /\ PromptWell' /\ JournalsWell'
  BY <1>1, <1>2 DEF Synchronous, Placed, PromptWell, Acting, JournalsWell
<1>5. CatalogsWell' /\ PreviewsWell'
  <2>1. Agree(catalog, catalog)
    BY DEF Agree
  <2> QED BY <2>1, <1>1, <1>2, FS_EmptySet DEF CatalogsWell, PreviewsWell
<1>6. ProgressWell'
  <2>1. Undisturbed' => Pace'
    BY <1>1 DEF Pace
  <2>2. Disputed' = Disputed /\ Progress' = Progress /\ journal' = journal
    BY <1>1 DEF Disputed, Progress, PromptCommitted, Clean
  <2> QED BY <2>1, <2>2, <1>2 DEF ProgressWell
<1> QED BY <1>3, <1>4, <1>5, <1>6 DEF IInv

\* Whatever people do to a target, an operation on the other one does not see it.
LEMMA MeddleKeeps ==
  ASSUME IInv, NEW t \in Target, Meddle(t), live' \in [Target -> Holds],
         live'["prompt"] \in Content, git' \in Git,
         \A u \in Target : u # t => live'[u] = live[u],
         t = "strategy" => git' = git
  PROVE  IInv'
<1>1. /\ UNCHANGED <<journal, catalog, pc, opened, state, memory, indeterminate, previews, blind>>
      /\ disturbed' = [disturbed EXCEPT ![t] = TRUE] /\ Trouble
  BY DEF Meddle
<1>2. /\ TypeOK /\ PreviewsWell /\ ProgressWell
  BY DEF IInv
<1>3. TypeOK'
  <2>1. troubles' \in 0..MaxTroubles
    BY <1>1, <1>2, TroubleType DEF TypeOK
  <2> QED BY <2>1, <1>1, <1>2 DEF TypeOK
<1>4. Synchronous' /\ CatalogsWell' /\ JournalsWell'
  BY <1>1 DEF IInv, Synchronous, CatalogsWell, JournalsWell, Writable
<1>5. Placed' /\ PromptWell'
  BY <1>1 DEF IInv, Placed, PromptWell
<1>6. PreviewsWell'
  BY <1>1, <1>2 DEF PreviewsWell, ProofsFor
<1>7. ProgressWell'
  <2>1. ASSUME Undisturbed'
        PROVE  /\ Undisturbed /\ TargetOf(journal.pending.proposal) # t
               /\ TargetOf(journal.pending.proposal) \in Target
    <3>1. journal.pending # None /\ journal.pending.proposal \in Proposal
      BY <2>1, <1>1, <1>2, JournalType, PendingType DEF Undisturbed, TypeOK
    <3> QED BY <2>1, <3>1, <1>1, <1>2, Targets DEF Undisturbed, TypeOK
  <2>2. ASSUME Undisturbed' PROVE Pace'
    <3>1. Undisturbed /\ Pace /\ live'[TargetOf(journal.pending.proposal)]
                                   = live[TargetOf(journal.pending.proposal)]
      BY <2>1, <2>2, <1>2 DEF ProgressWell
    <3>2. CASE TargetOf(journal.pending.proposal) = "prompt"
      <4>1. t = "strategy" /\ git' = git /\ live'["prompt"] = live["prompt"]
        BY <2>1, <2>2, <3>1, <3>2 DEF Target
      <4> QED BY <3>1, <3>2, <4>1, <1>1 DEF Pace, PromptCommitted, Clean
    <3>3. CASE TargetOf(journal.pending.proposal) # "prompt"
      BY <3>1, <3>3, <1>1 DEF Pace, PromptCommitted, Clean
    <3> QED BY <3>2, <3>3
  <2>3. ASSUME journal'.pending # None, ~Disputed' PROVE Progress'
    <3>1. Undisturbed'
      BY <2>3 DEF Disputed, Undisturbed
    <3>2. live'[TargetOf(journal.pending.proposal)] = live[TargetOf(journal.pending.proposal)]
      BY <2>1, <3>1
    <3>3. CASE TargetOf(journal.pending.proposal) = "prompt"
      <4>1. t = "strategy" /\ git' = git /\ live'["prompt"] = live["prompt"]
        BY <2>1, <3>1, <3>2, <3>3 DEF Target
      <4>2. ~Disputed /\ Progress
        BY <2>1, <2>3, <3>1, <4>1, <1>1, <1>2 DEF ProgressWell, Disputed, Undisturbed
      <4> QED BY <3>2, <3>3, <4>1, <4>2, <1>1 DEF Progress, PromptCommitted, Clean
    <3>4. CASE TargetOf(journal.pending.proposal) # "prompt"
      <4>1. ~Disputed /\ Progress
        BY <2>1, <2>3, <3>1, <3>4, <1>1, <1>2 DEF ProgressWell, Disputed, Undisturbed
      <4> QED BY <3>2, <3>4, <4>1, <1>1 DEF Progress
    <3> QED BY <3>3, <3>4
  <2> QED BY <2>2, <2>3 DEF ProgressWell
<1> QED BY <1>3, <1>4, <1>5, <1>6, <1>7 DEF IInv

LEMMA EditKeeps ==
  ASSUME IInv, NEW t \in Target, NEW x \in Holds, Edit(t, x)
  PROVE  IInv'
<1>1. /\ (t = "prompt" => x \in Content) /\ live' = [live EXCEPT ![t] = x] /\ git' = git
      /\ Meddle(t)
  BY DEF Edit, Hold
<1>2. live \in [Target -> Holds] /\ live["prompt"] \in Content /\ git \in Git
  BY DEF IInv, TypeOK, PromptWell
<1>3. /\ live' \in [Target -> Holds] /\ live'["prompt"] \in Content
      /\ \A u \in Target : u # t => live'[u] = live[u]
  BY <1>1, <1>2 DEF Target
<1> QED BY <1>1, <1>2, <1>3, MeddleKeeps

LEMMA CommitOtherKeeps == IInv /\ CommitOther => IInv'
<1> SUFFICES ASSUME IInv, CommitOther PROVE IInv'
  OBVIOUS
<1>1. live \in [Target -> Holds] /\ live["prompt"] \in Content /\ git \in Git
  BY DEF IInv, TypeOK, PromptWell
<1>2. git' = [git EXCEPT !.head = @ + 1, !.touched = "other"]
  BY DEF CommitOther
<1>3. git' \in Git
  <2>1. git.head + 1 \in Nat /\ "other" \in {"prompt", "other"}
    BY <1>1 DEF Git
  <2> QED BY <1>1, <1>2, <2>1 DEF Git
<1>4. live' = live /\ Meddle("prompt")
  BY DEF CommitOther
<1> QED BY <1>1, <1>3, <1>4, MeddleKeeps DEF Target

LEMMA CommitEditKeeps == IInv /\ CommitEdit => IInv'
<1> SUFFICES ASSUME IInv, CommitEdit PROVE IInv'
  OBVIOUS
<1>1. live \in [Target -> Holds] /\ live["prompt"] \in Content /\ git \in Git
  BY DEF IInv, TypeOK, PromptWell
<1>2. git' \in Git /\ live' = live /\ Meddle("prompt")
  BY <1>1 DEF CommitEdit, Git
<1> QED BY <1>1, <1>2, MeddleKeeps DEF Target

LEMMA StutterKeeps == IInv /\ UNCHANGED vars => IInv'
<1> SUFFICES ASSUME IInv, UNCHANGED vars PROVE IInv'
  OBVIOUS
<1>1. TypeOK' /\ Synchronous' /\ CatalogsWell' /\ JournalsWell' /\ PromptWell'
  BY DEF IInv, vars, TypeOK, Synchronous, CatalogsWell, JournalsWell, PromptWell, Writable
<1>2. Placed'
  BY DEF IInv, vars, Placed
<1>3. PreviewsWell'
  BY DEF IInv, vars, PreviewsWell, ProofsFor
<1>4. ProgressWell'
  <2>1. /\ Disputed' = Disputed /\ Progress' = Progress /\ journal' = journal
        /\ Undisturbed' = Undisturbed /\ Pace' = Pace
    BY DEF vars, Disputed, Progress, PromptCommitted, Clean, Undisturbed, Pace
  <2> QED BY <2>1 DEF IInv, ProgressWell
<1> QED BY <1>1, <1>2, <1>3, <1>4 DEF IInv
-----------------------------------------------------------------------------
(* The theorems.                                                           *)

\* Journal, catalog and targets stay in step through every operation, failed write, death of the
\* process and opening (application.ts, application-journal.ts).
THEOREM ApplicationInductive == Spec => []IInv
<1>1. IInv /\ [Next]_vars => IInv'
  <2> SUFFICES ASSUME IInv, [Next]_vars PROVE IInv'
    OBVIOUS
  <2>1. ASSUME NEW p \in Proposal,
               \/ Propose(p) \/ BeginEvaluation(p) \/ Evaluate(p) \/ Reject(p) \/ Archive(p)
               \/ Unarchive(p) \/ Delete(p) \/ PreviewPromotion(p) \/ PreviewRollback(p)
        PROVE  IInv'
    BY <2>1, CatalogOnly, PreviewPromotionKeeps, PreviewRollbackKeeps
  <2>2. ASSUME NEW v \in previews,
               ExpirePreview(v) \/ \E command \in Command : Execute(command, v)
        PROVE  IInv'
    BY <2>2, ExpireKeeps, ExecuteKeeps
  <2>3. ASSUME NEW command \in Command, NEW p \in Proposal, Adopt(command, p) \/ Reapply(command, p)
        PROVE  IInv'
    BY <2>3, AdoptKeeps, ReapplyKeeps
  <2>4. CASE Executing
    BY <2>4, ApplyStrategyKeeps, WritePromptKeeps, StagePromptKeeps, CommitPromptKeeps,
       VerifyKeeps, CommitCatalogKeeps, RecordKeeps, SettleRefusalKeeps, SettleLossKeeps
       DEF Executing
  <2>5. CASE Opening
    BY <2>5, OpenKeeps, SettleAbortedKeeps, SettleFinalizeKeeps, SettleFinishKeeps,
       ConcludeKeeps, RestorePromptKeeps, ConcludeRestoredKeeps, SettleUnknownKeeps
       DEF Opening
  <2>6. CASE Stop \/ CommitOther \/ CommitEdit \/ \E t \in Target, x \in Holds : Edit(t, x)
    BY <2>6, StopKeeps, CommitOtherKeeps, CommitEditKeeps, EditKeeps
  <2>7. CASE UNCHANGED vars
    BY <2>7, StutterKeeps
  <2> QED BY <2>1, <2>2, <2>3, <2>4, <2>5, <2>6, <2>7 DEF Next
<1> QED BY <1>1, InitHolds, PTL DEF Spec

\* Everything has its type, and no more previews wait than the bound lets.
THEOREM ApplicationTypeCorrect == Spec => []TypeOK
<1>1. IInv => TypeOK
  BY DEF IInv
<1> QED BY <1>1, ApplicationInductive, PTL

\* When nothing is pending, only the proposal in force on a target has a proof of its own
\* (finishPromotion, finishRollback).
THEOREM OneIsInForce == Spec => []OneInForce
<1>1. IInv => OneInForce
  BY DEF IInv, JournalsWell, JournalWell, ChainsWell, ActiveBefore, OneInForce
<1> QED BY <1>1, ApplicationInductive, PTL

\* A chain of proofs can be rolled back to its end.
THEOREM ChainsReplay == Spec => []ChainReplays
<1>1. IInv => ChainReplays
  <2> SUFFICES ASSUME IInv PROVE ChainReplays
    OBVIOUS
  <2>1. ASSUME NEW p \in Proposal, NEW i \in 1..Len(journal.apps[p]) - 1
        PROVE  /\ journal.apps[p][i].before = journal.apps[p][i + 1].after
               /\ Replaced(catalog, journal.apps[p][i].proposal) = journal.apps[p][i + 1].proposal
    <3>1. journal.apps[p] # <<>>
      OBVIOUS
    <3>2. Linked(catalog, journal.apps[p])
      BY <3>1 DEF IInv, JournalsWell, JournalWell, ChainsWell
    <3> QED BY <3>2 DEF Linked
  <2> QED BY <2>1 DEF ChainReplays
<1> QED BY <1>1, ApplicationInductive, PTL

\* Whenever the process dies, an operation that nobody disturbed is one that the next opening can
\* decide (pickSituation).
THEOREM OpeningsDecide == Spec => []Decidable
<1>1. IInv => Decidable
  BY DEF IInv, ProgressWell, Progress, Decidable, SituationOf
<1> QED BY <1>1, ApplicationInductive, PTL
-----------------------------------------------------------------------------
(* The promise.                                                            *)

LayerSet == [proposal : Proposal, covered : Holds]

LEMMA LayersAre ==
  ASSUME NEW s \in Seq(Application)
  PROVE  /\ LayersOf(s) \in Seq(LayerSet) /\ Len(LayersOf(s)) = Len(s) /\ Len(s) \in Nat
         /\ \A i \in 1..Len(s) : LayersOf(s)[i] = Layer(s[i]) /\ s[i] \in Application
         /\ LayersOf(s) = <<>> <=> s = <<>>
<1> DEFINE r == LayersOf(s)
<1>1. DOMAIN s = 1..Len(s) /\ Len(s) \in Nat /\ \A i \in 1..Len(s) : s[i] \in Application
  OBVIOUS
<1>2. \A app \in Application : Layer(app) \in LayerSet
  BY DEF Application, Layer, LayerSet
<1>3. r = [i \in 1..Len(s) |-> Layer(s[i])]
  BY <1>1 DEF LayersOf
<1>4. r \in [1..Len(s) -> LayerSet] /\ \A i \in 1..Len(s) : r[i] = Layer(s[i])
  BY <1>1, <1>2, <1>3
<1> HIDE DEF r
<1>5. r \in Seq(LayerSet) /\ Len(r) = Len(s)
  BY <1>1, <1>4
<1>6. r = <<>> <=> s = <<>>
  BY <1>1, <1>5
<1> QED BY <1>1, <1>4, <1>5, <1>6 DEF r

LEMMA LayersOnTop ==
  ASSUME NEW s \in Seq(Application), NEW app \in Application
  PROVE  LayersOf(<<app>> \o s) = <<Layer(app)>> \o LayersOf(s)
<1> DEFINE l == LayersOf(<<app>> \o s)
           r == <<Layer(app)>> \o LayersOf(s)
           one == <<app>>
           layer == <<Layer(app)>>
<1>1. one \in Seq(Application) /\ Len(one) = 1 /\ one[1] = app
      /\ layer \in Seq(LayerSet) /\ Len(layer) = 1 /\ layer[1] = Layer(app)
  BY DEF Application, Layer, LayerSet
<1>2. l = LayersOf(one \o s) /\ r = layer \o LayersOf(s)
  OBVIOUS
<1> HIDE DEF one, layer, l, r
<1>3. /\ one \o s \in Seq(Application) /\ Len(one \o s) = 1 + Len(s) /\ Len(s) \in Nat
      /\ \A i \in 1..1 + Len(s) : (one \o s)[i] = IF i <= 1 THEN one[i] ELSE s[i - 1]
  <2>1. Len(s) \in Nat
    BY LayersAre
  <2>2. /\ one \o s \in Seq(Application) /\ Len(one \o s) = Len(one) + Len(s)
        /\ \A i \in 1..Len(one) + Len(s) :
             (one \o s)[i] = IF i <= Len(one) THEN one[i] ELSE s[i - Len(one)]
    BY <1>1, ConcatProperties
  <2> QED BY <2>1, <2>2, <1>1
<1>4. /\ LayersOf(s) \in Seq(LayerSet) /\ Len(LayersOf(s)) = Len(s)
      /\ \A i \in 1..Len(s) : LayersOf(s)[i] = Layer(s[i])
  BY LayersAre
<1>5. /\ r \in Seq(LayerSet) /\ Len(r) = 1 + Len(s)
      /\ \A i \in 1..1 + Len(s) : r[i] = IF i <= 1 THEN layer[i] ELSE LayersOf(s)[i - 1]
  BY <1>1, <1>2, <1>4, ConcatProperties
<1>6. /\ l \in Seq(LayerSet) /\ Len(l) = 1 + Len(s)
      /\ \A i \in 1..1 + Len(s) : l[i] = Layer((one \o s)[i])
  BY <1>2, <1>3, LayersAre
<1>7. ASSUME NEW i \in 1..1 + Len(s) PROVE l[i] = r[i]
  <2>1. CASE i <= 1
    <3>1. i = 1
      BY <2>1, <1>3
    <3> QED BY <3>1, <1>1, <1>3, <1>5, <1>6
  <2>2. CASE ~(i <= 1)
    <3>1. i - 1 \in 1..Len(s)
      BY <2>2, <1>3
    <3> QED BY <3>1, <2>2, <1>3, <1>4, <1>5, <1>6
  <2> QED BY <2>1, <2>2
<1>8. l = r
  BY <1>5, <1>6, <1>7, SeqEqual
<1> QED BY <1>8 DEF l, r

LEMMA TopLayers ==
  ASSUME NEW s \in Seq(Application), s # <<>>
  PROVE  /\ s[1] \in Application /\ LayersOf(s)[1] = Layer(s[1])
         /\ Len(s) > 1 => s[2] \in Application /\ LayersOf(s)[2] = Layer(s[2])
         /\ Len(LayersOf(s)) = Len(s) /\ Len(s) \in Nat \ {0}
<1>1. /\ Len(LayersOf(s)) = Len(s) /\ Len(s) \in Nat
      /\ \A i \in 1..Len(s) : LayersOf(s)[i] = Layer(s[i]) /\ s[i] \in Application
  BY LayersAre
<1>2. Len(s) # 0
  BY EmptySeq
<1> DEFINE n == Len(s)
<1>3. n \in Nat \ {0} /\ 1 \in 1..n /\ (n > 1 => 2 \in 1..n)
  <2>1. n \in Nat \ {0}
    BY <1>1, <1>2
  <2> HIDE DEF n
  <2> QED BY <2>1
<1> QED BY <1>1, <1>3

LEMMA LayersBelow ==
  ASSUME NEW s \in Seq(Application), s # <<>>
  PROVE  LayersOf(Tail(s)) = Tail(LayersOf(s))
<1> DEFINE l == LayersOf(Tail(s))
           r == Tail(LayersOf(s))
<1>1. /\ Tail(s) \in Seq(Application) /\ Len(Tail(s)) = Len(s) - 1
      /\ \A i \in 1..Len(Tail(s)) : Tail(s)[i] = s[i + 1]
  BY HeadTailProperties
<1>2. /\ LayersOf(s) \in Seq(LayerSet) /\ Len(LayersOf(s)) = Len(s) /\ LayersOf(s) # <<>>
      /\ Len(s) \in Nat /\ \A i \in 1..Len(s) : LayersOf(s)[i] = Layer(s[i])
  BY LayersAre
<1>3. /\ r \in Seq(LayerSet) /\ Len(r) = Len(s) - 1
      /\ \A i \in 1..Len(r) : r[i] = LayersOf(s)[i + 1]
  BY <1>2, HeadTailProperties
<1>4. /\ l \in Seq(LayerSet) /\ Len(l) = Len(s) - 1
      /\ \A i \in 1..Len(l) : l[i] = Layer(Tail(s)[i])
  BY <1>1, LayersAre
<1> HIDE DEF l, r
<1>5. ASSUME NEW i \in 1..Len(l) PROVE l[i] = r[i]
  <2>1. i + 1 \in 1..Len(s) /\ i \in 1..Len(Tail(s)) /\ i \in 1..Len(r)
    BY <1>1, <1>2, <1>3, <1>4
  <2> QED BY <2>1, <1>1, <1>2, <1>3, <1>4
<1>6. l = r
  BY <1>3, <1>4, <1>5, SeqEqual
<1> QED BY <1>6 DEF l, r

\* What an operator sees of the journal j, the catalog c and the targets l.
ValuesIn(j, l) ==
  [t \in Target |-> IF j.pending # None /\ TargetOf(j.pending.proposal) = t THEN j.pending.before
                    ELSE l[t]]
InForceIn(j, c) == [t \in Target |-> ActiveBefore(j, c, t)]
LayersIn(j, c) == [t \in Target |-> LayersOf(ProofsFor(j, ActiveBefore(j, c, t)))]
AnswerIn(completions) ==
  IF completions = {} THEN None ELSE (CHOOSE done \in completions : TRUE).status
AnswersIn(j) == [command \in Command |-> AnswerIn(CompletionsOf(j, command))]

LEMMA SeenIs ==
  /\ Values = ValuesIn(journal, live) /\ InForce = InForceIn(journal, catalog)
  /\ Layers = LayersIn(journal, catalog) /\ Answers = AnswersIn(journal)
  /\ Values' = ValuesIn(journal', live') /\ InForce' = InForceIn(journal', catalog')
  /\ Layers' = LayersIn(journal', catalog') /\ Answers' = AnswersIn(journal')
<1>1. Values = ValuesIn(journal, live) /\ Values' = ValuesIn(journal', live')
  BY DEF Values, ValuesIn, PendingOn
<1>2. InForce = InForceIn(journal, catalog) /\ InForce' = InForceIn(journal', catalog')
  BY DEF InForce, InForceIn, PendingOn, ActiveBefore
<1>3. Layers = LayersIn(journal, catalog)
  BY <1>2 DEF Layers, LayersIn, InForceIn, ProofsFor
<1>4. Layers' = LayersIn(journal', catalog')
  BY <1>2 DEF Layers, LayersIn, InForceIn, ProofsFor
<1>5. Answers = AnswersIn(journal) /\ Answers' = AnswersIn(journal')
  BY DEF Answers, AnswerTo, AnswersIn, AnswerIn, CompletionsOf
<1> QED BY <1>1, <1>2, <1>3, <1>4, <1>5

\* A command without a binding has no completion, and the pending one has no binding.
AnsweredIn(j) ==
  /\ \A command \in Command : j.commands[command] = None => CompletionsOf(j, command) = {}
  /\ j.pending # None => j.commands[j.pending.command] = None
Answered == AnsweredIn(journal)

\* k answers the command with the completion done.
AnswersOnce(j, k, command, done) ==
  /\ done.command = command /\ CompletionsOf(j, command) = {}
  /\ CompletionsOf(k, command) = {done}
  /\ \A other \in Command \ {command} : CompletionsOf(k, other) = CompletionsOf(j, other)

IsAnswered(before, after, command, status) ==
  before[command] = None /\ after = [before EXCEPT ![command] = status]

LEMMA OneAnswer ==
  ASSUME NEW j, NEW k, NEW command \in Command, NEW done, AnswersOnce(j, k, command, done)
  PROVE  IsAnswered(AnswersIn(j), AnswersIn(k), command, done.status)
<1>1. AnswersIn(j)[command] = None
  BY DEF AnswersIn, AnswerIn, AnswersOnce
<1>2. AnswersIn(k)[command] = done.status
  <2>1. (CHOOSE d \in CompletionsOf(k, command) : TRUE) = done
    BY DEF AnswersOnce
  <2> QED BY <2>1 DEF AnswersIn, AnswerIn, AnswersOnce
<1>3. \A other \in Command \ {command} : AnswersIn(k)[other] = AnswersIn(j)[other]
  BY DEF AnswersIn, AnswersOnce
<1>4. AnswersIn(k) = [c \in Command |-> AnswersIn(k)[c]]
      /\ AnswersIn(j) = [c \in Command |-> AnswersIn(j)[c]]
  BY DEF AnswersIn
<1> HIDE DEF AnswersIn
<1>5. AnswersIn(k) = [AnswersIn(j) EXCEPT ![command] = done.status]
  BY <1>2, <1>3, <1>4
<1> QED BY <1>1, <1>5 DEF IsAnswered

\* The answer to the pending command is the only change of the answers.
LEMMA AnswerToPending ==
  ASSUME NEW j \in Journal, NEW k, NEW m \in Catalog, NEW status \in Outcome,
         NEW after \in Holds, j.pending # None, AnsweredIn(j), k.pending = None,
         k.commands = Bound(j, m, status),
         \A done : done.command \in Command =>
           (done \in k.completed <=> done \in j.completed \/ done = Done(j, m, status, after))
  PROVE  AnsweredIn(k) /\ AnswersOnce(j, k, j.pending.command, Done(j, m, status, after))
<1> DEFINE command == j.pending.command
           done == Done(j, m, status, after)
           b == [op |-> j.pending.op, proposal |-> j.pending.proposal,
                 snapshot |-> m.status[j.pending.proposal], status |-> status]
<1>1. command \in Command /\ done.command = command
  BY JournalType, PendingType DEF Done
<1>2. j.commands[command] = None /\ CompletionsOf(j, command) = {}
  BY <1>1 DEF AnsweredIn
<1>3. b # None
  <2>1. b \in Binding
    BY JournalType, PendingType DEF Catalog, Binding
  <2> QED BY <2>1, NoneAssumption
<1> HIDE DEF b, done
<1>4. j.commands \in [Command -> Binding \union {None}]
  BY JournalType
<1>5. k.commands = [j.commands EXCEPT ![command] = IF @ # None THEN @ ELSE b]
  BY DEF Bound, b
<1>6. k.commands[command] = b /\ \A c \in Command \ {command} : k.commands[c] = j.commands[c]
  BY <1>1, <1>2, <1>4, <1>5
<1>7. /\ CompletionsOf(k, command) = {done}
      /\ \A c \in Command \ {command} : CompletionsOf(k, c) = CompletionsOf(j, c)
  BY <1>1, <1>2 DEF CompletionsOf, done
<1>8. AnsweredIn(k)
  <2>1. ASSUME NEW c \in Command, k.commands[c] = None PROVE CompletionsOf(k, c) = {}
    BY <2>1, <1>3, <1>6, <1>7 DEF AnsweredIn
  <2> QED BY <2>1 DEF AnsweredIn
<1>9. AnswersOnce(j, k, command, done)
  BY <1>1, <1>2, <1>7 DEF AnswersOnce
<1> QED BY <1>8, <1>9 DEF done

\* The coordinator does something that no operator sees.
LEMMA Unseen ==
  ASSUME Answered,
         journal'.pending = journal.pending, journal'.apps = journal.apps,
         journal'.completed = journal.completed, journal'.commands = journal.commands,
         disturbed' = disturbed,
         \A t \in Target : ~PendingOn(t) =>
           live'[t] = live[t] /\ catalog'.active[t] = catalog.active[t]
  PROVE  UNCHANGED Promised!promise /\ Answered'
<1>1. Values' = Values
  <2>1. \A t \in Target : ValuesIn(journal', live')[t] = ValuesIn(journal, live)[t]
    BY DEF ValuesIn, PendingOn
  <2> QED BY <2>1, SeenIs DEF ValuesIn
<1>2. \A t \in Target : ActiveBefore(journal', catalog', t) = ActiveBefore(journal, catalog, t)
  BY DEF ActiveBefore, PendingOn
<1>3. InForce' = InForce
  BY <1>2, SeenIs DEF InForceIn
<1>4. Layers' = Layers
  BY <1>2, SeenIs DEF LayersIn, ProofsFor
<1>5. \A c : CompletionsOf(journal', c) = CompletionsOf(journal, c)
  BY DEF CompletionsOf
<1>6. Answers' = Answers
  BY <1>5, SeenIs DEF AnswersIn
<1>7. AnsweredIn(journal')
  BY <1>5 DEF Answered, AnsweredIn
<1>8. Answered'
  BY <1>7 DEF Answered, AnsweredIn, CompletionsOf
<1> QED BY <1>1, <1>3, <1>4, <1>6, <1>8 DEF Promised!promise

\* Somebody edits a target, or commits it.
LEMMA EditSeen ==
  ASSUME Answered, NEW t \in Target, Meddle(t), \A u \in Target : u # t => live'[u] = live[u]
  PROVE  Promised!Edit(t) /\ Answered'
<1>1. journal' = journal /\ catalog' = catalog /\ disturbed' = [disturbed EXCEPT ![t] = TRUE]
  BY DEF Meddle
<1>2. Values' = [Values EXCEPT ![t] = Values'[t]]
  <2>1. \A u \in Target : u # t => ValuesIn(journal', live')[u] = ValuesIn(journal, live)[u]
    BY <1>1 DEF ValuesIn
  <2> QED BY <2>1, SeenIs DEF ValuesIn
<1>3. InForce' = InForce /\ Layers' = Layers /\ Answers' = Answers
  BY <1>1, SeenIs
<1>4. Answered'
  BY <1>1 DEF Answered, AnsweredIn, CompletionsOf
<1> QED BY <1>1, <1>2, <1>3, <1>4 DEF Promised!Edit

\* An operation begins on the target as it is.
LEMMA BeginSeen ==
  ASSUME Answered, journal.pending = None, UNCHANGED <<catalog, live>>,
         NEW j, j.pending # None, j.apps = journal.apps, j.commands = journal.commands,
         journal.commands[j.pending.command] = None,
         \A command \in Command : CompletionsOf(j, command) = CompletionsOf(journal, command),
         NEW t \in Target, TargetOf(j.pending.proposal) = t,
         j.pending.before = live[t], j.pending.active = catalog.active[t],
         journal' \in {journal, j}, disturbed' = [disturbed EXCEPT ![t] = FALSE]
  PROVE  Promised!Begin(t) /\ Answered'
<1>1. Values' = Values
  <2>1. \A u \in Target : ValuesIn(journal', live')[u] = ValuesIn(journal, live)[u]
    BY DEF ValuesIn
  <2> QED BY <2>1, SeenIs DEF ValuesIn
<1>2. \A u \in Target : ActiveBefore(journal', catalog', u) = ActiveBefore(journal, catalog, u)
  BY DEF ActiveBefore
<1>3. InForce' = InForce
  BY <1>2, SeenIs DEF InForceIn
<1>4. Layers' = Layers
  <2>1. journal'.apps = journal.apps
    OBVIOUS
  <2> QED BY <1>2, <2>1, SeenIs DEF LayersIn, ProofsFor
<1>5. \A c \in Command : CompletionsOf(journal', c) = CompletionsOf(journal, c)
  OBVIOUS
<1>6. Answers' = Answers
  BY <1>5, SeenIs DEF AnswersIn
<1>7. AnsweredIn(journal')
  BY <1>5 DEF Answered, AnsweredIn
<1>8. Answered'
  BY <1>7 DEF Answered, AnsweredIn, CompletionsOf
<1> QED BY <1>1, <1>3, <1>4, <1>6, <1>8 DEF Promised!Begin

LEMMA AbortedForm ==
  ASSUME NEW j \in Journal, NEW m \in Catalog
  PROVE  LET k == Aborted(j, m) IN
         /\ k.pending = None /\ k.apps = j.apps /\ k.commands = Bound(j, m, "aborted")
         /\ \A done : done.command \in Command =>
              (done \in k.completed <=>
                 done \in j.completed \/ done = Done(j, m, "aborted", j.pending.before))
<1> DEFINE used == UNION {{j.apps[p][i].command : i \in DOMAIN j.apps[p]} : p \in Proposal}
           dropped == {app.command : app \in {j.pending.previous[i] : i \in DOMAIN j.pending.previous}}
                        \intersect (LegacyId \ used)
           kept == {done \in j.completed : j.pending.op # "reconcile" \/ done.command \notin dropped}
           new == Done(j, m, "aborted", j.pending.before)
           k == Aborted(j, m)
<1>1. k = [j EXCEPT !.pending = None, !.recovery = FALSE, !.commands = Bound(j, m, "aborted"),
                    !.completed = kept \union {new}]
  BY Zenon DEF Aborted
<1>2. \A command \in Command : command \notin LegacyId
  BY CommandAssumption DEF LegacyId, LegacyOf
<1>3. \A done \in j.completed : done.command \in Command => done \in kept
  BY <1>2
<1>4. kept \subseteq j.completed
  OBVIOUS
<1> HIDE DEF kept, new, k
<1>5. k.completed = kept \union {new} /\ k.pending = None /\ k.apps = j.apps
      /\ k.commands = Bound(j, m, "aborted")
  BY <1>1 DEF Journal
<1> QED BY <1>3, <1>4, <1>5 DEF k, new

\* The operation is over and nothing of it happened.
LEMMA AbortSeen ==
  ASSUME Answered, journal \in Journal, journal.pending # None, NEW m \in Catalog,
         NEW t \in Target, TargetOf(journal.pending.proposal) = t,
         catalog.active[t] = journal.pending.active,
         live[t] # journal.pending.before => disturbed[t],
         journal' = Aborted(journal, m), UNCHANGED <<catalog, live, disturbed>>
  PROVE  Promised!Abort(journal.pending.command, t) /\ Answered'
<1> DEFINE q == journal.pending
           k == Aborted(journal, m)
           done == Done(journal, m, "aborted", q.before)
<1>1. /\ k.pending = None /\ k.apps = journal.apps /\ k.commands = Bound(journal, m, "aborted")
      /\ \A d : d.command \in Command => (d \in k.completed <=> d \in journal.completed \/ d = done)
  BY AbortedForm
<1>2. q.command \in Command /\ q.before \in Holds /\ "aborted" \in Outcome /\ done.status = "aborted"
  BY JournalType, PendingType DEF Outcome, Done
<1> HIDE DEF k, done
<1>3. journal' = k
  BY DEF k
<1>4. AnsweredIn(k) /\ AnswersOnce(journal, k, q.command, done)
  BY <1>1, <1>2, AnswerToPending DEF Answered, done
<1>5. Answers[q.command] = None /\ Answers' = [Answers EXCEPT ![q.command] = "aborted"]
  <2> HIDE DEF q
  <2>1. IsAnswered(AnswersIn(journal), AnswersIn(k), q.command, done.status)
    BY <1>2, <1>4, OneAnswer
  <2> QED BY <2>1, <1>2, <1>3, SeenIs DEF IsAnswered
<1>6. Answered'
  BY <1>3, <1>4 DEF Answered, AnsweredIn, CompletionsOf
<1>7. /\ Values' = [Values EXCEPT ![t] = Values'[t]] /\ Values[t] = q.before /\ Values'[t] = live[t]
  <2>1. \A u \in Target : u # t => ValuesIn(journal', live')[u] = ValuesIn(journal, live)[u]
    BY <1>1, <1>3 DEF ValuesIn
  <2>2. ValuesIn(journal', live')[t] = live[t] /\ ValuesIn(journal, live)[t] = q.before
    BY <1>1, <1>3 DEF ValuesIn
  <2> QED BY <2>1, <2>2, SeenIs DEF ValuesIn
<1>8. \A u \in Target : ActiveBefore(journal', catalog', u) = ActiveBefore(journal, catalog, u)
  BY <1>1, <1>3 DEF ActiveBefore
<1>9. InForce' = InForce /\ Layers' = Layers
  BY <1>1, <1>3, <1>8, SeenIs DEF InForceIn, LayersIn, ProofsFor
<1> QED BY <1>5, <1>6, <1>7, <1>9 DEF Promised!Abort, Promised!Answer, Promised!Put

LEMMA FinishedForm ==
  ASSUME NEW j \in Journal, NEW m
  PROVE  LET k == Finished(j, m)
             status == IF j.pending.op = "rollback" THEN "rolled-back" ELSE "applied" IN
         /\ k.commands = Bound(j, m, status)
         /\ k.completed = j.completed \union {Done(j, m, status, j.pending.after)}
<1> DEFINE status == IF j.pending.op = "rollback" THEN "rolled-back" ELSE "applied"
           k == Finished(j, m)
           done == Done(j, m, status, j.pending.after)
<1>1. PICK apps : k = [j EXCEPT !.pending = None, !.recovery = FALSE,
                                !.commands = Bound(j, m, status),
                                !.completed = @ \union {done}, !.apps = apps]
  BY Zenon DEF Finished
<1> HIDE DEF k, status, done
<1>2. k.commands = Bound(j, m, status) /\ k.completed = j.completed \union {done}
  BY <1>1 DEF Journal
<1> QED BY <1>2 DEF k, status, done

\* The proofs that are in force on the target of an operation when it is over.
LEMMA FinishedProofs ==
  ASSUME NEW j \in Journal, NEW c \in Catalog, NEW m \in Catalog, CatalogWell(c),
         JournalWell(j, c), j.pending # None, Agree(c, m), After(m, j.pending)
  PROVE  LET q == j.pending
             now == IF q.op = "rollback" THEN q.audit.restored ELSE q.proposal
             chain == ProofsFor(Finished(j, m), now) IN
         /\ q.op = "rollback" => chain = Tail(q.previous)
         /\ q.op # "rollback" =>
              \E app \in Application : /\ app.proposal = q.proposal /\ app.before = q.before
                                       /\ chain = <<app>> \o q.previous
<1> DEFINE q == j.pending
           p == q.proposal
           s == q.previous
           k == Finished(j, m)
           now == IF q.op = "rollback" THEN q.audit.restored ELSE p
           app == [proposal |-> q.proposal, command |-> q.command, status |-> "applied",
                   before |-> q.before, after |-> q.after, safe |-> TRUE, revision |-> m.revision]
           replaced == IF q.op = "promote" /\ q.active # None
                       THEN [j.apps EXCEPT ![q.active] = <<>>] ELSE Forget(j.apps, s)
<1>1. /\ k \in Journal /\ k.pending = None /\ app \in Application
      /\ replaced \in [Proposal -> Seq(Application)]
      /\ k.apps = IF q.op # "rollback" THEN [replaced EXCEPT ![p] = <<app>> \o s]
                  ELSE IF Len(s) < 2 THEN [j.apps EXCEPT ![p] = <<>>]
                  ELSE [j.apps EXCEPT ![p] = <<>>, ![s[2].proposal] = Tail(s)]
  BY FinishedType
<1>2. /\ p \in Proposal /\ s \in Seq(Application) /\ j.apps \in [Proposal -> Seq(Application)]
      /\ None \notin Proposal /\ Planned(j, c, q)
  BY JournalType, PendingType, OutsideAssumption DEF JournalWell
<1>3. app.proposal = p /\ app.before = q.before
  OBVIOUS
<1> HIDE DEF app, replaced, k
<1>4. CASE q.op # "rollback"
  <2>1. now = p /\ k.apps[p] = <<app>> \o s
    BY <1>1, <1>2, <1>4
  <2>2. ProofsFor(k, now) = <<app>> \o s
    BY <2>1, <1>2 DEF ProofsFor
  <2> QED BY <2>2, <1>1, <1>3, <1>4 DEF k
<1>5. CASE q.op = "rollback"
  <2>1. /\ s # <<>> /\ now = IF Len(s) > 1 THEN s[2].proposal ELSE None
    BY <1>2, <1>5 DEF Planned
  <2> HIDE DEF now, s
  <2>2. Len(s) \in Nat /\ Len(s) > 0 /\ \A i \in 1..Len(s) : s[i] \in Application
    BY <2>1, <1>2
  <2>3. CASE Len(s) < 2
    <3>1. now = None /\ Len(s) = 1
      <4>1. Len(s) = 1
        BY <2>2, <2>3, SMTT(40)
      <4>2. ~(Len(s) > 1)
        BY <4>1
      <4>3. now = None
        BY <4>2, <2>1, Zenon
      <4> QED BY <4>1, <4>3
    <3>2. Tail(s) = <<>>
      <4>1. Tail(s) \in Seq(Application) /\ Len(Tail(s)) = 0
        BY <3>1, <2>1, <1>2, HeadTailProperties
      <4> QED BY <4>1, EmptySeq
    <3> QED BY <3>1, <3>2, <1>5 DEF ProofsFor, k, now, s
  <2>4. CASE Len(s) >= 2
    <3>1. now = s[2].proposal /\ s[2] \in Application
      BY <2>1, <2>2, <2>4
    <3>2. now \in Proposal
      BY <3>1 DEF Application
    <3>3. k.apps = [j.apps EXCEPT ![p] = <<>>, ![now] = Tail(s)]
      BY <3>1, <2>2, <2>4, <1>1, <1>5
    <3>4. k.apps[now] = Tail(s)
      BY <3>2, <3>3, <1>2
    <3>5. ProofsFor(k, now) = Tail(s)
      BY <3>2, <3>4, <1>2 DEF ProofsFor
    <3> QED BY <3>5, <1>5 DEF now, k, s
  <2>5. Len(s) < 2 \/ Len(s) >= 2
    BY <2>2
  <2> QED BY <2>3, <2>4, <2>5
<1> QED BY <1>4, <1>5

\* What an operator sees when the pending operation is over and has happened.
Finishes(q, m, app) ==
  LET t == TargetOf(q.proposal)
      now == IF q.op = "rollback" THEN q.audit.restored ELSE q.proposal
      status == IF q.op = "rollback" THEN "rolled-back" ELSE "applied" IN
  /\ Answers[q.command] = None /\ Answers' = [Answers EXCEPT ![q.command] = status]
  /\ Values[t] = q.before /\ Values' = [Values EXCEPT ![t] = Values'[t]] /\ Values'[t] = live[t]
  /\ InForce[t] = q.active /\ InForce' = [InForce EXCEPT ![t] = now]
  /\ Layers[t] = LayersOf(ProofsFor(journal, q.active))
  /\ Layers' = [Layers EXCEPT ![t] = IF q.op = "rollback" THEN LayersOf(Tail(q.previous))
                                     ELSE LayersOf(<<app>> \o q.previous)]
LEMMA FinishIs ==
  ASSUME Answered, journal \in Journal, journal.pending # None, catalog \in Catalog,
         CatalogWell(catalog), JournalWell(journal, catalog), NEW m \in Catalog,
         Agree(catalog, m), After(m, journal.pending), journal' = Finished(journal, m),
         UNCHANGED <<catalog, live>>
  PROVE  /\ Answered'
         /\ \E app \in Application : /\ app.proposal = journal.pending.proposal
                                     /\ app.before = journal.pending.before
                                     /\ Finishes(journal.pending, m, app)
<1> DEFINE q == journal.pending
           p == q.proposal
           t == TargetOf(p)
           k == Finished(journal, m)
           now == IF q.op = "rollback" THEN q.audit.restored ELSE p
           status == IF q.op = "rollback" THEN "rolled-back" ELSE "applied"
           done == Done(journal, m, status, q.after)
           chain == ProofsFor(k, now)
<1>1. /\ q.command \in Command /\ q.after \in Holds /\ status \in Outcome /\ done.status = status
      /\ p \in Proposal /\ t \in Target /\ None \notin Proposal
  BY JournalType, PendingType, Targets, OutsideAssumption DEF Outcome, Done
<1>2. /\ k.pending = None /\ JournalWell(k, catalog)
      /\ \A r \in Proposal : TargetOf(r) # t => k.apps[r] = journal.apps[r]
  BY FinishedIs
<1>3. k.commands = Bound(journal, m, status) /\ k.completed = journal.completed \union {done}
  BY FinishedForm
<1>4. /\ q.op = "rollback" => chain = Tail(q.previous)
      /\ q.op # "rollback" =>
           \E app \in Application : app.proposal = p /\ app.before = q.before
                                    /\ chain = <<app>> \o q.previous
  BY FinishedProofs
<1>5. catalog.active[t] = now
  BY <1>1 DEF After, Agree
<1> HIDE DEF done, k, chain, status
<1>6. journal' = k
  BY DEF k
<1>7. AnsweredIn(k) /\ AnswersOnce(journal, k, q.command, done)
  BY <1>1, <1>2, <1>3, AnswerToPending DEF Answered, done
<1>8. Answers[q.command] = None /\ Answers' = [Answers EXCEPT ![q.command] = status]
  <2> HIDE DEF q
  <2>1. IsAnswered(AnswersIn(journal), AnswersIn(k), q.command, done.status)
    BY <1>1, <1>7, OneAnswer
  <2> QED BY <2>1, <1>1, <1>6, SeenIs DEF IsAnswered
<1>9. Answered'
  BY <1>6, <1>7 DEF Answered, AnsweredIn, CompletionsOf
<1>10. /\ Values[t] = q.before /\ Values' = [Values EXCEPT ![t] = Values'[t]] /\ Values'[t] = live[t]
  <2>1. \A u \in Target : u # t => ValuesIn(journal', live')[u] = ValuesIn(journal, live)[u]
    BY <1>2, <1>6 DEF ValuesIn
  <2>2. ValuesIn(journal', live')[t] = live[t] /\ ValuesIn(journal, live)[t] = q.before
    BY <1>1, <1>2, <1>6 DEF ValuesIn
  <2> QED BY <2>1, <2>2, SeenIs DEF ValuesIn
<1>11. /\ ActiveBefore(journal, catalog, t) = q.active /\ ActiveBefore(k, catalog, t) = now
       /\ \A u \in Target : u # t =>
            /\ ActiveBefore(journal, catalog, u) = catalog.active[u]
            /\ ActiveBefore(k, catalog, u) = catalog.active[u]
  BY <1>2, <1>5 DEF ActiveBefore
<1>12. InForce[t] = q.active /\ InForce' = [InForce EXCEPT ![t] = now]
  <2>1. InForceIn(k, catalog) = [InForceIn(journal, catalog) EXCEPT ![t] = now]
    BY <1>11 DEF InForceIn
  <2>2. InForceIn(journal, catalog)[t] = q.active
    BY <1>1, <1>11 DEF InForceIn
  <2> QED BY <2>1, <2>2, <1>6, SeenIs
<1>13. Layers[t] = LayersOf(ProofsFor(journal, q.active))
       /\ Layers' = [Layers EXCEPT ![t] = LayersOf(chain)]
  <2>1. ASSUME NEW u \in Target, u # t
        PROVE  ProofsFor(k, catalog.active[u]) = ProofsFor(journal, catalog.active[u])
    <3>1. CASE catalog.active[u] = None
      BY <3>1 DEF ProofsFor
    <3>2. CASE catalog.active[u] # None
      <4>1. catalog.active[u] \in Proposal /\ TargetOf(catalog.active[u]) = u
        BY <2>1, <3>2 DEF CatalogWell, Catalog
      <4> QED BY <4>1, <2>1, <1>2 DEF ProofsFor
    <3> QED BY <3>1, <3>2
  <2>2. LayersIn(k, catalog) = [LayersIn(journal, catalog) EXCEPT ![t] = LayersOf(chain)]
    BY <2>1, <1>11 DEF LayersIn, chain
  <2>3. LayersIn(journal, catalog)[t] = LayersOf(ProofsFor(journal, q.active))
    BY <1>1, <1>11 DEF LayersIn
  <2> QED BY <2>2, <2>3, <1>6, SeenIs
<1> HIDE DEF q
<1>14. CASE q.op = "rollback"
  <2>1. PICK app \in Application : app.proposal = p /\ app.before = q.before
    <3>1. [proposal |-> p, command |-> q.command, status |-> "applied", before |-> q.before,
           after |-> q.after, safe |-> TRUE, revision |-> m.revision] \in Application
      BY JournalType, PendingType DEF Application, Catalog, q
    <3> QED BY <3>1
  <2>2. Finishes(q, m, app)
    BY <1>4, <1>8, <1>10, <1>12, <1>13, <1>14 DEF Finishes, status
  <2> QED BY <2>1, <2>2, <1>9 DEF q
<1>15. CASE q.op # "rollback"
  <2>1. PICK app \in Application : /\ app.proposal = p /\ app.before = q.before
                                   /\ chain = <<app>> \o q.previous
    BY <1>4, <1>15
  <2>2. Finishes(q, m, app)
    BY <2>1, <1>8, <1>10, <1>12, <1>13, <1>15 DEF Finishes, status
  <2> QED BY <2>1, <2>2, <1>9 DEF q
<1> QED BY <1>14, <1>15

\* The operation is over and happened as a whole.
LEMMA FinishSeen ==
  ASSUME Answered, journal \in Journal, journal.pending # None, catalog \in Catalog,
         CatalogWell(catalog), JournalWell(journal, catalog), NEW m \in Catalog,
         Agree(catalog, m), After(m, journal.pending), journal' = Finished(journal, m),
         UNCHANGED <<catalog, live, disturbed>>,
         live[TargetOf(journal.pending.proposal)] # journal.pending.after
           => disturbed[TargetOf(journal.pending.proposal)]
  PROVE  Promised!Next /\ Answered'
<1> DEFINE q == journal.pending
           p == q.proposal
           t == TargetOf(p)
           s == q.previous
<1>1. PICK app \in Application : app.proposal = p /\ app.before = q.before /\ Finishes(q, m, app)
  BY FinishIs
<1>2. Answered'
  BY FinishIs
<1>3. /\ p \in Proposal /\ q.command \in Command /\ q.op \in Operation /\ s \in Seq(Application)
      /\ q.active \in Proposal \union {None} /\ None \notin Proposal /\ t \in Target
      /\ Planned(journal, catalog, q) /\ ChainsWell(journal, catalog)
  BY JournalType, PendingType, Targets, OutsideAssumption DEF JournalWell
<1>4. Layer(app) = Promised!Layer(p)
  BY <1>1 DEF Finishes, Layer, Promised!Layer
<1>5. LayersOf(<<app>> \o s) = <<Layer(app)>> \o LayersOf(s)
  <2> HIDE DEF s, q, p, t
  <2> QED BY <1>1, <1>3, LayersOnTop
<1>6. LayersOf(<<>>) = <<>> /\ (s # <<>> => LayersOf(s) # <<>>)
  <2>1. <<>> \in Seq(Application)
    OBVIOUS
  <2> QED BY <2>1, <1>3, LayersAre
<1>7. disturbed' = disturbed /\ live[t] # q.after => disturbed[t]
  OBVIOUS
<1> HIDE DEF q, p, t, s
<1>8. CASE q.op = "promote"
  <2>1. /\ s = ProofsFor(journal, q.active) /\ (q.active # None => s # <<>>)
        /\ q.after = Definition[p]
    BY <1>3, <1>8 DEF Planned, q, p, s
  <2>2. Promised!Answer(q.command, "applied") /\ Promised!Put(t, Definition[p])
    BY <1>1, <1>7, <1>8, <2>1 DEF Finishes, Promised!Answer, Promised!Put, t, p
  <2>3. InForce[t] = None \/ Layers[t] # <<>>
    BY <1>1, <1>6, <2>1 DEF Finishes, t, p
  <2>4. InForce' = [InForce EXCEPT ![t] = p]
    BY <1>1, <1>8 DEF Finishes, t, p
  <2>5. Layers' = [Layers EXCEPT ![t] = <<Promised!Layer(p)>> \o @]
    BY <1>1, <1>4, <1>5, <1>8, <2>1 DEF Finishes, t, p, s
  <2>6. Promised!Promote(q.command, p)
    BY <2>2, <2>3, <2>4, <2>5 DEF Promised!Promote, t
  <2> QED BY <2>6, <1>2, <1>3 DEF Promised!Next
<1>9. CASE q.op = "reconcile"
  <2>1. /\ q.active = p /\ ProofsFor(journal, q.active) = <<>> /\ q.after = Definition[p]
        /\ Len(s) <= 1
        /\ s # <<>> => Replaced(catalog, p) = s[1].proposal /\ s[1].before = q.before
    BY <1>3, <1>9 DEF Planned, ProofsFor, q, p, s
  <2>2. Promised!Answer(q.command, "applied") /\ Promised!Put(t, Definition[p])
    BY <1>1, <1>7, <1>9, <2>1 DEF Finishes, Promised!Answer, Promised!Put, t, p
  <2>3. InForce[t] = p /\ Layers[t] = <<>>
    BY <1>1, <1>6, <2>1 DEF Finishes, t, p
  <2>4. InForce' = InForce
    <3>1. InForce' = [InForce EXCEPT ![t] = p]
      BY <1>1, <1>9 DEF Finishes, t, p
    <3>2. InForce = [u \in Target |-> InForce[u]]
      BY DEF InForce
    <3> QED BY <3>1, <3>2, <2>3
  <2>5. LayersOf(s) \in {<<>>} \union {<<Promised!Layer(r)>> : r \in Proposal \ {p}}
    <3>1. CASE s = <<>>
      BY <3>1, <1>6
    <3>2. CASE s # <<>>
      <4> DEFINE r == s[1].proposal
                 l == LayersOf(s)
      <4>1. Len(s) = 1 /\ s[1] \in Application
        <5> DEFINE n == Len(s)
        <5>1. n \in Nat \ {0} /\ s[1] \in Application
          BY <3>2, <1>3, TopLayers
        <5>2. n <= 1
          BY <2>1
        <5> HIDE DEF n
        <5>3. n = 1
          BY <5>1, <5>2
        <5> QED BY <5>1, <5>3 DEF n
      <4>2. r \in Proposal \ {p} /\ TargetOf(r) = t
        <5>1. r \in Proposal /\ r = Replaced(catalog, p)
          BY <4>1, <3>2, <2>1 DEF Application
        <5> QED BY <5>1, <1>3 DEF CatalogWell, t
      <4>3. Layer(s[1]) = Promised!Layer(r)
        BY <4>2, <3>2, <2>1, <1>1 DEF Layer, Promised!Layer, Finishes, t, p
      <4>4. l \in Seq(LayerSet) /\ Len(l) = 1 /\ l[1] = Layer(s[1])
        BY <4>1, <1>3, LayersAre
      <4> HIDE DEF l, r
      <4>5. l = <<Promised!Layer(r)>>
        BY <4>3, <4>4
      <4> QED BY <4>2, <4>5 DEF l
    <3> QED BY <3>1, <3>2
  <2>6. Layers' = [Layers EXCEPT ![t] = <<Promised!Layer(p)>> \o LayersOf(s)]
    BY <1>1, <1>4, <1>5, <1>9 DEF Finishes, t, p, s
  <2>7. Promised!Reconcile(q.command, p)
    BY <2>2, <2>3, <2>4, <2>5, <2>6 DEF Promised!Reconcile, t
  <2> QED BY <2>7, <1>2, <1>3 DEF Promised!Next
<1>10. CASE q.op = "rollback"
  <2>1. /\ q.active = p /\ s = ProofsFor(journal, q.active) /\ s # <<>>
        /\ q.after = s[1].before /\ s[1].proposal = p
        /\ q.audit.restored = IF Len(s) > 1 THEN s[2].proposal ELSE None
    BY <1>3, <1>10 DEF Planned, ChainsWell, ProofsFor, q, p, s
  <2>2. /\ LayersOf(s)[1] = Layer(s[1]) /\ (Len(s) > 1 => LayersOf(s)[2] = Layer(s[2]))
        /\ Len(LayersOf(s)) = Len(s)
    BY <1>3, <2>1, TopLayers
  <2>3. Layers[t] = LayersOf(s) /\ InForce[t] = p
    BY <1>1, <2>1 DEF Finishes, t, p
  <2>4. /\ Layers[t] # <<>> /\ Layers[t][1].proposal = p /\ Layers[t][1].covered = q.after
        /\ q.audit.restored = IF Len(Layers[t]) > 1 THEN Layers[t][2].proposal ELSE None
    <3>1. /\ Layer(s[1]).proposal = s[1].proposal /\ Layer(s[1]).covered = s[1].before
          /\ Layer(s[2]).proposal = s[2].proposal
      BY DEF Layer
    <3>2. LayersOf(s)[1].proposal = p /\ LayersOf(s)[1].covered = q.after
      BY <3>1, <2>1, <2>2
    <3>3. q.audit.restored = IF Len(LayersOf(s)) > 1 THEN LayersOf(s)[2].proposal ELSE None
      BY <3>1, <2>1, <2>2, Zenon
    <3> QED BY <3>2, <3>3, <2>1, <2>3, <1>6
  <2>5. Promised!Answer(q.command, "rolled-back") /\ Promised!Put(t, Layers[t][1].covered)
    BY <1>1, <1>7, <1>10, <2>4 DEF Finishes, Promised!Answer, Promised!Put, t, p
  <2>6. InForce' = [InForce EXCEPT ![t] = IF Len(Layers[t]) > 1 THEN Layers[t][2].proposal ELSE None]
    BY <1>1, <1>10, <2>4 DEF Finishes, t, p
  <2>7. Layers' = [Layers EXCEPT ![t] = Tail(@)]
    BY <1>1, <1>3, <1>10, <2>1, <2>3, LayersBelow DEF Finishes, t, p, s
  <2>8. Promised!Rollback(q.command, t)
    BY <2>3, <2>4, <2>5, <2>6, <2>7 DEF Promised!Rollback
  <2> QED BY <2>8, <1>2, <1>3 DEF Promised!Next
<1> QED BY <1>3, <1>8, <1>9, <1>10 DEF Operation

\* A command gives a promotion that is in force the proof that it did not have.
LEMMA CaptureSeen ==
  ASSUME Answered, journal \in Journal, journal.pending = None, CatalogWell(catalog),
         catalog \in Catalog, UNCHANGED <<catalog, live, disturbed>>,
         NEW command \in Command, NEW p \in Proposal, NEW app \in Application, NEW done,
         NEW binding \in Binding,
         journal.commands[command] = None, journal.apps[p] = <<>>,
         catalog.active[TargetOf(p)] = p, live[TargetOf(p)] = Definition[p],
         app.proposal = p, app.before = live[TargetOf(p)],
         done.command = command, done.status = "adopted", journal'.pending = None,
         journal'.apps = [journal.apps EXCEPT ![p] = <<app>> \o <<>>],
         journal'.completed = journal.completed \union {done},
         journal'.commands = [journal.commands EXCEPT ![command] = binding]
  PROVE  Promised!Reconcile(command, p) /\ Answered'
<1> DEFINE t == TargetOf(p)
           chain == <<app>> \o <<>>
<1>1. /\ t \in Target /\ binding # None /\ None \notin Proposal
      /\ journal.commands \in [Command -> Binding \union {None}]
      /\ journal.apps \in [Proposal -> Seq(Application)]
  BY Targets, NoneAssumption, OutsideAssumption, JournalType
<1>2. CompletionsOf(journal, command) = {}
  BY DEF Answered, AnsweredIn
<1>3. /\ CompletionsOf(journal', command) = {done}
      /\ \A c \in Command \ {command} : CompletionsOf(journal', c) = CompletionsOf(journal, c)
  BY <1>2 DEF CompletionsOf
<1>4. AnsweredIn(journal')
  <2>1. \A c \in Command : c # command => journal'.commands[c] = journal.commands[c]
    BY <1>1
  <2>2. journal'.commands[command] = binding
    BY <1>1
  <2> QED BY <2>1, <2>2, <1>1, <1>3 DEF AnsweredIn, Answered
<1>5. Answered'
  BY <1>4 DEF Answered, AnsweredIn, CompletionsOf
<1>6. Answers[command] = None /\ Answers' = [Answers EXCEPT ![command] = "adopted"]
  <2>1. AnswersOnce(journal, journal', command, done)
    BY <1>2, <1>3 DEF AnswersOnce
  <2>2. IsAnswered(AnswersIn(journal), AnswersIn(journal'), command, done.status)
    BY <2>1, OneAnswer
  <2> QED BY <2>2, SeenIs DEF IsAnswered
<1>7. Values' = Values /\ Values = [u \in Target |-> Values[u]] /\ Values[t] = Definition[p]
  <2>1. ValuesIn(journal', live') = ValuesIn(journal, live)
    BY DEF ValuesIn
  <2>2. ValuesIn(journal, live)[t] = Definition[p]
    BY <1>1 DEF ValuesIn
  <2> QED BY <2>1, <2>2, SeenIs DEF Values
<1>8. \A u \in Target : /\ ActiveBefore(journal', catalog', u) = catalog.active[u]
                        /\ ActiveBefore(journal, catalog, u) = catalog.active[u]
  BY DEF ActiveBefore
<1>9. InForce' = InForce /\ InForce[t] = p
  <2> HIDE DEF t
  <2>1. \A u \in Target : InForceIn(journal', catalog')[u] = InForceIn(journal, catalog)[u]
    BY <1>8 DEF InForceIn
  <2>2. InForceIn(journal', catalog') = InForceIn(journal, catalog)
    BY <2>1 DEF InForceIn
  <2>3. InForceIn(journal, catalog)[t] = catalog.active[t]
    BY <1>1, <1>8 DEF InForceIn
  <2> QED BY <2>2, <2>3, SeenIs DEF t
<1>10. LayersOf(chain) = <<Promised!Layer(p)>> \o <<>>
  <2>1. Layer(app) = Promised!Layer(p)
    BY <1>7 DEF Layer, Promised!Layer
  <2>2. <<>> \in Seq(Application)
    OBVIOUS
  <2>3. LayersOf(<<>>) = <<>>
    BY <2>2, LayersAre
  <2>4. LayersOf(<<app>> \o <<>>) = <<Layer(app)>> \o LayersOf(<<>>)
    BY <2>2, LayersOnTop
  <2> QED BY <2>1, <2>3, <2>4
<1> HIDE DEF chain
<1>11. Layers[t] = <<>> /\ Layers' = [Layers EXCEPT ![t] = LayersOf(chain)]
  <2>1. ASSUME NEW u \in Target, u # t
        PROVE  ProofsFor(journal', catalog.active[u]) = ProofsFor(journal, catalog.active[u])
    <3>1. CASE catalog.active[u] = None
      BY <3>1 DEF ProofsFor
    <3>2. CASE catalog.active[u] # None
      <4>1. catalog.active[u] \in Proposal /\ catalog.active[u] # p
        BY <2>1, <3>2 DEF CatalogWell, Catalog
      <4> QED BY <4>1, <1>1 DEF ProofsFor
    <3> QED BY <3>1, <3>2
  <2>2. ProofsFor(journal', catalog.active[t]) = chain /\ ProofsFor(journal, catalog.active[t]) = <<>>
    BY <1>1 DEF ProofsFor, chain
  <2>3. LayersIn(journal', catalog') = [LayersIn(journal, catalog) EXCEPT ![t] = LayersOf(chain)]
    <3> HIDE DEF t
    <3>1. ASSUME NEW u \in Target
          PROVE  LayersIn(journal', catalog')[u] = IF u = t THEN LayersOf(chain)
                                                   ELSE LayersIn(journal, catalog)[u]
      <4>1. LayersIn(journal', catalog')[u] = LayersOf(ProofsFor(journal', catalog.active[u]))
            /\ LayersIn(journal, catalog)[u] = LayersOf(ProofsFor(journal, catalog.active[u]))
        BY <1>8 DEF LayersIn
      <4> QED BY <4>1, <2>1, <2>2
    <3> QED BY <3>1 DEF LayersIn
  <2>4. LayersIn(journal, catalog)[t] = LayersOf(<<>>)
    BY <2>2, <1>1, <1>8 DEF LayersIn
  <2>5. <<>> \in Seq(Application)
    OBVIOUS
  <2>6. LayersOf(<<>>) = <<>>
    BY <2>5, LayersAre
  <2> QED BY <2>3, <2>4, <2>6, SeenIs
<1>12. Promised!Answer(command, "adopted") /\ Promised!Put(t, Definition[p])
  <2>1. Values' = [Values EXCEPT ![t] = Values'[t]] /\ Values'[t] = Definition[p]
    BY <1>1, <1>7
  <2> QED BY <2>1, <1>6 DEF Promised!Answer, Promised!Put
<1>13. Promised!Reconcile(command, p)
  BY <1>9, <1>10, <1>11, <1>12 DEF Promised!Reconcile
<1> QED BY <1>5, <1>13

\* A step of the promise, or one that an operator does not see.
SeenStep == [Promised!Next]_(Promised!promise) /\ Answered'

LEMMA AdoptSeen ==
  ASSUME IInv, Answered, NEW command \in Command, NEW p \in Proposal, Adopt(command, p)
  PROVE  SeenStep
<1> DEFINE t == TargetOf(p)
           chain == Predecessor(p, command)
           now == live[t]
           before == IF chain = <<>> THEN now ELSE chain[1].after
           app == [proposal |-> p, command |-> command, status |-> "adopted", before |-> before,
                   after |-> now, safe |-> chain # <<>>, revision |-> memory.revision]
           done == [command |-> command, op |-> "reconcile", proposal |-> p,
                    status |-> "adopted", before |-> before, after |-> now,
                    from |-> memory.revision, to |-> memory.revision]
           binding == [op |-> "reconcile", proposal |-> p, snapshot |-> memory.status[p],
                       status |-> "adopted"]
           apps == [Forget(state.apps, chain) EXCEPT ![p] = <<app>> \o chain]
           more == state.completed \union {done}
           j == [state EXCEPT !.apps = apps, !.completed = more, !.commands[command] = binding]
<1>1. /\ Reconcilable(command, p) /\ Idle /\ now = Definition[p]
      /\ Replaced(memory, p) # None => state.apps[Replaced(memory, p)] # <<>>
      /\ journal' \in {journal, j}
      /\ UNCHANGED <<catalog, live, disturbed>>
  <2>1. /\ Reconcilable(command, p) /\ now = Definition[p]
        /\ Replaced(memory, p) # None => state.apps[Replaced(memory, p)] # <<>>
        /\ Persist(j) \/ PersistFails(j)
        /\ UNCHANGED <<catalog, live, disturbed>>
    BY Zenon DEF Adopt
  <2> HIDE DEF j
  <2>2. journal' \in {journal, j}
    BY <2>1 DEF Persist, PersistFails
  <2> QED BY <2>1, <2>2 DEF Reconcilable
<1>2. memory.active[t] = p /\ state.apps[p] = <<>> /\ state.commands[command] = None
  BY <1>1 DEF Reconcilable, CanRollBack, Unanswered
<1>3. /\ state = journal /\ journal.pending = None /\ Agree(catalog, memory)
      /\ TypeOK /\ journal \in Journal /\ catalog \in Catalog /\ CatalogWell(catalog)
  BY <1>1, IdleMeans DEF IInv, TypeOK, CatalogsWell
<1>4. CASE journal' = journal
  BY <1>1, <1>3, <1>4, Unseen DEF SeenStep
<1>5. CASE journal' = j
  <2>1. chain = <<>>
    <3>1. Below(p, chain)
      BY <1>1, PredecessorIs
    <3> HIDE DEF chain
    <3>2. Replaced(memory, p) = None
      BY <3>1, <1>1, Zenon DEF Below
    <3> QED BY <3>1, <3>2 DEF Below
  <2>2. now \in Holds /\ memory.revision \in Nat /\ memory.status[p] \in Status
    BY <1>3, TargetTypes DEF IInv
  <2> HIDE DEF chain
  <2>3. before = now
    BY <2>1
  <2> HIDE DEF before
  <2>4. app \in Application /\ done.command = command /\ done.status = "adopted"
        /\ binding \in Binding /\ app.proposal = p /\ app.before = now
    BY <2>2, <2>3 DEF Application, Binding, Operation, Outcome
  <2> HIDE DEF app, done, binding
  <2>5. apps = [journal.apps EXCEPT ![p] = <<app>> \o <<>>]
    BY <2>1, <1>3 DEF Forget
  <2> HIDE DEF apps
  <2>6. j.pending = None /\ j.apps = apps /\ j.completed = journal.completed \union {done}
        /\ j.commands = [journal.commands EXCEPT ![command] = binding]
    BY <1>3 DEF Journal
  <2> HIDE DEF j
  <2>7. catalog.active[t] = p
    BY <1>2, <1>3 DEF Agree
  <2>8. Promised!Reconcile(command, p) /\ Answered'
    BY <1>1, <1>2, <1>3, <1>5, <2>4, <2>5, <2>6, <2>7, CaptureSeen
  <2> QED BY <2>8 DEF SeenStep, Promised!Next
<1> QED BY <1>1, <1>4, <1>5

LEMMA StartSeen ==
  ASSUME IInv, Answered, Idle, NEW command \in Command, Unanswered(command),
         \E j : Starts(command, j)
  PROVE  SeenStep
<1>1. PICK j : Starts(command, j)
  OBVIOUS
<1> DEFINE t == TargetOf(j.pending.proposal)
<1>2. state = journal /\ journal.pending = None /\ catalog.active = memory.active
  BY IdleMeans DEF Agree
<1>3. /\ j.apps = journal.apps /\ j.commands = journal.commands
      /\ \A c \in Command : CompletionsOf(j, c) = CompletionsOf(journal, c)
      /\ j.pending # None /\ j.pending.command = command /\ j.pending.proposal \in Proposal
      /\ j.pending.before = live[t] /\ j.pending.active = catalog.active[t]
      /\ journal' \in {journal, j} /\ UNCHANGED <<catalog, live>>
      /\ disturbed' = [disturbed EXCEPT ![t] = FALSE]
  BY <1>1, <1>2, Zenon DEF Starts
<1>4. journal.commands[command] = None /\ t \in Target
  BY <1>2, <1>3, Targets DEF Unanswered
<1> HIDE DEF t
<1>5. Promised!Begin(t) /\ Answered'
  BY <1>2, <1>3, <1>4, BeginSeen DEF t
<1> QED BY <1>4, <1>5 DEF SeenStep, Promised!Next

LEMMA BeginsSeen ==
  ASSUME IInv, Answered, NEW command \in Command,
         \/ \E v \in previews : Execute(command, v)
         \/ \E p \in Proposal : Reapply(command, p)
  PROVE  SeenStep
<1>1. ASSUME NEW v \in previews, Execute(command, v) PROVE SeenStep
  <2>1. Idle /\ Unanswered(command)
    BY <1>1 DEF Execute
  <2> QED BY <2>1, <1>1, ExecuteKeeps, StartSeen
<1>2. ASSUME NEW p \in Proposal, Reapply(command, p) PROVE SeenStep
  <2>1. Idle /\ Unanswered(command)
    BY <1>2 DEF Reapply, Reconcilable
  <2> QED BY <2>1, <1>2, ReapplyKeeps, StartSeen
<1> QED BY <1>1, <1>2

\* Proposals come, are evaluated, archived and deleted; previews come and go.
LEMMA CatalogOnlySeen ==
  ASSUME IInv, Answered, NEW p \in Proposal,
         \/ Propose(p) \/ BeginEvaluation(p) \/ Evaluate(p) \/ Reject(p) \/ Archive(p)
         \/ Unarchive(p) \/ Delete(p)
  PROVE  SeenStep
<1>1. PICK c : Quiet(memory, c) /\ Mutate(c)
  BY QuietlyMutates
<1>2. Idle /\ UNCHANGED <<journal, live, disturbed>> /\ catalog' \in {catalog, c}
  BY <1>1 DEF Mutate, Commit, CommitFails
<1>3. catalog.active = memory.active /\ c.active = memory.active
  BY <1>1, <1>2, IdleMeans DEF Quiet, Agree
<1> QED BY <1>2, <1>3, Unseen DEF SeenStep

LEMMA PreviewSeen ==
  ASSUME Answered,
         \/ \E p \in Proposal : PreviewPromotion(p) \/ PreviewRollback(p)
         \/ \E v \in previews : ExpirePreview(v)
  PROVE  SeenStep
<1>1. UNCHANGED <<journal, catalog, live, disturbed>>
  BY DEF PreviewPromotion, PreviewRollback, Mint, ExpirePreview
<1> QED BY <1>1, Unseen DEF SeenStep

\* The target of the pending operation is written, and the prompt committed.
LEMMA WriteSeen ==
  ASSUME IInv, Answered,
         ApplyStrategy \/ WritePrompt \/ StagePrompt \/ CommitPrompt \/ Verify
  PROVE  SeenStep
<1>1. state = journal
  <2>1. pc \in Acting
    BY DEF ApplyStrategy, WritePrompt, StagePrompt, CommitPrompt, Verify, Step, Acting
  <2> QED BY <2>1, ActingMeans
<1>2. UNCHANGED <<journal, catalog, disturbed>>
  BY DEF ApplyStrategy, WritePrompt, StagePrompt, CommitPrompt, Verify, Touch
<1>3. live \in [Target -> Holds]
  BY DEF IInv, TypeOK
<1>4. \A t \in Target : ~PendingOn(t) => live'[t] = live[t]
  <2>1. CASE ApplyStrategy
    BY <2>1, <1>1, <1>3 DEF ApplyStrategy, On, Hold, PendingOn
  <2>2. CASE WritePrompt
    BY <2>2, <1>1, <1>3 DEF WritePrompt, On, Hold, PendingOn
  <2>3. CASE StagePrompt \/ CommitPrompt \/ Verify
    BY <2>3 DEF StagePrompt, CommitPrompt, Verify
  <2> QED BY <2>1, <2>2, <2>3
<1> QED BY <1>2, <1>4, Unseen DEF SeenStep

\* The catalog takes the outcome of the pending operation.
LEMMA CommitCatalogSeen == IInv /\ Answered /\ CommitCatalog => SeenStep
<1> SUFFICES ASSUME IInv, Answered, CommitCatalog PROVE SeenStep
  OBVIOUS
<1> DEFINE q == journal.pending
           d == OutcomeFor(memory, q)
<1>1. pc = "promote" /\ pc \in Acting /\ UNCHANGED <<journal, live, disturbed>>
  BY DEF CommitCatalog, Step, Acting
<1>2. /\ state = journal /\ journal \in Journal /\ q # None /\ Before(memory, q)
      /\ JournalWell(journal, catalog) /\ Agree(catalog, memory)
  BY <1>1, ActingMeans
<1>3. q.op # "reconcile" /\ memory \in Catalog /\ CatalogWell(memory)
  BY <1>1, <1>2 DEF IInv, Placed, TypeOK, CatalogsWell
<1>4. catalog' \in {catalog, d} /\ (catalog' # catalog => memory = catalog)
  <2>1. CatalogOutcome = d
    BY <1>2 DEF CatalogOutcome, OutcomeFor
  <2>2. catalog' = catalog \/ (catalog' = d /\ ~indeterminate)
    BY <2>1 DEF CommitCatalog, Commit, CommitFails
  <2> QED BY <2>2 DEF IInv, CatalogsWell
<1>5. ASSUME catalog' # catalog
      PROVE  \A t \in Target : t # TargetOf(q.proposal) => d.active[t] = catalog.active[t]
  <2>1. JournalWell(journal, memory) /\ memory = catalog
    BY <1>2, <1>4, <1>5
  <2> HIDE DEF q
  <2> QED BY <2>1, <1>2, <1>3, OutcomeIs DEF q
<1> HIDE DEF d
<1>6. \A t \in Target : ~PendingOn(t) => catalog'.active[t] = catalog.active[t]
  BY <1>2, <1>4, <1>5 DEF PendingOn
<1> QED BY <1>1, <1>6, Unseen DEF SeenStep

\* The journal is written without the pending operation, which happened, or the write is lost.
LEMMA FinishesSeen ==
  ASSUME IInv, Answered, pc \in Settling \union {"record"}, After(memory, journal.pending),
         journal' \in {journal, Finished(state, memory)}, UNCHANGED <<catalog, live, disturbed>>,
         live[TargetOf(journal.pending.proposal)] # journal.pending.after
           => disturbed[TargetOf(journal.pending.proposal)]
  PROVE  SeenStep
<1>1. state = journal /\ journal.pending # None /\ journal \in Journal
  BY DEF IInv, Synchronous, Placed, TypeOK, Settling
<1>2. /\ catalog \in Catalog /\ CatalogWell(catalog) /\ JournalWell(journal, catalog)
      /\ memory \in Catalog /\ Agree(catalog, memory)
  BY DEF IInv, TypeOK, CatalogsWell, JournalsWell, Settling
<1>3. CASE journal' = journal
  BY <1>3, Unseen DEF SeenStep
<1>4. CASE journal' = Finished(journal, memory)
  BY <1>1, <1>2, <1>4, FinishSeen DEF SeenStep
<1> QED BY <1>1, <1>3, <1>4

\* Or nothing of it happened.
LEMMA AbortsSeen ==
  ASSUME IInv, Answered, pc \in Settling \union {"refused"}, Before(memory, journal.pending),
         journal' \in {journal, Aborted(state, memory)}, UNCHANGED <<catalog, live, disturbed>>,
         live[TargetOf(journal.pending.proposal)] # journal.pending.before
           => disturbed[TargetOf(journal.pending.proposal)]
  PROVE  SeenStep
<1> DEFINE t == TargetOf(journal.pending.proposal)
<1>1. state = journal /\ journal.pending # None /\ journal \in Journal
  BY DEF IInv, Synchronous, Placed, TypeOK, Settling
<1>2. memory \in Catalog /\ Agree(catalog, memory)
  BY DEF IInv, TypeOK, CatalogsWell, Settling
<1>3. CASE journal' = journal
  BY <1>3, Unseen DEF SeenStep
<1>4. CASE journal' = Aborted(journal, memory)
  <2>1. t \in Target /\ journal.pending.command \in Command
    BY <1>1, JournalType, PendingType, Targets
  <2>2. catalog.active[t] = journal.pending.active
    BY <1>2 DEF Before, Agree
  <2>3. Promised!Abort(journal.pending.command, t) /\ Answered'
    BY <1>1, <1>2, <1>4, <2>1, <2>2, AbortSeen
  <2> QED BY <2>1, <2>3 DEF SeenStep, Promised!Next
<1> QED BY <1>1, <1>3, <1>4

\* While nobody disturbed the operation, its target is where the coordinator has put it.
LEMMA PaceIs ==
  ASSUME IInv, journal.pending # None, ~disturbed[TargetOf(journal.pending.proposal)]
  PROVE  /\ pc \in {"record", "conclude"} =>
              live[TargetOf(journal.pending.proposal)] = journal.pending.after
         /\ pc = "restored" => live[TargetOf(journal.pending.proposal)] = journal.pending.before
BY DEF IInv, ProgressWell, Undisturbed, Pace

LEMMA SavesSeen == IInv /\ Answered /\ (Record \/ SettleRefusal \/ SettleLoss) => SeenStep
<1> SUFFICES ASSUME IInv, Answered, Record \/ SettleRefusal \/ SettleLoss PROVE SeenStep
  OBVIOUS
<1>1. state = journal /\ journal.pending # None /\ journal \in Journal
  BY DEF IInv, Synchronous, Placed, TypeOK, Record, SettleRefusal, SettleLoss, Step
<1>2. UNCHANGED <<catalog, live, disturbed>>
  BY DEF Record, SettleRefusal, SettleLoss, Save, Touch
<1>3. CASE Record
  <2>1. pc = "record" /\ journal' \in {journal, Finished(state, memory)}
    BY <1>3 DEF Record, Step, Save, Persist, PersistFails
  <2>2. After(memory, journal.pending)
    BY <2>1, <1>1 DEF IInv, Placed
  <2> QED BY <2>1, <2>2, <1>1, <1>2, PaceIs, FinishesSeen
<1>4. CASE SettleRefusal
  <2>1. pc = "refused" /\ Before(memory, journal.pending)
    BY <1>1, <1>4 DEF IInv, Placed, Acting, SettleRefusal, Step
  <2>2. CASE live[TargetOf(state.pending.proposal)] = state.pending.before
    <3>1. journal' \in {journal, Aborted(state, memory)}
      BY <2>2, <1>4 DEF SettleRefusal, Save, Persist, PersistFails
    <3> QED BY <2>1, <2>2, <3>1, <1>1, <1>2, AbortsSeen
  <2>3. CASE live[TargetOf(state.pending.proposal)] # state.pending.before
    <3>1. journal' = journal
      BY <2>3, <1>4 DEF SettleRefusal, Touch
    <3> QED BY <3>1, <1>2, Unseen DEF SeenStep
  <2> QED BY <2>2, <2>3
<1>5. CASE SettleLoss
  <2>1. PICK recovery \in BOOLEAN : journal' \in {journal, [state EXCEPT !.recovery = recovery]}
    BY <1>5 DEF SettleLoss, Save, Persist, PersistFails
  <2>2. /\ journal'.pending = journal.pending /\ journal'.apps = journal.apps
        /\ journal'.completed = journal.completed /\ journal'.commands = journal.commands
    BY <2>1, <1>1 DEF Journal
  <2> QED BY <2>2, <1>2, Unseen DEF SeenStep
<1> QED BY <1>3, <1>4, <1>5

\* The opening finds an operation that is over, one way or the other, and says so.
LEMMA SettledSeen ==
  ASSUME IInv, Answered, SettleAborted \/ SettleFinalize \/ Conclude \/ ConcludeRestored
  PROVE  SeenStep
<1>1. pc \in Settling /\ UNCHANGED <<catalog, live, disturbed>>
  BY DEF SettleAborted, SettleFinalize, Conclude, ConcludeRestored, Settling, EndsOpening
<1>2. /\ state = journal /\ journal.pending # None /\ journal \in Journal /\ memory = catalog
      /\ catalog \in Catalog /\ CatalogWell(catalog) /\ JournalWell(journal, catalog)
  BY <1>1, SettlingMeans
<1>3. CASE SettleAborted
  <2>1. /\ live[TargetOf(journal.pending.proposal)] = journal.pending.before
        /\ memory.revision = journal.pending.revision
    BY <1>2, <1>3 DEF SettleAborted, Situation, SituationOf
  <2>2. Before(memory, journal.pending)
    BY <2>1, <1>2 DEF JournalWell
  <2>3. journal' \in {journal, Aborted(state, memory)}
    BY <1>3 DEF SettleAborted, EndsOpening
  <2> QED BY <2>1, <2>2, <2>3, <1>1, AbortsSeen
<1>4. CASE SettleFinalize
  <2>1. /\ live[TargetOf(journal.pending.proposal)] = journal.pending.after
        /\ OutcomeReached(catalog, journal.pending)
    BY <1>2, <1>4 DEF SettleFinalize, Situation, SituationOf
  <2>2. After(memory, journal.pending)
    BY <2>1, <1>2, ReachedIs
  <2>3. journal' \in {journal, Finished(state, memory)}
    BY <1>4 DEF SettleFinalize, EndsOpening
  <2> QED BY <2>1, <2>2, <2>3, <1>1, FinishesSeen
<1>5. CASE Conclude
  <2>1. pc = "conclude" /\ journal' \in {journal, Finished(state, memory)}
    BY <1>5 DEF Conclude, EndsOpening
  <2>2. After(memory, journal.pending)
    BY <2>1, <1>2 DEF IInv, Placed
  <2> QED BY <2>1, <2>2, <1>1, <1>2, PaceIs, FinishesSeen
<1>6. CASE ConcludeRestored
  <2>1. pc = "restored" /\ journal' \in {journal, Aborted(state, memory)}
    BY <1>6 DEF ConcludeRestored, EndsOpening
  <2>2. Before(memory, journal.pending)
    BY <2>1, <1>2 DEF IInv, Placed
  <2> QED BY <2>1, <2>2, <1>1, <1>2, PaceIs, AbortsSeen
<1> QED BY <1>3, <1>4, <1>5, <1>6

\* It begins, brings the catalog or the prompt to where the other is, or gives up.
LEMMA OpeningSeen ==
  ASSUME IInv, Answered, Open \/ SettleFinish \/ RestorePrompt \/ SettleUnknown \/ Stop
  PROVE  SeenStep
<1>1. UNCHANGED <<journal, disturbed>>
  BY DEF Open, SettleFinish, RestorePrompt, SettleUnknown, Stop
<1>2. CASE Open \/ SettleUnknown \/ Stop
  <2>1. UNCHANGED <<catalog, live>>
    BY <1>2 DEF Open, SettleUnknown, Stop
  <2> QED BY <2>1, <1>1, Unseen DEF SeenStep
<1>3. CASE RestorePrompt
  <2>1. state = journal
    BY <1>3, SettlingMeans DEF RestorePrompt, Settling
  <2>2. live \in [Target -> Holds]
    BY DEF IInv, TypeOK
  <2>3. /\ catalog' = catalog
        /\ \A t \in Target : ~PendingOn(t) => live'[t] = live[t]
    BY <2>1, <2>2, <1>3 DEF RestorePrompt, On, Hold, PendingOn
  <2> QED BY <2>3, <1>1, Unseen DEF SeenStep
<1>4. CASE SettleFinish
  <2> DEFINE q == journal.pending
             d == OutcomeFor(catalog, q)
  <2>1. /\ state = journal /\ journal \in Journal /\ q # None /\ memory = catalog
        /\ catalog \in Catalog /\ CatalogWell(catalog) /\ JournalWell(journal, catalog)
        /\ Planned(journal, catalog, q) /\ q.proposal \in Proposal /\ q.op \in Operation
    BY <1>4, SettlingMeans, PendingType DEF SettleFinish, Settling
  <2>2. /\ live[TargetOf(q.proposal)] = q.after /\ catalog.revision = q.revision
        /\ ~OutcomeReached(catalog, q)
    BY <2>1, <1>4 DEF SettleFinish, On, Situation, SituationOf
  <2>3. Before(catalog, q)
    BY <2>1, <2>2 DEF JournalWell
  <2>4. q.op # "reconcile"
    BY <2>1, <2>2, <2>3 DEF OutcomeReached, Known, Before, Planned
  <2>5. \A t \in Target : t # TargetOf(q.proposal) => d.active[t] = catalog.active[t]
    BY <2>1, <2>3, <2>4, OutcomeIs
  <2>6. catalog' \in {catalog, d} /\ live' = live
    <3>1. CatalogOutcome = d
      BY <2>1 DEF CatalogOutcome, OutcomeFor
    <3> QED BY <3>1, <1>4 DEF SettleFinish, Commit, CommitFails
  <2> HIDE DEF d
  <2>7. \A t \in Target : ~PendingOn(t) => catalog'.active[t] = catalog.active[t]
    BY <2>1, <2>5, <2>6 DEF PendingOn
  <2> QED BY <2>6, <2>7, <1>1, Unseen DEF SeenStep
<1> QED BY <1>2, <1>3, <1>4

\* People.
LEMMA PeopleSeen ==
  ASSUME IInv, Answered, CommitOther \/ CommitEdit \/ \E t \in Target, x \in Holds : Edit(t, x)
  PROVE  SeenStep
<1>1. PICK t \in Target : Meddle(t) /\ \A u \in Target : u # t => live'[u] = live[u]
  <2>1. "prompt" \in Target /\ live \in [Target -> Holds]
    BY DEF Target, IInv, TypeOK
  <2>2. CASE CommitOther \/ CommitEdit
    BY <2>1, <2>2 DEF CommitOther, CommitEdit
  <2>3. CASE \E t \in Target, x \in Holds : Edit(t, x)
    BY <2>1, <2>3 DEF Edit, Hold
  <2> QED BY <2>2, <2>3
<1>2. Promised!Edit(t) /\ Answered'
  BY <1>1, EditSeen
<1> QED BY <1>2 DEF SeenStep, Promised!Next

LEMMA PromiseBegins == Init => Promised!Init /\ Answered
<1> SUFFICES ASSUME Init PROVE Promised!Init /\ Answered
  OBVIOUS
<1>1. /\ journal.pending = None /\ journal.completed = {} /\ journal.apps = [p \in Proposal |-> <<>>]
      /\ disturbed = [t \in Target |-> FALSE]
  BY DEF Init, EmptyJournal
<1>2. \A command : CompletionsOf(journal, command) = {}
  BY <1>1 DEF CompletionsOf
<1>3. Answered /\ Answers = [command \in Command |-> None]
  BY <1>1, <1>2 DEF Answered, AnsweredIn, Answers, AnswerTo
<1>4. catalog \in Catalog /\ InForce = [t \in Target |-> catalog.active[t]]
  BY <1>1, InitHolds DEF IInv, TypeOK, InForce, PendingOn
<1>5. Layers = [t \in Target |-> <<>>]
  <2>1. <<>> \in Seq(Application)
    OBVIOUS
  <2>2. LayersOf(<<>>) = <<>>
    BY <2>1, LayersAre
  <2>3. \A t \in Target : InForce[t] # None => journal.apps[InForce[t]] = <<>>
    BY <1>1, <1>4 DEF Catalog
  <2>4. \A t \in Target :
          LayersOf(IF InForce[t] = None THEN <<>> ELSE journal.apps[InForce[t]]) = <<>>
    BY <2>2, <2>3
  <2> QED BY <2>4 DEF Layers
<1>6. DOMAIN Values = Target /\ DOMAIN InForce = Target
  BY DEF Values, InForce
<1> QED BY <1>1, <1>3, <1>5, <1>6 DEF Promised!Init

\* A step of the system is one of these.
LEMMA StepsSeen == IInv /\ Answered /\ [Next]_vars => SeenStep
<1> SUFFICES ASSUME IInv, Answered, [Next]_vars PROVE SeenStep
  OBVIOUS
<1>1. ASSUME NEW p \in Proposal,
             \/ Propose(p) \/ BeginEvaluation(p) \/ Evaluate(p) \/ Reject(p) \/ Archive(p)
             \/ Unarchive(p) \/ Delete(p) \/ PreviewPromotion(p) \/ PreviewRollback(p)
      PROVE  SeenStep
  BY <1>1, CatalogOnlySeen, PreviewSeen
<1>2. ASSUME NEW v \in previews,
             ExpirePreview(v) \/ \E command \in Command : Execute(command, v)
      PROVE  SeenStep
  BY <1>2, PreviewSeen, BeginsSeen
<1>3. ASSUME NEW command \in Command, NEW p \in Proposal, Adopt(command, p) \/ Reapply(command, p)
      PROVE  SeenStep
  BY <1>3, AdoptSeen, BeginsSeen
<1>4. CASE Executing
  BY <1>4, WriteSeen, CommitCatalogSeen, SavesSeen DEF Executing
<1>5. CASE Opening \/ Stop
  BY <1>5, SettledSeen, OpeningSeen DEF Opening
<1>6. CASE CommitOther \/ CommitEdit \/ \E t \in Target, x \in Holds : Edit(t, x)
  BY <1>6, PeopleSeen
<1>7. CASE UNCHANGED vars
  BY <1>7, Unseen DEF vars, SeenStep
<1> QED BY <1>1, <1>2, <1>3, <1>4, <1>5, <1>6, <1>7 DEF Next

\* Every command is answered once and happens as a whole or not at all, a rollback puts back what
\* its promotion covered, and nothing but a command or a person moves a target, however many writes
\* fail, wherever the process dies and whatever an opening decides (application.ts).
THEOREM ApplicationKeepsPromise == Spec => KeepsPromise
<1>1. IInv /\ Answered /\ [Next]_vars => [Promised!Next]_(Promised!promise) /\ Answered'
  BY StepsSeen DEF SeenStep
<1> QED BY <1>1, PromiseBegins, ApplicationInductive, PTL DEF Spec, KeepsPromise, Promised!Spec
-----------------------------------------------------------------------------
(* The journal opens again.  The checks of an opening hold of it because   *)
(* more does: every proof has its completion wherever it is in a chain,    *)
(* and the catalog only goes on from what it was when that was written.    *)

\* How the status of a proposal may change.
Moves(s, t) ==
  /\ s # "absent" => t # "absent"
  /\ s = "passed" => t \in {"passed", "promoted", "rejected"}
  /\ s = "promoted" => t \in {"promoted", "rolled-back"}
  /\ s = "rolled-back" => t = "rolled-back"
  /\ s = "rejected" => t \in {"rejected", "deleted"}
  /\ s = "deleted" => t = "deleted"

\* The catalog d is a later one than c: no promotion is forgotten.
Goes(c, d) ==
  /\ c.revision <= d.revision
  /\ \A p \in Proposal :
       /\ Moves(c.status[p], d.status[p])
       /\ HasPromotion(c, p) => HasPromotion(d, p) /\ Replaced(d, p) = Replaced(c, p)

\* Their audits name the same commands.
SameNamed(c, d) ==
  \A p \in Proposal : \A a : a.command # None => (a \in AuditsOf(c, p) <=> a \in AuditsOf(d, p))

\* The chains of proofs, the one that a pending reconciliation extends included.
Reconciling(j) == j.pending # None /\ j.pending.op = "reconcile"
ChainsOf(j) ==
  {j.apps[p] : p \in Proposal} \union (IF Reconciling(j) THEN {j.pending.previous} ELSE {})
Rests(j, command) == \E s \in ChainsOf(j) : \E i \in DOMAIN s : s[i].command = command

\* The completion and the binding of a proof, which may be the last of its chain.
Confirms(j, done, app, last) ==
  /\ done.proposal = app.proposal /\ done.status = app.status /\ done.to = app.revision
  /\ done.before = app.before /\ done.after = app.after
  /\ IF app.command \in Command
     THEN /\ j.commands[app.command] # None
          /\ j.commands[app.command].op = done.op
          /\ j.commands[app.command].status = app.status
          /\ done.op = "promote" => app.safe /\ app.status = "applied"
          /\ done.op = "reconcile" => (app.safe <=> app.status # "adopted" \/ ~last)
     ELSE /\ done.op = "reconcile" /\ done.from = app.revision
          /\ app.status = "adopted" /\ last /\ ~app.safe /\ app.before = app.after
Vouched(j, c, app, last) ==
  /\ HasPromotion(c, app.proposal) /\ app.revision <= c.revision
  /\ app.after = Definition[app.proposal]
  /\ \E done \in CompletionsOf(j, app.command) : Confirms(j, done, app, last)
ProofsVouched(j, c) ==
  \A s \in ChainsOf(j) : \A i \in DOMAIN s : Vouched(j, c, s[i], i = Len(s))

\* A captured predecessor has its reconciliation.
Owns(j, c, k, app) ==
  /\ app.command = LegacyOf(k) /\ j.commands[k] # None /\ j.commands[k].op = "reconcile"
  /\ CompletionsOf(j, k) # {} /\ Replaced(c, j.commands[k].proposal) = app.proposal
CapturesOwned(j, c) ==
  /\ \A p \in Proposal : \A i \in DOMAIN j.apps[p] :
       j.apps[p][i].command \in LegacyId => \E k \in Command : Owns(j, c, k, j.apps[p][i])
  /\ Reconciling(j) =>
       IF j.pending.previous = <<>> THEN Replaced(c, j.pending.proposal) = None
       ELSE j.pending.previous[1].command = LegacyOf(j.pending.command)

\* A completion has the audit it should have, or is that of a predecessor some proof rests on.
HasAudit(c, done) ==
  \E audit \in AuditsOf(c, done.proposal) :
    /\ audit.kind = IF done.op = "promote" THEN "promotion" ELSE "rollback"
    /\ audit.command = done.command
CompletionFits(j, c, done) ==
  /\ c.status[done.proposal] # "absent" /\ done.from <= done.to /\ done.to <= c.revision
  /\ done.command \in LegacyId => done.op = "reconcile" /\ Rests(j, done.command)
  /\ done.op # "reconcile" => (done.status \in {"applied", "rolled-back"} <=> HasAudit(c, done))
CompletionsFit(j, c) == \A done \in j.completed : CompletionFits(j, c, done)

\* What a binding says of its proposal is the past of what the catalog says.
Lasting == {"passed", "promoted", "rolled-back"}
Recalls(snapshot, now) == IsHistoryOf(snapshot, now) \/ now = "deleted"
BindingFits(j, c, command) ==
  LET b == j.commands[command] IN
  /\ \E done \in CompletionsOf(j, command) : done.op = b.op /\ done.proposal = b.proposal
  /\ b.snapshot \in Lasting /\ Recalls(b.snapshot, c.status[b.proposal])
BindingsFit(j, c) == \A command \in Command : j.commands[command] # None => BindingFits(j, c, command)

\* The catalog has nothing of the pending operation, or all of it.
Undone(c, q) == CommandIsFree(c, q.command) /\ c.active[TargetOf(q.proposal)] = q.active
Reached(c, q) ==
  /\ q.op # "reconcile" /\ OutcomeReached(c, q)
  /\ \A p \in Proposal : \A a \in AuditsOf(c, p) : a.command = q.command => p = q.proposal
Settled(j, c) == j.pending # None => Undone(c, j.pending) \/ Reached(c, j.pending)

\* What a rollback takes back is a proof that may be taken back.
RollbackIsSafe(q) ==
  q.op = "rollback" => q.previous # <<>> /\ q.previous[1].safe /\ q.before = q.previous[1].after

Story(j, c) ==
  /\ ProofsVouched(j, c) /\ CapturesOwned(j, c) /\ CompletionsFit(j, c) /\ BindingsFit(j, c)
  /\ AuditsOwned(j, c) /\ Settled(j, c)
  /\ j.pending # None => RollbackIsSafe(j.pending)

StoryHolds == Story(journal, catalog)
CatalogGoes == Goes(memory, catalog)
\* Where the coordinator is says what the catalog has of the operation.
Followed ==
  /\ pc \in Acting => CommandIsFree(catalog, journal.pending.command)
  /\ pc \in {"record", "conclude"} =>
       IF journal.pending.op = "reconcile" THEN pc = "record"
       ELSE memory = catalog /\ Reached(catalog, journal.pending)
  /\ journal.pending # None /\ ~blind =>
       Reached(catalog, journal.pending) \/ catalog.revision = journal.pending.revision
PreviewsSafe == \A v \in previews : RollbackIsSafe(v)

RInv == StoryHolds /\ CatalogGoes /\ Followed /\ PreviewsSafe

LEMMA GoesOnItself == ASSUME NEW c \in Catalog PROVE Goes(c, c)
BY DEF Goes, Moves, Catalog

LEMMA AdvanceGoes ==
  ASSUME NEW c \in Catalog, NEW p \in Proposal, NEW s \in Status, Moves(c.status[p], s)
  PROVE  Goes(c, Advance(c, p, s)) /\ SameNamed(c, Advance(c, p, s))
<1> DEFINE d == Advance(c, p, s)
<1>1. /\ d \in Catalog /\ d.revision = c.revision + 1 /\ d.status = [c.status EXCEPT ![p] = s]
      /\ d.audits = c.audits
  BY AdvanceIs
<1> HIDE DEF d
<1>2. \A q \in Proposal : AuditsOf(d, q) = AuditsOf(c, q)
  BY <1>1 DEF AuditsOf
<1>3. \A q \in Proposal :
        (HasPromotion(d, q) <=> HasPromotion(c, q)) /\ Replaced(d, q) = Replaced(c, q)
  BY <1>2 DEF HasPromotion, Promotion, Replaced
<1>4. \A q \in Proposal : Moves(c.status[q], d.status[q])
  BY <1>1 DEF Moves, Catalog
<1>5. c.revision <= d.revision
  BY <1>1 DEF Catalog
<1> QED BY <1>2, <1>3, <1>4, <1>5 DEF Goes, SameNamed, d

LEMMA AuditedGoes ==
  ASSUME NEW c \in Catalog, CatalogWell(c), NEW p \in Proposal, NEW s \in Status,
         Moves(c.status[p], s), NEW kind \in {"rejection", "archive", "unarchive"}
  PROVE  LET d == Audited(Advance(c, p, s), p, kind, None, None) IN
         Goes(c, d) /\ SameNamed(c, d)
<1> DEFINE b == Advance(c, p, s)
           a == [kind |-> kind, command |-> None, restored |-> None]
           d == Audited(b, p, kind, None, None)
<1>1. /\ b \in Catalog /\ b.revision = c.revision + 1 /\ b.status = [c.status EXCEPT ![p] = s]
      /\ b.audits = c.audits
  BY AdvanceIs
<1> HIDE DEF b
<1>2. a \in Audit
  BY DEF Audit
<1>3. /\ d \in Catalog /\ d.revision = b.revision /\ d.status = b.status
      /\ d.audits = [c.audits EXCEPT ![p] = Append(@, a)]
  BY <1>1, <1>2, AuditedIs
<1>4. a.kind # "promotion" /\ a.command = None
  OBVIOUS
<1> HIDE DEF d, a
<1>5. /\ AuditsOf(d, p) = AuditsOf(c, p) \union {a}
      /\ \A q \in Proposal \ {p} : AuditsOf(d, q) = AuditsOf(c, q)
  BY <1>2, <1>3, OneMore
<1>6. ASSUME NEW q \in Proposal
      PROVE  (HasPromotion(d, q) <=> HasPromotion(c, q)) /\ Replaced(d, q) = Replaced(c, q)
  <2>1. \A x : x \in AuditsOf(d, q) /\ x.kind = "promotion"
                 <=> x \in AuditsOf(c, q) /\ x.kind = "promotion"
    BY <1>4, <1>5
  <2> QED BY <2>1, SamePromotions
<1>7. \A q \in Proposal : Moves(c.status[q], d.status[q])
  BY <1>1, <1>3 DEF Moves, Catalog
<1>8. c.revision <= d.revision
  BY <1>1, <1>3 DEF Catalog
<1>9. SameNamed(c, d)
  BY <1>4, <1>5 DEF SameNamed
<1> QED BY <1>6, <1>7, <1>8, <1>9 DEF Goes, d, b

\* What the operations that only change the catalog make of it.
LEMMA QuietlyGoes ==
  ASSUME IInv, NEW p \in Proposal,
         \/ Propose(p) \/ BeginEvaluation(p) \/ Evaluate(p) \/ Reject(p) \/ Archive(p)
         \/ Unarchive(p) \/ Delete(p)
  PROVE  \E c \in Catalog : Goes(memory, c) /\ SameNamed(memory, c) /\ Mutate(c)
<1> DEFINE m == memory
           Leads(c) == c \in Catalog /\ Goes(m, c) /\ SameNamed(m, c)
<1>1. m \in Catalog /\ CatalogWell(m) /\ m.status[p] \in Status
  BY DEF IInv, TypeOK, CatalogsWell, Catalog
<1>2. ASSUME NEW s \in Status, Moves(m.status[p], s)
      PROVE  /\ Leads(Advance(m, p, s))
             /\ \A kind \in {"rejection", "archive", "unarchive"} :
                  Leads(Audited(Advance(m, p, s), p, kind, None, None))
  <2>1. Leads(Advance(m, p, s))
    BY <1>1, <1>2, AdvanceGoes, AdvanceIs
  <2>2. ASSUME NEW kind \in {"rejection", "archive", "unarchive"}
        PROVE  Leads(Audited(Advance(m, p, s), p, kind, None, None))
    <3>1. [kind |-> kind, command |-> None, restored |-> None] \in Audit
      BY DEF Audit
    <3>2. Audited(Advance(m, p, s), p, kind, None, None) \in Catalog
      BY <3>1, <1>1, AdvanceIs, AuditedIs
    <3> QED BY <3>2, <1>1, <1>2, AuditedGoes
  <2> QED BY <2>1, <2>2
<1>3. Moves(m.status[p], m.status[p])
  BY DEF Moves
<1> SUFFICES \E c : Leads(c) /\ Mutate(c)
  OBVIOUS
<1> HIDE DEF Leads, m
<1>4. CASE Propose(p)
  <2>1. "proposed" \in Status /\ Moves(m.status[p], "proposed")
    BY <1>4 DEF Propose, Status, Moves, m
  <2> QED BY <2>1, <1>2, <1>4 DEF Propose, m
<1>5. CASE BeginEvaluation(p)
  <2>1. "evaluating" \in Status /\ Moves(m.status[p], "evaluating")
    BY <1>5 DEF BeginEvaluation, Status, Moves, m
  <2> QED BY <2>1, <1>2, <1>5 DEF BeginEvaluation, m
<1>6. CASE Evaluate(p)
  <2>1. PICK result \in {"passed", "failed"} : Mutate(Advance(m, p, result))
    BY <1>6 DEF Evaluate, m
  <2>2. result \in Status /\ Moves(m.status[p], result)
    BY <1>6 DEF Evaluate, Status, Moves, m
  <2> QED BY <2>1, <2>2, <1>2
<1>7. CASE Reject(p)
  <2>1. "rejected" \in Status /\ Moves(m.status[p], "rejected")
    BY <1>7 DEF Reject, Status, Moves, m
  <2> QED BY <2>1, <1>2, <1>7 DEF Reject, m
<1>8. CASE Archive(p)
  BY <1>1, <1>2, <1>3, <1>8 DEF Archive, m
<1>9. CASE Unarchive(p)
  BY <1>1, <1>2, <1>3, <1>9 DEF Unarchive, m
<1>10. CASE Delete(p)
  <2>1. "deleted" \in Status /\ Moves(m.status[p], "deleted")
    BY <1>10 DEF Delete, Status, Moves, m
  <2> QED BY <2>1, <1>2, <1>10 DEF Delete, m
<1> QED BY <1>4, <1>5, <1>6, <1>7, <1>8, <1>9, <1>10

RollbackBy(c, p, command) ==
  [kind |-> "rollback", command |-> command, restored |-> Replaced(c, p)]
\* d is c with p rolled back by the command.
RollsBack(c, d, p, command) ==
  /\ d \in Catalog /\ d.revision = c.revision + 1 /\ RollbackBy(c, p, command) \in Audit
  /\ d.status = [c.status EXCEPT ![p] = "rolled-back"]
  /\ d.active = [c.active EXCEPT ![TargetOf(p)] = Replaced(c, p)]
  /\ d.audits = [c.audits EXCEPT ![p] = Append(@, RollbackBy(c, p, command))]

LEMMA RollBackForm ==
  ASSUME NEW c \in Catalog, NEW p \in Proposal, NEW command \in Command
  PROVE  RollsBack(c, RollBack(c, p, command), p, command)
<1> DEFINE t == TargetOf(p)
           a == [kind |-> "rollback", command |-> command, restored |-> Replaced(c, p)]
           b == Audited(Advance(c, p, "rolled-back"), p, "rollback", command, Replaced(c, p))
           d == RollBack(c, p, command)
<1>1. t \in Target /\ Replaced(c, p) \in Proposal \union {None}
  BY Targets, ReplacedType
<1>2. a \in Audit
  BY <1>1 DEF Audit
<1>3. "rolled-back" \in Status
  BY DEF Status
<1>4. /\ b \in Catalog /\ b.revision = c.revision + 1 /\ b.active = c.active
      /\ b.status = [c.status EXCEPT ![p] = "rolled-back"]
      /\ b.audits = [c.audits EXCEPT ![p] = Append(@, a)]
  <2> DEFINE e == Advance(c, p, "rolled-back")
  <2>1. /\ e \in Catalog /\ e.revision = c.revision + 1 /\ e.active = c.active
        /\ e.status = [c.status EXCEPT ![p] = "rolled-back"] /\ e.audits = c.audits
    BY <1>3, AdvanceIs
  <2> HIDE DEF e
  <2>2. /\ b \in Catalog /\ b.revision = e.revision /\ b.status = e.status /\ b.active = e.active
        /\ b.audits = [e.audits EXCEPT ![p] = Append(@, a)]
    BY <1>2, <2>1, AuditedIs DEF e
  <2> QED BY <2>1, <2>2
<1>5. d = [b EXCEPT !.active[t] = Replaced(c, p)]
  BY DEF RollBack
<1> HIDE DEF b, d
<1>6. /\ d \in Catalog /\ d.revision = c.revision + 1
      /\ d.active = [c.active EXCEPT ![t] = Replaced(c, p)]
      /\ d.status = [c.status EXCEPT ![p] = "rolled-back"]
      /\ d.audits = [c.audits EXCEPT ![p] = Append(@, a)]
  BY <1>1, <1>4, <1>5 DEF Catalog
<1> QED BY <1>2, <1>6 DEF d, RollsBack, RollbackBy

\* The one audit more that the outcome of an operation has.
Adds(c, d, q) ==
  \E a \in Audit :
    /\ a.command = q.command
    /\ AuditsOf(d, q.proposal) = AuditsOf(c, q.proposal) \union {a}
    /\ \A p \in Proposal \ {q.proposal} : AuditsOf(d, p) = AuditsOf(c, p)

LEMMA OutcomeGoes ==
  ASSUME NEW c \in Catalog, CatalogWell(c), NEW q \in Pending, q.op # "reconcile", Before(c, q)
  PROVE  Goes(c, OutcomeFor(c, q)) /\ Adds(c, OutcomeFor(c, q), q)
<1> DEFINE p == q.proposal
           x == q.command
           d == OutcomeFor(c, q)
<1>1. /\ p \in Proposal /\ x \in Command /\ q.op \in Operation
      /\ c.revision \in Nat /\ c.status \in [Proposal -> Status]
  BY PendingType DEF Catalog
<1> HIDE DEF p, x, d
<1>2. CASE q.op = "promote"
  <2> DEFINE a == PromotionBy(c, p, x)
  <2>1. d = Promote(c, p, x) /\ c.status[p] = "passed"
    BY <1>2 DEF OutcomeFor, Before, d, p, x
  <2>2. Promotes(c, d, p, x)
    BY <2>1, <1>1, PromoteForm
  <2>3. a \in Audit /\ a.command = x
    <3>1. c.active[TargetOf(p)] \in Proposal \union {None}
      BY <1>1, Targets DEF Catalog
    <3> QED BY <3>1, <1>1 DEF PromotionBy, Audit
  <2> HIDE DEF a, d
  <2>4. /\ d.revision = c.revision + 1 /\ d \in Catalog
        /\ d.status = [c.status EXCEPT ![p] = "promoted"]
        /\ d.audits = [c.audits EXCEPT ![p] = Append(@, a)]
    BY <2>2 DEF Promotes, a
  <2>5. /\ AuditsOf(d, p) = AuditsOf(c, p) \union {a}
        /\ \A r \in Proposal \ {p} : AuditsOf(d, r) = AuditsOf(c, r)
    BY <1>1, <2>3, <2>4, OneMore
  <2>6. ASSUME NEW r \in Proposal, HasPromotion(c, r)
        PROVE  HasPromotion(d, r) /\ Replaced(d, r) = Replaced(c, r)
    <3>1. r # p
      BY <2>6, <2>1 DEF CatalogWell
    <3>2. AuditsOf(d, r) = AuditsOf(c, r)
      BY <3>1, <2>5
    <3> QED BY <3>2, <2>6 DEF HasPromotion, Replaced, Promotion
  <2>7. \A r \in Proposal : Moves(c.status[r], d.status[r])
    BY <1>1, <2>1, <2>4 DEF Moves
  <2>8. Goes(c, d)
    BY <1>1, <2>4, <2>6, <2>7 DEF Goes
  <2>9. Adds(c, d, q)
    BY <2>3, <2>5 DEF Adds, p, x
  <2> QED BY <2>8, <2>9 DEF d
<1>3. CASE q.op = "rollback"
  <2> DEFINE a == RollbackBy(c, p, x)
  <2>1. d = RollBack(c, p, x) /\ c.status[p] = "promoted"
    BY <1>3 DEF OutcomeFor, Before, d, p, x
  <2>2. RollsBack(c, d, p, x)
    BY <2>1, <1>1, RollBackForm
  <2>3. a.command = x /\ a.kind # "promotion"
    BY DEF RollbackBy
  <2> HIDE DEF a, d
  <2>4. /\ d.revision = c.revision + 1 /\ d \in Catalog /\ a \in Audit
        /\ d.status = [c.status EXCEPT ![p] = "rolled-back"]
        /\ d.audits = [c.audits EXCEPT ![p] = Append(@, a)]
    BY <2>2 DEF RollsBack, a
  <2>5. /\ AuditsOf(d, p) = AuditsOf(c, p) \union {a}
        /\ \A r \in Proposal \ {p} : AuditsOf(d, r) = AuditsOf(c, r)
    BY <1>1, <2>4, OneMore, SMTT(40)
  <2>6. ASSUME NEW r \in Proposal, HasPromotion(c, r)
        PROVE  HasPromotion(d, r) /\ Replaced(d, r) = Replaced(c, r)
    <3>1. \A b : b \in AuditsOf(d, r) /\ b.kind = "promotion"
                   <=> b \in AuditsOf(c, r) /\ b.kind = "promotion"
      BY <2>3, <2>5
    <3> QED BY <3>1, <2>6, SamePromotions
  <2>7. \A r \in Proposal : Moves(c.status[r], d.status[r])
    BY <1>1, <2>1, <2>4 DEF Moves
  <2>8. Goes(c, d)
    BY <1>1, <2>4, <2>6, <2>7 DEF Goes
  <2>9. Adds(c, d, q)
    BY <2>3, <2>4, <2>5 DEF Adds, p, x
  <2> QED BY <2>8, <2>9 DEF d
<1> QED BY <1>1, <1>2, <1>3 DEF Operation

LEMMA LegacyIds ==
  /\ \A id \in LegacyId : id \notin Command
  /\ \A k \in Command : LegacyOf(k) \in LegacyId
  /\ \A k \in Command, x \in Command \union LegacyId : LegacyOf(k) = LegacyOf(x) => k = x
<1>1. \A k \in Command : k \in Int /\ k > 0
  BY CommandAssumption
<1>2. \A id \in LegacyId : id \in Int /\ id < 0
  BY <1>1 DEF LegacyId, LegacyOf
<1>3. \A id \in LegacyId : id \notin Command
  BY <1>1, <1>2
<1>4. \A k \in Command : LegacyOf(k) \in LegacyId
  BY DEF LegacyId
<1>5. ASSUME NEW k \in Command, NEW x \in Command \union LegacyId, LegacyOf(k) = LegacyOf(x)
      PROVE  k = x
  <2>1. k \in Int /\ x \in Int /\ -k = -x
    BY <1>1, <1>2, <1>5 DEF LegacyOf
  <2> QED BY <2>1
<1> QED BY <1>3, <1>4, <1>5

LEMMA ChainsAre ==
  ASSUME NEW j \in Journal
  PROVE  /\ \A p \in Proposal : j.apps[p] \in ChainsOf(j)
         /\ Reconciling(j) => j.pending.previous \in ChainsOf(j)
         /\ \A s \in ChainsOf(j) :
              /\ s \in Seq(Application)
              /\ \A i \in DOMAIN s : s[i] \in Application /\ i \in 1..Len(s)
              /\ (\E p \in Proposal : s = j.apps[p]) \/ (Reconciling(j) /\ s = j.pending.previous)
<1>1. j.apps \in [Proposal -> Seq(Application)]
  BY JournalType
<1>2. Reconciling(j) => j.pending.previous \in Seq(Application)
  BY JournalType, PendingType DEF Reconciling
<1>3. \A s \in ChainsOf(j) :
        (\E p \in Proposal : s = j.apps[p]) \/ (Reconciling(j) /\ s = j.pending.previous)
  BY DEF ChainsOf
<1>4. ASSUME NEW s \in ChainsOf(j)
      PROVE  s \in Seq(Application) /\ \A i \in DOMAIN s : s[i] \in Application /\ i \in 1..Len(s)
  <2>1. s \in Seq(Application)
    BY <1>1, <1>2, <1>3
  <2> QED BY <2>1
<1> QED BY <1>3, <1>4 DEF ChainsOf

\* A binding stays true of its proposal.
LEMMA RecallsOn ==
  ASSUME NEW s \in Lasting, NEW t, NEW u, Moves(t, u), s = t \/ Recalls(s, t)
  PROVE  Recalls(s, u)
BY DEF Lasting, Moves, Recalls, IsHistoryOf

\* The answers of j are those of k, which may have more.
KeepsAnswers(j, k) ==
  \A command \in Command :
    /\ CompletionsOf(j, command) \subseteq CompletionsOf(k, command)
    /\ j.commands[command] # None => k.commands[command] = j.commands[command]

LEMMA VouchedOn ==
  ASSUME NEW j, NEW k, NEW c, NEW app \in Application, NEW last \in BOOLEAN, KeepsAnswers(j, k),
         app.command \notin Command =>
           CompletionsOf(j, app.command) \subseteq CompletionsOf(k, app.command),
         Vouched(j, c, app, last)
  PROVE  Vouched(k, c, app, last)
<1>1. CompletionsOf(j, app.command) \subseteq CompletionsOf(k, app.command)
  BY DEF KeepsAnswers
<1>2. app.command \in Command /\ j.commands[app.command] # None =>
        k.commands[app.command] = j.commands[app.command]
  BY DEF KeepsAnswers
<1>3. ASSUME NEW done, Confirms(j, done, app, last) PROVE Confirms(k, done, app, last)
  BY <1>2, <1>3 DEF Confirms
<1> QED BY <1>1, <1>3 DEF Vouched

\* A journal with the same proofs, answers and pending operation tells the same story.
LEMMA StorySame ==
  ASSUME NEW j, NEW k, NEW c, Story(j, c), k.pending = j.pending, k.apps = j.apps,
         k.completed = j.completed, k.commands = j.commands
  PROVE  Story(k, c)
<1>1. ChainsOf(k) = ChainsOf(j) /\ (Reconciling(k) <=> Reconciling(j))
  BY DEF ChainsOf, Reconciling
<1>2. \A x : CompletionsOf(k, x) = CompletionsOf(j, x)
  BY DEF CompletionsOf
<1>3. ProofsVouched(k, c)
  BY <1>1, <1>2 DEF Story, ProofsVouched, Vouched, Confirms
<1>4. CapturesOwned(k, c)
  BY <1>1, <1>2 DEF Story, CapturesOwned, Owns
<1>5. CompletionsFit(k, c)
  BY <1>1 DEF Story, CompletionsFit, CompletionFits, Rests
<1>6. BindingsFit(k, c)
  BY <1>2 DEF Story, BindingsFit, BindingFits
<1>7. AuditsOwned(k, c)
  BY <1>2 DEF Story, AuditsOwned
<1>8. Settled(k, c) /\ (k.pending # None => RollbackIsSafe(k.pending))
  BY DEF Story, Settled
<1> QED BY <1>3, <1>4, <1>5, <1>6, <1>7, <1>8 DEF Story

\* The story goes on with the catalog.
LEMMA StoryGoes ==
  ASSUME NEW j \in Journal, NEW c \in Catalog, NEW d \in Catalog, Story(j, c), Goes(c, d),
         ~Reconciling(j), AuditsOwned(j, d), Settled(j, d),
         \A done \in j.completed : done.op # "reconcile" =>
           \A p \in Proposal : \A a : a.command = done.command =>
             (a \in AuditsOf(c, p) <=> a \in AuditsOf(d, p))
  PROVE  Story(j, d)
<1>1. /\ c.revision \in Nat /\ d.revision \in Nat /\ c.revision <= d.revision
      /\ \A p \in Proposal : HasPromotion(c, p) =>
           HasPromotion(d, p) /\ Replaced(d, p) = Replaced(c, p)
      /\ \A p \in Proposal : Moves(c.status[p], d.status[p])
  BY DEF Goes, Catalog
<1>2. /\ j.completed \subseteq Completion /\ j.commands \in [Command -> Binding \union {None}]
      /\ j.apps \in [Proposal -> Seq(Application)]
  BY JournalType
<1>3. ProofsVouched(j, d)
  <2>1. ASSUME NEW s \in ChainsOf(j), NEW i \in DOMAIN s PROVE Vouched(j, d, s[i], i = Len(s))
    <3>1. s[i] \in Application
      BY ChainsAre
    <3>2. s[i].proposal \in Proposal /\ s[i].revision \in Nat
      BY <3>1 DEF Application
    <3>3. Vouched(j, c, s[i], i = Len(s))
      BY DEF Story, ProofsVouched
    <3>4. HasPromotion(d, s[i].proposal) /\ s[i].revision <= d.revision
      BY <1>1, <3>2, <3>3 DEF Vouched
    <3> QED BY <3>3, <3>4 DEF Vouched
  <2> QED BY <2>1 DEF ProofsVouched
<1>4. CapturesOwned(j, d)
  <2>1. ASSUME NEW k \in Command, NEW app \in Application, Owns(j, c, k, app) PROVE Owns(j, d, k, app)
    <3>1. j.commands[k].proposal \in Proposal /\ app.proposal # None
      BY <1>2, <2>1, OutsideAssumption DEF Owns, Binding, Application
    <3>2. HasPromotion(c, j.commands[k].proposal)
      BY <2>1, <3>1 DEF Owns, Replaced
    <3> QED BY <3>1, <3>2, <1>1, <2>1 DEF Owns
  <2>2. \A p \in Proposal : \A i \in DOMAIN j.apps[p] : j.apps[p][i] \in Application
    BY ChainsAre
  <2> QED BY <2>1, <2>2 DEF Story, CapturesOwned
<1>5. CompletionsFit(j, d)
  <2>1. ASSUME NEW done \in j.completed PROVE CompletionFits(j, d, done)
    <3>1. done \in Completion /\ CompletionFits(j, c, done)
      BY <1>2 DEF Story, CompletionsFit
    <3>2. done.proposal \in Proposal /\ done.to \in Nat
      BY <3>1 DEF Completion
    <3>3. d.status[done.proposal] # "absent"
      BY <1>1, <3>1, <3>2 DEF CompletionFits, Moves
    <3>4. done.to <= d.revision
      BY <1>1, <3>1, <3>2 DEF CompletionFits
    <3>5. done.op # "reconcile" => (HasAudit(d, done) <=> HasAudit(c, done))
      BY <3>2 DEF HasAudit
    <3> QED BY <3>1, <3>3, <3>4, <3>5 DEF CompletionFits
  <2> QED BY <2>1 DEF CompletionsFit
<1>6. BindingsFit(j, d)
  <2>1. ASSUME NEW command \in Command, j.commands[command] # None
        PROVE  BindingFits(j, d, command)
    <3>1. BindingFits(j, c, command) /\ j.commands[command].proposal \in Proposal
      BY <1>2, <2>1 DEF Story, BindingsFit, Binding
    <3>2. Recalls(j.commands[command].snapshot, d.status[j.commands[command].proposal])
      BY <3>1, <1>1, RecallsOn DEF BindingFits
    <3> QED BY <3>1, <3>2 DEF BindingFits
  <2> QED BY <2>1 DEF BindingsFit
<1> QED BY <1>3, <1>4, <1>5, <1>6 DEF Story

\* k is j after the command x was answered with the completion new and the binding b.
Answering(j, k, x, new, b) ==
  /\ j.commands[x] = None /\ (j.pending # None => j.pending.command = x) /\ k.pending = None
  /\ k.commands = [j.commands EXCEPT ![x] = b] /\ b # None
  /\ new.command = x /\ new.op = b.op /\ new.proposal = b.proposal
  /\ k.completed \subseteq j.completed \union {new}
  /\ \A done : done.command \in Command =>
       (done \in k.completed <=> done \in j.completed \/ done = new)
\* The answer is in accord with the catalog.
Fitting(c, x, new, b) ==
  /\ c.status[new.proposal] # "absent" /\ new.from <= new.to /\ new.to <= c.revision
  /\ new.op # "reconcile" => (new.status \in {"applied", "rolled-back"} <=> HasAudit(c, new))
  /\ \A p \in Proposal : \A a \in AuditsOf(c, p) :
       a.command = x => p = new.proposal /\ new.status \in {"applied", "rolled-back"}
  /\ b.snapshot \in Lasting /\ Moves(b.snapshot, c.status[b.proposal])
\* The proofs of k were proofs of j, at the end of a chain or above another as they are now, and
\* have kept their completions, or they are accounted for.
FromChain(j, k, app, last) ==
  \E s \in ChainsOf(j) : \E i \in DOMAIN s :
    /\ app = s[i] /\ (last <=> i = Len(s))
    /\ app.command \notin Command => CompletionsOf(j, app.command) \subseteq CompletionsOf(k, app.command)
ChainsFollow(j, k, c) ==
  \A p \in Proposal : \A i \in DOMAIN k.apps[p] :
    LET app == k.apps[p][i] IN
    /\ Vouched(k, c, app, i = Len(k.apps[p])) \/ FromChain(j, k, app, i = Len(k.apps[p]))
    /\ app.command \in LegacyId =>
         \/ \E r \in Proposal : \E h \in DOMAIN j.apps[r] : app = j.apps[r][h]
         \/ \E owner \in Command : Owns(k, c, owner, app)

LEMMA AnsweringKeeps ==
  ASSUME NEW j \in Journal, AnsweredIn(j), NEW k, NEW x \in Command, NEW new, NEW b,
         Answering(j, k, x, new, b)
  PROVE  /\ KeepsAnswers(j, k) /\ CompletionsOf(k, x) = {new} /\ k.commands[x] = b
         /\ \A y \in Command \ {x} :
              CompletionsOf(k, y) = CompletionsOf(j, y) /\ k.commands[y] = j.commands[y]
<1>1. CompletionsOf(j, x) = {}
  BY DEF Answering, AnsweredIn
<1>2. j.commands \in [Command -> Binding \union {None}]
  BY JournalType
<1>3. k.commands[x] = b /\ \A y \in Command \ {x} : k.commands[y] = j.commands[y]
  BY <1>2 DEF Answering
<1>4. \A y \in Command : CompletionsOf(k, y) = CompletionsOf(j, y) \union (IF y = x THEN {new} ELSE {})
  BY DEF Answering, CompletionsOf
<1>5. KeepsAnswers(j, k)
  BY <1>3, <1>4 DEF KeepsAnswers, Answering
<1> QED BY <1>1, <1>3, <1>4, <1>5

\* The story goes on with the answer to a command.
LEMMA StoryAnswers ==
  ASSUME NEW j \in Journal, NEW k \in Journal, NEW c \in Catalog, Story(j, c), AnsweredIn(j),
         NEW x \in Command, NEW new, NEW b, Answering(j, k, x, new, b), Fitting(c, x, new, b),
         ChainsFollow(j, k, c),
         \A done \in k.completed : done.command \in LegacyId /\ Rests(j, done.command)
           => Rests(k, done.command)
  PROVE  Story(k, c)
<1>1. /\ KeepsAnswers(j, k) /\ CompletionsOf(k, x) = {new} /\ k.commands[x] = b
      /\ \A y \in Command \ {x} :
           CompletionsOf(k, y) = CompletionsOf(j, y) /\ k.commands[y] = j.commands[y]
  BY AnsweringKeeps
<1>2. /\ k.pending = None /\ ~Reconciling(k) /\ j.commands[x] = None
      /\ (j.pending # None => j.pending.command = x)
  BY DEF Answering, Reconciling
<1>3. ProofsVouched(k, c)
  <2>1. ASSUME NEW p \in Proposal, NEW i \in DOMAIN k.apps[p]
        PROVE  Vouched(k, c, k.apps[p][i], i = Len(k.apps[p]))
    <3> DEFINE app == k.apps[p][i]
               last == (i = Len(k.apps[p]))
    <3>1. CASE FromChain(j, k, app, last)
      <4>0. PICK s \in ChainsOf(j) : \E h \in DOMAIN s :
               /\ app = s[h] /\ (last <=> h = Len(s))
               /\ app.command \notin Command =>
                    CompletionsOf(j, app.command) \subseteq CompletionsOf(k, app.command)
        BY <3>1 DEF FromChain
      <4>1. PICK h \in DOMAIN s :
               /\ app = s[h] /\ (last <=> h = Len(s))
               /\ app.command \notin Command =>
                    CompletionsOf(j, app.command) \subseteq CompletionsOf(k, app.command)
        BY <4>0
      <4>2. app \in Application
        BY <4>1, ChainsAre
      <4>3. Vouched(j, c, s[h], h = Len(s))
        BY DEF Story, ProofsVouched
      <4>4. Vouched(j, c, app, last)
        <5> HIDE DEF app, last
        <5>1. CASE last
          BY <4>1, <4>3, <5>1 DEF Vouched, Confirms
        <5>2. CASE ~last
          BY <4>1, <4>3, <5>2 DEF Vouched, Confirms
        <5> QED BY <5>1, <5>2
      <4>5. last \in BOOLEAN
        OBVIOUS
      <4> HIDE DEF app, last
      <4>6. Vouched(k, c, app, last)
        BY <4>1, <4>2, <4>4, <4>5, <1>1, VouchedOn
      <4> QED BY <4>6 DEF app, last
    <3>2. Vouched(k, c, app, last) \/ FromChain(j, k, app, last)
      BY DEF ChainsFollow
    <3> QED BY <3>1, <3>2
  <2>2. \A s \in ChainsOf(k) : \E p \in Proposal : s = k.apps[p]
    BY <1>2, ChainsAre
  <2> QED BY <2>1, <2>2 DEF ProofsVouched
<1>4. CapturesOwned(k, c)
  <2>1. ASSUME NEW owner \in Command, NEW app, Owns(j, c, owner, app) PROVE Owns(k, c, owner, app)
    <3>1. owner # x
      BY <2>1, <1>2 DEF Owns
    <3> QED BY <3>1, <2>1, <1>1 DEF Owns
  <2>2. ASSUME NEW p \in Proposal, NEW i \in DOMAIN k.apps[p], k.apps[p][i].command \in LegacyId
        PROVE  \E owner \in Command : Owns(k, c, owner, k.apps[p][i])
    <3> DEFINE app == k.apps[p][i]
    <3>1. CASE \E r \in Proposal : \E h \in DOMAIN j.apps[r] : app = j.apps[r][h]
      BY <3>1, <2>1, <2>2 DEF Story, CapturesOwned
    <3> QED BY <3>1, <2>2 DEF ChainsFollow
  <2> QED BY <2>2, <1>2 DEF CapturesOwned
<1>5. CompletionsFit(k, c)
  <2>1. ASSUME NEW done \in k.completed PROVE CompletionFits(k, c, done)
    <3>1. CASE done = new
      <4>1. new.command \notin LegacyId
        BY LegacyIds DEF Answering
      <4> QED BY <3>1, <4>1 DEF Fitting, CompletionFits
    <3>2. CASE done \in j.completed
      <4>1. CompletionFits(j, c, done)
        BY <3>2 DEF Story, CompletionsFit
      <4> QED BY <4>1, <2>1 DEF CompletionFits
    <3> QED BY <3>1, <3>2 DEF Answering
  <2> QED BY <2>1 DEF CompletionsFit
<1>6. BindingsFit(k, c)
  <2>1. ASSUME NEW y \in Command, k.commands[y] # None PROVE BindingFits(k, c, y)
    <3>1. CASE y = x
      <4>1. Recalls(b.snapshot, c.status[b.proposal])
        BY RecallsOn DEF Fitting
      <4> QED BY <3>1, <4>1, <1>1 DEF BindingFits, Fitting, Answering
    <3>2. CASE y # x
      BY <3>2, <2>1, <1>1 DEF Story, BindingsFit, BindingFits
    <3> QED BY <3>1, <3>2
  <2> QED BY <2>1 DEF BindingsFit
<1>7. AuditsOwned(k, c)
  <2>1. ASSUME NEW p \in Proposal, NEW a \in AuditsOf(c, p), a.command # None
        PROVE  /\ CompletionsOf(k, a.command) # {}
               /\ \A d \in CompletionsOf(k, a.command) :
                    d.proposal = p /\ d.status \in {"applied", "rolled-back"}
    <3>1. a.command \in Command
      BY <2>1, ReplacedType DEF Audit
    <3>2. CASE a.command = x
      BY <3>2, <2>1, <1>1 DEF Fitting
    <3>3. CASE a.command # x
      BY <3>1, <3>3, <2>1, <1>1, <1>2 DEF Story, AuditsOwned
    <3> QED BY <3>2, <3>3
  <2> QED BY <2>1 DEF AuditsOwned
<1>8. Settled(k, c) /\ (k.pending # None => RollbackIsSafe(k.pending))
  BY <1>2 DEF Settled
<1> QED BY <1>3, <1>4, <1>5, <1>6, <1>7, <1>8 DEF Story

\* A command without an answer is not in the catalog.
LEMMA UnansweredIsFree ==
  ASSUME NEW j, NEW c, AnsweredIn(j), j.pending = None, AuditsOwned(j, c), NEW x \in Command,
         j.commands[x] = None
  PROVE  CommandIsFree(c, x)
<1>1. ASSUME NEW p \in Proposal, NEW a \in AuditsOf(c, p), a.command = x PROVE FALSE
  <2>1. a.command # None
    BY <1>1, OutsideAssumption
  <2>2. CompletionsOf(j, x) # {}
    BY <2>1, <1>1 DEF AuditsOwned
  <2> QED BY <2>2 DEF AnsweredIn
<1> QED BY <1>1 DEF CommandIsFree

\* The outcome of the pending operation.
LEMMA OutcomeStory ==
  ASSUME NEW j \in Journal, NEW c \in Catalog, CatalogWell(c), JournalWell(j, c), Story(j, c),
         AnsweredIn(j), j.pending # None, j.pending.op # "reconcile", Before(c, j.pending),
         CommandIsFree(c, j.pending.command)
  PROVE  LET d == OutcomeFor(c, j.pending) IN
         Story(j, d) /\ Reached(d, j.pending) /\ Goes(c, d)
<1> DEFINE q == j.pending
           d == OutcomeFor(c, q)
<1>1. q \in Pending /\ q.command \in Command /\ q.proposal \in Proposal
  BY JournalType, PendingType
<1>2. d \in Catalog /\ OutcomeReached(d, q)
  BY OutcomeIs
<1>3. Goes(c, d) /\ Adds(c, d, q)
  BY <1>1, OutcomeGoes
<1> HIDE DEF d
<1>4. PICK a \in Audit :
         /\ a.command = q.command
         /\ AuditsOf(d, q.proposal) = AuditsOf(c, q.proposal) \union {a}
         /\ \A p \in Proposal \ {q.proposal} : AuditsOf(d, p) = AuditsOf(c, p)
  BY <1>3 DEF Adds
<1>5. \A p \in Proposal : \A b : b.command # q.command =>
        (b \in AuditsOf(c, p) <=> b \in AuditsOf(d, p))
  BY <1>4
<1>6. \A p \in Proposal : \A b \in AuditsOf(d, p) : b.command = q.command => p = q.proposal
  BY <1>4 DEF CommandIsFree
<1>7. Reached(d, q)
  BY <1>2, <1>6 DEF Reached
<1>8. CompletionsOf(j, q.command) = {}
  BY <1>1 DEF AnsweredIn
<1>9. AuditsOwned(j, d)
  <2>1. ASSUME NEW p \in Proposal, NEW b \in AuditsOf(d, p), b.command # None
        PROVE  /\ \/ CompletionsOf(j, b.command) # {}
                  \/ q # None /\ q.command = b.command /\ OutcomeReached(d, q)
               /\ \A done \in CompletionsOf(j, b.command) :
                    done.proposal = p /\ done.status \in {"applied", "rolled-back"}
    <3>1. CASE b.command = q.command
      BY <3>1, <1>2, <1>8
    <3>2. CASE b.command # q.command
      <4>1. b \in AuditsOf(c, p)
        BY <3>2, <1>5
      <4> QED BY <4>1, <3>2, <2>1 DEF Story, AuditsOwned
    <3> QED BY <3>1, <3>2
  <2> QED BY <2>1 DEF AuditsOwned
<1>10. ~Reconciling(j) /\ Settled(j, d)
  BY <1>7 DEF Reconciling, Settled
<1>11. \A done \in j.completed : done.command # q.command
  BY <1>8 DEF CompletionsOf
<1>12. Story(j, d)
  BY <1>2, <1>3, <1>5, <1>9, <1>10, <1>11, StoryGoes
<1> QED BY <1>3, <1>7, <1>12 DEF d

\* An operation of the catalog alone.
LEMMA QuietStory ==
  ASSUME NEW j \in Journal, NEW c \in Catalog, NEW d \in Catalog, Story(j, c), j.pending = None,
         Goes(c, d), SameNamed(c, d)
  PROVE  Story(j, d)
<1>1. AuditsOwned(j, d)
  BY DEF Story, AuditsOwned, SameNamed
<1>2. ASSUME NEW done \in j.completed, done.op # "reconcile" PROVE done.command # None
  <2>1. done \in Completion /\ CompletionFits(j, c, done)
    BY JournalType DEF Story, CompletionsFit
  <2>2. done.command \in Command
    BY <2>1, <1>2 DEF Completion, CompletionFits
  <2> QED BY <2>2, OutsideAssumption
<1>3. ~Reconciling(j) /\ Settled(j, d)
  BY DEF Reconciling, Settled
<1> QED BY <1>1, <1>2, <1>3, StoryGoes DEF SameNamed

\* A promotion or a rollback begins.
LEMMA BegunStory ==
  ASSUME NEW j \in Journal, NEW k \in Journal, NEW c \in Catalog, Story(j, c), AnsweredIn(j),
         j.pending = None, k.pending # None, k.pending.op # "reconcile", k.apps = j.apps,
         k.completed = j.completed, k.commands = j.commands,
         j.commands[k.pending.command] = None,
         c.active[TargetOf(k.pending.proposal)] = k.pending.active, RollbackIsSafe(k.pending)
  PROVE  Story(k, c) /\ CommandIsFree(c, k.pending.command)
<1>1. ChainsOf(k) = ChainsOf(j) /\ ~Reconciling(k) /\ ~Reconciling(j)
  BY DEF ChainsOf, Reconciling
<1>2. \A x : CompletionsOf(k, x) = CompletionsOf(j, x)
  BY DEF CompletionsOf
<1>3. k.pending.command \in Command
  BY JournalType, PendingType
<1>4. CommandIsFree(c, k.pending.command)
  BY <1>3, UnansweredIsFree DEF Story
<1>5. ProofsVouched(k, c)
  BY <1>1, <1>2 DEF Story, ProofsVouched, Vouched, Confirms
<1>6. CapturesOwned(k, c)
  BY <1>1, <1>2 DEF Story, CapturesOwned, Owns
<1>7. CompletionsFit(k, c)
  BY <1>1 DEF Story, CompletionsFit, CompletionFits, Rests
<1>8. BindingsFit(k, c)
  BY <1>2 DEF Story, BindingsFit, BindingFits
<1>9. AuditsOwned(k, c)
  BY <1>2 DEF Story, AuditsOwned
<1>10. Settled(k, c)
  BY <1>4 DEF Settled, Undone
<1> QED BY <1>4, <1>5, <1>6, <1>7, <1>8, <1>9, <1>10 DEF Story

\* The predecessor that the reconciliation q captures, and the completion it is given.
IsCapture(c, q, app) ==
  /\ app.command = LegacyOf(q.command) /\ app.status = "adopted" /\ ~app.safe
  /\ app.before = app.after /\ app.after = Definition[app.proposal]
  /\ app.revision <= c.revision /\ HasPromotion(c, app.proposal)
CaptureOf(app) ==
  [command |-> app.command, op |-> "reconcile", proposal |-> app.proposal, status |-> "adopted",
   before |-> app.before, after |-> app.after, from |-> app.revision, to |-> app.revision]

\* A reconciliation begins.
LEMMA ReapplyStory ==
  ASSUME NEW j \in Journal, NEW k \in Journal, NEW c \in Catalog, CatalogWell(c), Story(j, c),
         AnsweredIn(j), j.pending = None, k.pending # None, k.pending.op = "reconcile",
         k.apps = j.apps, k.commands = j.commands, j.commands[k.pending.command] = None,
         c.active[TargetOf(k.pending.proposal)] = k.pending.active,
         \/ /\ k.pending.previous = <<>> /\ k.completed = j.completed
            /\ Replaced(c, k.pending.proposal) = None
         \/ \E app \in Application :
              /\ k.pending.previous = <<app>> /\ IsCapture(c, k.pending, app)
              /\ k.completed = j.completed \union {CaptureOf(app)}
  PROVE  Story(k, c) /\ CommandIsFree(c, k.pending.command)
<1> DEFINE q == k.pending
           chain == q.previous
<1>1. /\ Reconciling(k) /\ ~Reconciling(j) /\ q.command \in Command
      /\ c.revision \in Nat /\ c.status \in [Proposal -> Status]
  BY JournalType, PendingType DEF Reconciling, Catalog
<1>2. CommandIsFree(c, q.command)
  BY <1>1, UnansweredIsFree DEF Story
<1>3. /\ ChainsOf(j) = {j.apps[p] : p \in Proposal}
      /\ ChainsOf(k) = ChainsOf(j) \union {chain}
  BY <1>1 DEF ChainsOf
<1>4. /\ j.completed \subseteq k.completed
      /\ \A done \in k.completed : done.command \in Command => done \in j.completed
  <2>1. \A app \in Application : IsCapture(c, q, app) => CaptureOf(app).command \notin Command
    BY <1>1, LegacyIds DEF IsCapture, CaptureOf
  <2> QED BY <2>1
<1>5. /\ \A x : CompletionsOf(j, x) \subseteq CompletionsOf(k, x)
      /\ \A x \in Command : CompletionsOf(k, x) = CompletionsOf(j, x)
  BY <1>4 DEF CompletionsOf
<1>6. KeepsAnswers(j, k)
  BY <1>5 DEF KeepsAnswers
\* What is captured.
<1>7. ASSUME chain # <<>>
      PROVE  \E app \in Application :
               /\ chain = <<app>> /\ chain[1] = app /\ DOMAIN chain = {1} /\ Len(chain) = 1
               /\ IsCapture(c, q, app) /\ k.completed = j.completed \union {CaptureOf(app)}
               /\ Vouched(k, c, app, TRUE) /\ CompletionFits(k, c, CaptureOf(app))
  <2>1. PICK app \in Application :
          /\ chain = <<app>> /\ IsCapture(c, q, app)
          /\ k.completed = j.completed \union {CaptureOf(app)}
    BY <1>7
  <2> DEFINE done == CaptureOf(app)
  <2>2. chain[1] = app /\ DOMAIN chain = {1} /\ Len(chain) = 1
    BY <2>1
  <2>3. app.command \in LegacyId /\ app.command \notin Command
    BY <1>1, <2>1, LegacyIds DEF IsCapture
  <2>4. /\ done \in CompletionsOf(k, app.command) /\ done.command = app.command
        /\ done.op = "reconcile" /\ done.proposal = app.proposal
        /\ done.from = app.revision /\ done.to = app.revision
    BY <2>1 DEF CompletionsOf, CaptureOf
  <2>5. Confirms(k, done, app, TRUE)
    BY <2>1, <2>3, <2>4 DEF Confirms, IsCapture, CaptureOf
  <2>6. Vouched(k, c, app, TRUE)
    BY <2>1, <2>4, <2>5 DEF Vouched, IsCapture
  <2>7. Rests(k, app.command)
    BY <1>3, <2>2 DEF Rests
  <2>8. app.proposal \in Proposal /\ app.revision \in Nat
    BY DEF Application
  <2>9. c.status[app.proposal] # "absent" /\ app.revision <= c.revision
    BY <2>1, <2>8 DEF IsCapture, CatalogWell
  <2> HIDE DEF done
  <2>10. CompletionFits(k, c, done)
    BY <2>4, <2>7, <2>8, <2>9 DEF CompletionFits
  <2> QED BY <2>1, <2>2, <2>6, <2>10 DEF done
<1>8. ProofsVouched(k, c)
  <2>1. ASSUME NEW s \in ChainsOf(j), NEW i \in DOMAIN s PROVE Vouched(k, c, s[i], i = Len(s))
    <3>1. Vouched(j, c, s[i], i = Len(s)) /\ s[i] \in Application
      BY ChainsAre DEF Story, ProofsVouched
    <3> QED BY <3>1, <1>5, <1>6, VouchedOn
  <2>2. ASSUME NEW i \in DOMAIN chain PROVE Vouched(k, c, chain[i], i = Len(chain))
    <3>1. chain # <<>>
      BY <2>2
    <3>2. /\ DOMAIN chain = {1} /\ Len(chain) = 1 /\ Vouched(k, c, chain[1], TRUE)
      BY <1>7, <3>1
    <3>3. i = 1 /\ (i = Len(chain)) = TRUE
      BY <3>2
    <3> QED BY <3>2, <3>3
  <2> QED BY <1>3, <2>1, <2>2 DEF ProofsVouched
<1>9. CapturesOwned(k, c)
  <2>1. ASSUME NEW p \in Proposal, NEW i \in DOMAIN k.apps[p], k.apps[p][i].command \in LegacyId
        PROVE  \E owner \in Command : Owns(k, c, owner, k.apps[p][i])
    <3>1. PICK owner \in Command : Owns(j, c, owner, k.apps[p][i])
      BY <2>1 DEF Story, CapturesOwned
    <3>2. Owns(k, c, owner, k.apps[p][i])
      BY <3>1, <1>5 DEF Owns
    <3> QED BY <3>2
  <2>2. IF chain = <<>> THEN Replaced(c, q.proposal) = None
        ELSE chain[1].command = LegacyOf(q.command)
    <3>1. CASE chain = <<>>
      BY <3>1
    <3>2. CASE chain # <<>>
      BY <3>2, <1>7 DEF IsCapture
    <3> QED BY <3>1, <3>2
  <2> QED BY <2>1, <2>2 DEF CapturesOwned
<1>10. CompletionsFit(k, c)
  <2>1. ASSUME NEW done \in j.completed PROVE CompletionFits(k, c, done)
    <3>1. CompletionFits(j, c, done)
      BY DEF Story, CompletionsFit
    <3>2. Rests(j, done.command) => Rests(k, done.command)
      BY <1>3 DEF Rests
    <3> QED BY <3>1, <3>2 DEF CompletionFits
  <2>2. ASSUME NEW done \in k.completed, done \notin j.completed PROVE CompletionFits(k, c, done)
    <3>1. chain # <<>>
      <4>1. \A app \in Application : <<app>> # <<>>
        OBVIOUS
      <4> QED BY <4>1, <2>2
    <3>2. PICK app \in Application :
            k.completed = j.completed \union {CaptureOf(app)} /\ CompletionFits(k, c, CaptureOf(app))
      BY <1>7, <3>1
    <3> QED BY <3>2, <2>2
  <2> QED BY <2>1, <2>2 DEF CompletionsFit
<1>11. BindingsFit(k, c)
  BY <1>5 DEF Story, BindingsFit, BindingFits
<1>12. AuditsOwned(k, c)
  <2>1. \A p \in Proposal : \A a \in AuditsOf(c, p) : a.command # None => a.command \in Command
    BY ReplacedType DEF Audit
  <2> QED BY <2>1, <1>5 DEF Story, AuditsOwned
<1>13. Settled(k, c) /\ RollbackIsSafe(q)
  BY <1>2 DEF Settled, Undone, RollbackIsSafe
<1> QED BY <1>2, <1>8, <1>9, <1>10, <1>11, <1>12, <1>13 DEF Story

\* A reconciliation that adopts what the target says.
LEMMA AdoptStory ==
  ASSUME NEW j \in Journal, NEW k \in Journal, NEW c \in Catalog, CatalogWell(c), Story(j, c),
         AnsweredIn(j), j.pending = None, NEW p \in Proposal, NEW x \in Command,
         NEW app \in Application, NEW done, NEW b, j.apps[p] = <<>>,
         k.apps = [j.apps EXCEPT ![p] = <<app>>], k.completed = j.completed \union {done},
         Answering(j, k, x, done, b),
         app.proposal = p /\ app.command = x /\ app.status = "adopted" /\ ~app.safe,
         app.after = Definition[p] /\ app.revision <= c.revision,
         done.op = "reconcile" /\ done.proposal = p /\ done.status = "adopted",
         done.before = app.before /\ done.after = app.after,
         done.from = app.revision /\ done.to = app.revision,
         b.status = "adopted" /\ b.snapshot = "promoted",
         HasPromotion(c, p), Moves("promoted", c.status[p])
  PROVE  Story(k, c)
<1>1. /\ c.revision \in Nat /\ c.status \in [Proposal -> Status] /\ app.revision \in Nat
      /\ j.apps \in [Proposal -> Seq(Application)]
  BY JournalType DEF Catalog, Application
<1>2. /\ KeepsAnswers(j, k) /\ CompletionsOf(k, x) = {done} /\ k.commands[x] = b
  BY AnsweringKeeps
<1>3. /\ done.command = x /\ b # None /\ b.op = "reconcile" /\ b.proposal = p
      /\ j.commands[x] = None
  BY DEF Answering
<1>4. CommandIsFree(c, x)
  BY <1>3, UnansweredIsFree DEF Story
<1>5. Fitting(c, x, done, b)
  <2>1. c.status[p] # "absent"
    BY <1>1 DEF CatalogWell
  <2>2. \A r \in Proposal : \A a \in AuditsOf(c, r) : a.command # x
    BY <1>4 DEF CommandIsFree
  <2>3. done.from <= done.to /\ done.to <= c.revision
    BY <1>1
  <2> QED BY <1>3, <2>1, <2>2, <2>3 DEF Fitting, Lasting
<1>6. /\ k.apps[p] = <<app>> /\ k.apps[p][1] = app /\ DOMAIN k.apps[p] = {1} /\ Len(k.apps[p]) = 1
      /\ \A r \in Proposal \ {p} : k.apps[r] = j.apps[r]
  BY <1>1
<1>7. ~Reconciling(j)
  BY DEF Reconciling
<1>8. Vouched(k, c, app, TRUE)
  <2>1. Confirms(k, done, app, TRUE)
    BY <1>2, <1>3 DEF Confirms
  <2> QED BY <2>1, <1>2 DEF Vouched
<1>9. ChainsFollow(j, k, c)
  <2>1. ASSUME NEW r \in Proposal, NEW i \in DOMAIN k.apps[r]
        PROVE  LET one == k.apps[r][i] IN
               /\ Vouched(k, c, one, i = Len(k.apps[r])) \/ FromChain(j, k, one, i = Len(k.apps[r]))
               /\ one.command \in LegacyId =>
                    \/ \E s \in Proposal : \E h \in DOMAIN j.apps[s] : one = j.apps[s][h]
                    \/ \E owner \in Command : Owns(k, c, owner, one)
    <3>1. CASE r = p
      <4>1. i = 1 /\ (i = Len(k.apps[r])) = TRUE /\ k.apps[r][i] = app
        BY <3>1, <1>6
      <4>2. app.command \notin LegacyId
        BY LegacyIds
      <4> QED BY <4>1, <4>2, <1>8
    <3>2. CASE r # p
      <4>1. k.apps[r] = j.apps[r] /\ i \in DOMAIN j.apps[r] /\ j.apps[r] \in ChainsOf(j)
        BY <3>2, <1>6, ChainsAre
      <4>2. \A y : CompletionsOf(j, y) \subseteq CompletionsOf(k, y)
        BY DEF CompletionsOf
      <4>3. FromChain(j, k, k.apps[r][i], i = Len(k.apps[r]))
        BY <4>1, <4>2 DEF FromChain
      <4> QED BY <4>1, <4>3
    <3> QED BY <3>1, <3>2
  <2> QED BY <2>1 DEF ChainsFollow
<1>10. ASSUME NEW y, Rests(j, y) PROVE Rests(k, y)
  <2>1. PICK s \in ChainsOf(j) : \E i \in DOMAIN s : s[i].command = y
    BY <1>10 DEF Rests
  <2>2. PICK r \in Proposal : s = j.apps[r]
    BY <1>7, ChainsAre
  <2>3. r # p
    BY <2>1, <2>2
  <2>4. s \in ChainsOf(k)
    BY <2>2, <2>3, <1>6, ChainsAre
  <2> QED BY <2>1, <2>4 DEF Rests
<1> QED BY <1>5, <1>9, <1>10, StoryAnswers

\* What an operation that is over leaves as its binding.
LEMMA BindingIs ==
  ASSUME NEW j \in Journal, NEW m \in Catalog, j.pending # None, AnsweredIn(j),
         NEW status \in Outcome
  PROVE  \E b \in Binding :
           /\ b.op = j.pending.op /\ b.proposal = j.pending.proposal /\ b.status = status
           /\ b.snapshot = m.status[j.pending.proposal]
           /\ Bound(j, m, status) = [j.commands EXCEPT ![j.pending.command] = b]
<1> DEFINE q == j.pending
           b == [op |-> q.op, proposal |-> q.proposal, snapshot |-> m.status[q.proposal],
                 status |-> status]
<1>1. /\ q.command \in Command /\ q.op \in Operation /\ q.proposal \in Proposal
      /\ j.commands \in [Command -> Binding \union {None}]
  BY JournalType, PendingType
<1>2. b \in Binding
  BY <1>1 DEF Binding, Catalog
<1>3. /\ b.op = q.op /\ b.proposal = q.proposal /\ b.status = status
      /\ b.snapshot = m.status[q.proposal]
  OBVIOUS
<1>4. Bound(j, m, status) = [j.commands EXCEPT ![q.command] = IF @ # None THEN @ ELSE b]
  BY DEF Bound
<1> HIDE DEF b
<1>5. Bound(j, m, status) = [j.commands EXCEPT ![q.command] = b]
  BY <1>1, <1>4 DEF AnsweredIn
<1> QED BY <1>2, <1>3, <1>5

\* What an operation that did not happen leaves of the completions.
LEMMA AbortedCaptures ==
  ASSUME NEW j \in Journal, NEW m \in Catalog
  PROVE  LET k == Aborted(j, m) IN
         /\ k.completed \subseteq j.completed \union {Done(j, m, "aborted", j.pending.before)}
         /\ \A p \in Proposal : \A i \in DOMAIN j.apps[p] :
              CompletionsOf(j, j.apps[p][i].command) \subseteq CompletionsOf(k, j.apps[p][i].command)
         /\ Reconciling(j) =>
              \A i \in DOMAIN j.pending.previous : \A done \in k.completed \intersect j.completed :
                done.command = j.pending.previous[i].command /\ done.command \in LegacyId =>
                  \/ done = Done(j, m, "aborted", j.pending.before)
                  \/ \E p \in Proposal : \E h \in DOMAIN j.apps[p] :
                       j.apps[p][h].command = done.command
<1> DEFINE used == UNION {{j.apps[p][i].command : i \in DOMAIN j.apps[p]} : p \in Proposal}
           dropped == {app.command : app \in {j.pending.previous[i] : i \in DOMAIN j.pending.previous}}
                        \intersect (LegacyId \ used)
           kept == {done \in j.completed : j.pending.op # "reconcile" \/ done.command \notin dropped}
           new == Done(j, m, "aborted", j.pending.before)
           k == Aborted(j, m)
<1>1. k = [j EXCEPT !.pending = None, !.recovery = FALSE, !.commands = Bound(j, m, "aborted"),
                    !.completed = kept \union {new}]
  BY Zenon DEF Aborted
<1>2. \A p \in Proposal : \A i \in DOMAIN j.apps[p] : j.apps[p][i].command \in used
  OBVIOUS
<1>3. \A id \in used : \E p \in Proposal : \E i \in DOMAIN j.apps[p] : j.apps[p][i].command = id
  OBVIOUS
<1>4. \A id \in used : id \notin dropped
  OBVIOUS
<1>5. \A i \in DOMAIN j.pending.previous :
        j.pending.previous[i].command \in LegacyId \ used => j.pending.previous[i].command \in dropped
  OBVIOUS
<1> HIDE DEF used, dropped, new, k
<1>6. k.completed = kept \union {new}
  BY <1>1 DEF Journal
<1>7. \A done \in j.completed : done.command \in used => done \in k.completed
  BY <1>4, <1>6
<1>8. \A p \in Proposal : \A i \in DOMAIN j.apps[p] :
        CompletionsOf(j, j.apps[p][i].command) \subseteq CompletionsOf(k, j.apps[p][i].command)
  BY <1>2, <1>7 DEF CompletionsOf
<1>9. ASSUME Reconciling(j), NEW i \in DOMAIN j.pending.previous, NEW done \in k.completed,
             done.command = j.pending.previous[i].command, done.command \in LegacyId, done # new
      PROVE  \E p \in Proposal : \E h \in DOMAIN j.apps[p] : j.apps[p][h].command = done.command
  <2>1. done.command \notin dropped
    BY <1>6, <1>9 DEF Reconciling
  <2>2. done.command \in used
    BY <1>5, <1>9, <2>1
  <2> QED BY <2>2, <1>3
<1> QED BY <1>6, <1>8, <1>9 DEF k, new

\* The pending operation did not happen.
LEMMA AbortedStory ==
  ASSUME NEW j \in Journal, NEW c \in Catalog, NEW m \in Catalog, JournalWell(j, c),
         Story(j, c), AnsweredIn(j), j.pending # None, Goes(m, c), Before(m, j.pending),
         Undone(c, j.pending)
  PROVE  Story(Aborted(j, m), c)
<1> DEFINE q == j.pending
           p == q.proposal
           x == q.command
           k == Aborted(j, m)
           new == Done(j, m, "aborted", q.before)
<1>1. /\ p \in Proposal /\ x \in Command /\ q.op \in Operation /\ q.revision \in Nat
      /\ m.revision \in Nat /\ c.revision \in Nat /\ "aborted" \in Outcome
  BY JournalType, PendingType DEF Catalog, Outcome
<1>2. k \in Journal /\ k.pending = None /\ k.apps = j.apps
  BY AbortedIs DEF Undone
<1>3. PICK b \in Binding :
        /\ b.op = q.op /\ b.proposal = p /\ b.status = "aborted" /\ b.snapshot = m.status[p]
        /\ Bound(j, m, "aborted") = [j.commands EXCEPT ![x] = b]
  BY <1>1, BindingIs
<1>4. /\ k.commands = [j.commands EXCEPT ![x] = b]
      /\ \A done : done.command \in Command => (done \in k.completed <=> done \in j.completed \/ done = new)
  BY <1>3, AbortedForm
<1>5. /\ k.completed \subseteq j.completed \union {new}
      /\ \A r \in Proposal : \A i \in DOMAIN j.apps[r] :
           CompletionsOf(j, j.apps[r][i].command) \subseteq CompletionsOf(k, j.apps[r][i].command)
      /\ Reconciling(j) =>
           \A i \in DOMAIN q.previous : \A done \in k.completed \intersect j.completed :
             done.command = q.previous[i].command /\ done.command \in LegacyId =>
               \/ done = new
               \/ \E r \in Proposal : \E h \in DOMAIN j.apps[r] : j.apps[r][h].command = done.command
  BY AbortedCaptures
<1>6. /\ new.command = x /\ new.op = q.op /\ new.proposal = p /\ new.status = "aborted"
      /\ new.from = q.revision /\ new.to = m.revision
  BY DEF Done
<1> HIDE DEF k, new, p, x
<1>7. Answering(j, k, x, new, b)
  <2>1. j.commands[x] = None /\ b # None
    BY <1>3, NoneAssumption DEF AnsweredIn, x
  <2> QED BY <2>1, <1>2, <1>3, <1>4, <1>5, <1>6 DEF Answering, x
<1>8. Fitting(c, x, new, b)
  <2>1. /\ m.revision = q.revision /\ m.status[p] \in {"passed", "promoted"}
    BY <1>1 DEF Before, Operation, p
  <2>2. Moves(m.status[p], c.status[p]) /\ m.revision <= c.revision
    BY <1>1 DEF Goes
  <2>3. c.status[p] # "absent"
    BY <2>1, <2>2 DEF Moves
  <2>4. \A r \in Proposal : \A a \in AuditsOf(c, r) : a.command # x
    BY DEF Undone, CommandIsFree, x
  <2>5. ~HasAudit(c, new)
    BY <1>1, <1>6, <2>4 DEF HasAudit
  <2>6. m.status[p] \in Lasting
    BY <2>1 DEF Lasting
  <2> QED BY <1>1, <1>3, <1>6, <2>1, <2>2, <2>3, <2>4, <2>5, <2>6 DEF Fitting
<1>9. ChainsFollow(j, k, c)
  <2>1. ASSUME NEW r \in Proposal, NEW i \in DOMAIN k.apps[r]
        PROVE  FromChain(j, k, k.apps[r][i], i = Len(k.apps[r]))
    <3>1. j.apps[r] \in ChainsOf(j) /\ i \in DOMAIN j.apps[r]
      BY <1>2, ChainsAre
    <3> QED BY <3>1, <1>2, <1>5 DEF FromChain
  <2> QED BY <2>1, <1>2 DEF ChainsFollow
<1>10. ASSUME NEW done \in k.completed, done.command \in LegacyId, Rests(j, done.command)
       PROVE  Rests(k, done.command)
  <2>1. \A r \in Proposal : j.apps[r] \in ChainsOf(k)
    BY <1>2, ChainsAre
  <2>2. PICK s \in ChainsOf(j) : \E i \in DOMAIN s : s[i].command = done.command
    BY <1>10 DEF Rests
  <2>3. CASE \E r \in Proposal : s = j.apps[r]
    BY <2>1, <2>2, <2>3 DEF Rests
  <2>4. CASE Reconciling(j) /\ s = q.previous
    <3>1. done # new
      BY <1>1, <1>6, <1>10, LegacyIds
    <3>2. done \in j.completed
      BY <3>1, <1>5
    <3>3. \E r \in Proposal : \E h \in DOMAIN j.apps[r] : j.apps[r][h].command = done.command
      BY <3>1, <3>2, <2>2, <2>4, <1>5, <1>10
    <3> QED BY <3>3, <2>1 DEF Rests
  <2> QED BY <2>3, <2>4, ChainsAre
<1>11. Story(k, c)
  BY <1>1, <1>2, <1>7, <1>8, <1>9, <1>10, StoryAnswers
<1> QED BY <1>11 DEF k

\* The proof that an operation leaves which is not a rollback.
ProofOf(q, m) ==
  [proposal |-> q.proposal, command |-> q.command, status |-> "applied", before |-> q.before,
   after |-> q.after, safe |-> TRUE, revision |-> m.revision]

\* The chains when the pending operation is over: one of them is extended, or loses its first proof.
FinishedAs(j, k, app) ==
  LET q == j.pending
      s == q.previous IN
  /\ \A r \in Proposal : k.apps[r] # <<>> =>
       \/ k.apps[r] = j.apps[r]
       \/ q.op # "rollback" /\ k.apps[r] = <<app>> \o s
       \/ q.op = "rollback" /\ Len(s) > 1 /\ k.apps[r] = Tail(s)
  /\ s # <<>> => s \in ChainsOf(j)
  /\ q.op # "rollback" => k.apps[q.proposal] = <<app>> \o s
  /\ q.op = "rollback" /\ Len(s) > 1 => \E r \in Proposal : k.apps[r] = Tail(s)
  /\ \A chain \in ChainsOf(j) : chain # <<>> => chain = s \/ \E r \in Proposal : k.apps[r] = chain

LEMMA FinishedChains ==
  ASSUME NEW j \in Journal, NEW c \in Catalog, NEW m \in Catalog, CatalogWell(c),
         JournalWell(j, c), j.pending # None, Agree(c, m), After(m, j.pending)
  PROVE  FinishedAs(j, Finished(j, m), ProofOf(j.pending, m))
<1> DEFINE q == j.pending
           p == q.proposal
           s == q.previous
           k == Finished(j, m)
           app == ProofOf(q, m)
           replaced == IF q.op = "promote" /\ q.active # None
                       THEN [j.apps EXCEPT ![q.active] = <<>>] ELSE Forget(j.apps, s)
<1>1. /\ k \in Journal /\ k.pending = None /\ app \in Application
      /\ replaced \in [Proposal -> Seq(Application)]
      /\ k.apps = IF q.op # "rollback" THEN [replaced EXCEPT ![p] = <<app>> \o s]
                  ELSE IF Len(s) < 2 THEN [j.apps EXCEPT ![p] = <<>>]
                  ELSE [j.apps EXCEPT ![p] = <<>>, ![s[2].proposal] = Tail(s)]
  BY FinishedType DEF ProofOf
<1>2. /\ p \in Proposal /\ s \in Seq(Application) /\ j.apps \in [Proposal -> Seq(Application)]
      /\ None \notin Proposal /\ Planned(j, c, q) /\ ChainsWell(j, c) /\ q.op \in Operation
      /\ q.active \in Proposal \union {None}
  BY JournalType, PendingType, OutsideAssumption DEF JournalWell
<1>3. \A r \in Proposal : replaced[r] = j.apps[r] \/ replaced[r] = <<>>
  BY <1>2 DEF Forget
<1>4. \A r \in Proposal : TargetOf(r) # TargetOf(p) => k.apps[r] = j.apps[r]
  BY FinishedIs
<1> HIDE DEF app, replaced, k
<1>5. ASSUME NEW r \in Proposal, k.apps[r] # <<>>
      PROVE  \/ k.apps[r] = j.apps[r]
             \/ q.op # "rollback" /\ k.apps[r] = <<app>> \o s
             \/ q.op = "rollback" /\ Len(s) > 1 /\ k.apps[r] = Tail(s)
  <2> DEFINE top == <<app>> \o s
             below == Tail(s)
  <2>1. Len(s) \in Nat
    BY <1>2
  <2> HIDE DEF top, below, p, s, q
  <2>2. CASE q.op # "rollback"
    <3>1. k.apps[r] = top \/ k.apps[r] = replaced[r]
      BY <2>2, <1>1 DEF top
    <3> QED BY <3>1, <2>2, <1>3, <1>5 DEF top
  <2>3. CASE q.op = "rollback" /\ Len(s) < 2
    BY <2>3, <1>1, <1>2, <1>5
  <2>4. CASE q.op = "rollback" /\ ~(Len(s) < 2)
    <3>1. Len(s) > 1
      BY <2>1, <2>4
    <3>2. k.apps = [[j.apps EXCEPT ![p] = <<>>] EXCEPT ![s[2].proposal] = below]
      BY <2>4, <1>1 DEF below
    <3>3. k.apps[r] = below \/ k.apps[r] = <<>> \/ k.apps[r] = j.apps[r]
      BY <3>2, <1>2
    <3> QED BY <3>1, <3>3, <2>4, <1>5 DEF below
  <2> QED BY <2>2, <2>3, <2>4
<1>6. ASSUME s # <<>> PROVE s \in ChainsOf(j)
  <2>1. CASE q.op = "promote"
    <3>1. q.active \in Proposal /\ s = j.apps[q.active]
      BY <2>1, <1>2, <1>6 DEF Planned, ProofsFor
    <3> QED BY <3>1, ChainsAre
  <2>2. CASE q.op = "rollback"
    BY <2>2, <1>2, ChainsAre DEF Planned
  <2>3. CASE q.op = "reconcile"
    BY <2>3, ChainsAre DEF Reconciling
  <2> QED BY <2>1, <2>2, <2>3, <1>2 DEF Operation
<1>7. q.op # "rollback" => k.apps[p] = <<app>> \o s
  BY <1>1, <1>2
<1>8. ASSUME q.op = "rollback", Len(s) > 1 PROVE \E r \in Proposal : k.apps[r] = Tail(s)
  <2>1. s[2] \in Application /\ ~(Len(s) < 2)
    BY <1>2, <1>8
  <2>2. s[2].proposal \in Proposal
    BY <2>1 DEF Application
  <2> HIDE DEF s, p, q
  <2>3. k.apps[s[2].proposal] = Tail(s)
    BY <2>1, <2>2, <1>1, <1>2, <1>8
  <2> QED BY <2>2, <2>3
<1>9. ASSUME NEW chain \in ChainsOf(j), chain # <<>>
      PROVE  chain = s \/ \E r \in Proposal : k.apps[r] = chain
  <2>1. CASE Reconciling(j) /\ chain = s
    BY <2>1
  <2>2. ASSUME NEW r \in Proposal, chain = j.apps[r]
        PROVE  chain = s \/ \E u \in Proposal : k.apps[u] = chain
    <3>1. CASE TargetOf(r) # TargetOf(p)
      BY <3>1, <2>2, <1>4
    <3>2. CASE TargetOf(r) = TargetOf(p)
      <4>1. r = q.active
        BY <3>2, <2>2, <1>9, <1>2 DEF ChainsWell, ActiveBefore
      <4>2. q.op = "reconcile" => j.apps[r] = <<>>
        BY <4>1, <1>2 DEF Planned
      <4>3. q.op \in {"promote", "rollback"} => s = j.apps[r]
        BY <4>1, <1>2 DEF Planned, ProofsFor
      <4> QED BY <4>2, <4>3, <2>2, <1>9, <1>2 DEF Operation
    <3> QED BY <3>1, <3>2
  <2> QED BY <2>1, <2>2, ChainsAre
<1> QED BY <1>5, <1>6, <1>7, <1>8, <1>9 DEF FinishedAs, k, app

LEMMA OnTop ==
  ASSUME NEW app \in Application, NEW s \in Seq(Application)
  PROVE  LET chain == <<app>> \o s IN
         /\ chain[1] = app /\ Len(chain) = Len(s) + 1 /\ DOMAIN chain = 1..Len(s) + 1
         /\ \A i \in DOMAIN s : i + 1 \in DOMAIN chain /\ chain[i + 1] = s[i]
         /\ \A i \in DOMAIN chain :
              i = 1 \/ (i - 1 \in DOMAIN s /\ chain[i] = s[i - 1] /\ (i = Len(chain) <=> i - 1 = Len(s)))
<1> DEFINE r == <<app>> \o s
<1>1. DOMAIN r = 1..Len(s) + 1 /\ Len(r) = Len(s) + 1 /\ r[1] = app /\ Len(s) \in Nat
      /\ DOMAIN s = 1..Len(s) /\ \A i \in 1..Len(s) : r[i + 1] = s[i]
  OBVIOUS
<1> HIDE DEF r
<1>2. \A i \in DOMAIN s : i + 1 \in DOMAIN r /\ r[i + 1] = s[i]
  BY <1>1
<1>3. ASSUME NEW i \in DOMAIN r, i # 1
      PROVE  i - 1 \in DOMAIN s /\ r[i] = s[i - 1] /\ (i = Len(r) <=> i - 1 = Len(s))
  <2>1. i - 1 \in 1..Len(s) /\ (i - 1) + 1 = i
    BY <1>1, <1>3
  <2> QED BY <2>1, <1>1
<1> QED BY <1>1, <1>2, <1>3 DEF r

LEMMA InTail ==
  ASSUME NEW s \in Seq(Application), Len(s) > 1
  PROVE  /\ \A i \in DOMAIN Tail(s) :
              i + 1 \in DOMAIN s /\ Tail(s)[i] = s[i + 1] /\ (i = Len(Tail(s)) <=> i + 1 = Len(s))
         /\ \A i \in DOMAIN s : i = 1 \/ (i - 1 \in DOMAIN Tail(s) /\ Tail(s)[i - 1] = s[i])
<1> DEFINE r == Tail(s)
<1>1. DOMAIN r = 1..Len(s) - 1 /\ Len(r) = Len(s) - 1 /\ Len(s) \in Nat /\ DOMAIN s = 1..Len(s)
      /\ \A i \in 1..Len(s) - 1 : r[i] = s[i + 1]
  OBVIOUS
<1> HIDE DEF r
<1>2. \A i \in DOMAIN r :
        i + 1 \in DOMAIN s /\ r[i] = s[i + 1] /\ (i = Len(r) <=> i + 1 = Len(s))
  BY <1>1
<1>3. ASSUME NEW i \in DOMAIN s, i # 1 PROVE i - 1 \in DOMAIN r /\ r[i - 1] = s[i]
  <2>1. i - 1 \in 1..Len(s) - 1 /\ (i - 1) + 1 = i
    BY <1>1, <1>3
  <2> QED BY <2>1, <1>1
<1> QED BY <1>2, <1>3 DEF r

\* The pending operation happened.
LEMMA FinishedStory ==
  ASSUME NEW j \in Journal, NEW c \in Catalog, NEW m \in Catalog, CatalogWell(c),
         JournalWell(j, c), Story(j, c), AnsweredIn(j), j.pending # None, Agree(c, m),
         After(m, j.pending), Goes(m, c),
         \/ j.pending.op # "reconcile" /\ m = c /\ Reached(c, j.pending)
         \/ /\ j.pending.op = "reconcile" /\ Undone(c, j.pending)
            /\ m.revision = j.pending.revision /\ m.status[j.pending.proposal] = "promoted"
  PROVE  Story(Finished(j, m), c)
<1> DEFINE q == j.pending
           p == q.proposal
           x == q.command
           s == q.previous
           k == Finished(j, m)
           app == ProofOf(q, m)
           status == IF q.op = "rollback" THEN "rolled-back" ELSE "applied"
           new == Done(j, m, status, q.after)
<1>1. /\ p \in Proposal /\ x \in Command /\ q.op \in Operation /\ q.revision \in Nat
      /\ q.before \in Holds /\ q.after \in Holds /\ s \in Seq(Application)
      /\ m.revision \in Nat /\ c.revision \in Nat /\ status \in Outcome /\ TargetOf(p) \in Target
  BY JournalType, PendingType, Targets DEF Catalog, Outcome
<1>2. Planned(j, c, q) /\ (s # <<>> => \A i \in DOMAIN s : s[i] \in Application)
  BY <1>1 DEF JournalWell
<1>3. app \in Application
  BY <1>1 DEF ProofOf, Application
<1>4. /\ app.proposal = p /\ app.command = x /\ app.status = "applied" /\ app.before = q.before
      /\ app.after = q.after /\ app.safe = TRUE /\ app.revision = m.revision
  BY DEF ProofOf
<1>5. /\ new.command = x /\ new.op = q.op /\ new.proposal = p /\ new.status = status
      /\ new.before = q.before /\ new.after = q.after /\ new.from = q.revision
      /\ new.to = m.revision
  BY DEF Done
<1>6. k \in Journal /\ k.pending = None
  BY FinishedIs
<1>7. FinishedAs(j, k, app)
  BY FinishedChains
<1>8. PICK b \in Binding :
        /\ b.op = q.op /\ b.proposal = p /\ b.status = status /\ b.snapshot = m.status[p]
        /\ Bound(j, m, status) = [j.commands EXCEPT ![x] = b]
  <2> HIDE DEF status
  <2> QED BY <1>1, BindingIs
<1>9. k.commands = [j.commands EXCEPT ![x] = b] /\ k.completed = j.completed \union {new}
  BY <1>8, FinishedForm
<1> HIDE DEF k, new, app
<1>10. Answering(j, k, x, new, b)
  <2>1. j.commands[x] = None /\ b # None
    BY <1>8, NoneAssumption DEF AnsweredIn
  <2> QED BY <2>1, <1>5, <1>6, <1>8, <1>9 DEF Answering
<1>11. CompletionsOf(k, x) = {new} /\ k.commands[x] = b
  BY <1>1, <1>10, AnsweringKeeps
<1>12. \A y : CompletionsOf(j, y) \subseteq CompletionsOf(k, y)
  BY <1>9 DEF CompletionsOf
<1>13. Fitting(c, x, new, b)
  <2>1. b.snapshot \in Lasting /\ Moves(b.snapshot, c.status[p]) /\ c.status[p] # "absent"
    <3>1. CASE q.op # "reconcile"
      BY <3>1, <1>8 DEF Reached, OutcomeReached, Known, Lasting, Moves
    <3>2. CASE q.op = "reconcile"
      BY <3>2, <1>1, <1>8 DEF Goes, Lasting, Moves
    <3> QED BY <3>1, <3>2
  <2>2. new.from <= new.to /\ new.to <= c.revision
    <3>1. CASE q.op # "reconcile"
      <4>1. c.revision = q.revision + 1 /\ m = c
        BY <3>1, <1>2 DEF Reached, OutcomeReached, Planned
      <4> QED BY <4>1, <1>1, <1>5
    <3>2. CASE q.op = "reconcile"
      BY <3>2, <1>1, <1>5 DEF Goes
    <3> QED BY <3>1, <3>2
  <2>3. new.status \in {"applied", "rolled-back"}
    BY <1>5
  <2>4. ASSUME q.op # "reconcile" PROVE HasAudit(c, new)
    <3>1. c.audits[p] # <<>> /\ Latest(c.audits[p]) = q.audit
      BY <2>4 DEF Reached, OutcomeReached
    <3>2. q.audit \in AuditsOf(c, p)
      <4>1. c.audits[p] \in Seq(Audit)
        BY <1>1 DEF Catalog
      <4>2. Len(c.audits[p]) \in DOMAIN c.audits[p]
        BY <3>1, <4>1
      <4> QED BY <3>1, <4>2 DEF Latest, AuditsOf
    <3>3. /\ q.audit.kind = IF q.op = "promote" THEN "promotion" ELSE "rollback"
          /\ q.audit.command = x
      BY <2>4, <1>1, <1>2 DEF Planned, Operation
    <3> QED BY <3>2, <3>3, <1>5 DEF HasAudit
  <2>5. \A r \in Proposal : \A a \in AuditsOf(c, r) : a.command = x => r = p
    BY DEF Reached, Undone, CommandIsFree
  <2> QED BY <1>5, <1>8, <2>1, <2>2, <2>3, <2>4, <2>5 DEF Fitting
<1>14. q.op # "rollback" => Vouched(k, c, app, TRUE) /\ Vouched(k, c, app, FALSE)
  <2> SUFFICES ASSUME q.op # "rollback", NEW last \in BOOLEAN PROVE Vouched(k, c, app, last)
    OBVIOUS
  <2>1. c.active[TargetOf(p)] = p
    BY <1>1 DEF After, Agree
  <2>2. HasPromotion(c, p)
    BY <2>1, <1>1, OutsideAssumption DEF CatalogWell
  <2>3. q.after = Definition[p]
    BY <1>2 DEF Planned
  <2>4. b # None /\ status = "applied"
    BY NoneAssumption
  <2> HIDE DEF status
  <2>5. Confirms(k, new, app, last)
    BY <1>1, <1>4, <1>5, <1>8, <1>11, <2>4 DEF Confirms
  <2>6. app.revision <= c.revision
    BY <1>4 DEF Goes
  <2> QED BY <1>4, <1>11, <2>2, <2>3, <2>5, <2>6 DEF Vouched
<1> HIDE DEF status
<1>15. ChainsFollow(j, k, c)
  <2>1. ASSUME NEW r \in Proposal, NEW i \in DOMAIN k.apps[r]
        PROVE  LET one == k.apps[r][i] IN
               /\ Vouched(k, c, one, i = Len(k.apps[r])) \/ FromChain(j, k, one, i = Len(k.apps[r]))
               /\ one.command \in LegacyId =>
                    \/ \E u \in Proposal : \E h \in DOMAIN j.apps[u] : one = j.apps[u][h]
                    \/ \E owner \in Command : Owns(k, c, owner, one)
    <3>1. k.apps[r] # <<>>
      BY <2>1
    \* A proof that was below is where it was, as a proof of s.
    <3>2. ASSUME NEW h \in DOMAIN s, k.apps[r][i] = s[h], i = Len(k.apps[r]) <=> h = Len(s)
          PROVE  /\ FromChain(j, k, k.apps[r][i], i = Len(k.apps[r]))
                 /\ s[h].command \in LegacyId =>
                      \/ \E u \in Proposal : \E g \in DOMAIN j.apps[u] : s[h] = j.apps[u][g]
                      \/ \E owner \in Command : Owns(k, c, owner, s[h])
      <4>1. s # <<>> /\ s \in ChainsOf(j)
        <5>1. s # <<>>
          BY <3>2
        <5> QED BY <5>1, <1>7 DEF FinishedAs
      <4>2. FromChain(j, k, k.apps[r][i], i = Len(k.apps[r]))
        BY <4>1, <3>2, <1>12 DEF FromChain
      <4>3. CASE Reconciling(j)
        <5>1. Len(s) <= 1 /\ Replaced(c, p) = s[1].proposal
          BY <4>1, <4>3, <1>2 DEF Planned, Reconciling
        <5>2. h = 1
          BY <5>1, <1>1
        <5>3. s[1].command = LegacyOf(x)
          BY <4>1, <4>3 DEF Story, CapturesOwned
        <5>4. b # None /\ b.op = "reconcile" /\ b.proposal = p
          BY <4>3, <1>8, NoneAssumption DEF Reconciling
        <5>5. Owns(k, c, x, s[1])
          BY <5>1, <5>3, <5>4, <1>11 DEF Owns
        <5> QED BY <4>2, <5>2, <5>5, <1>1
      <4>4. CASE ~Reconciling(j)
        <5>1. \E u \in Proposal : s = j.apps[u]
          BY <4>1, <4>4, ChainsAre
        <5> QED BY <5>1, <4>2
      <4> QED BY <4>3, <4>4
    <3>3. CASE k.apps[r] = j.apps[r]
      <4>1. j.apps[r] \in ChainsOf(j) /\ i \in DOMAIN j.apps[r]
        BY <3>3, ChainsAre
      <4>2. FromChain(j, k, k.apps[r][i], i = Len(k.apps[r]))
        BY <3>3, <4>1, <1>12 DEF FromChain
      <4> QED BY <3>3, <4>1, <4>2
    <3>4. CASE q.op # "rollback" /\ k.apps[r] = <<app>> \o s
      <4>1. k.apps[r][1] = app
            /\ (i = 1 \/ (i - 1 \in DOMAIN s /\ k.apps[r][i] = s[i - 1]
                          /\ (i = Len(k.apps[r]) <=> i - 1 = Len(s))))
        BY <3>4, <1>1, <1>3, OnTop
      <4>2. CASE i = 1
        <5>1. app.command \notin LegacyId
          BY <1>1, <1>4, LegacyIds
        <5> DEFINE last == (i = Len(k.apps[r]))
        <5>2. last \in BOOLEAN
          OBVIOUS
        <5>3. last = TRUE \/ last = FALSE
          BY <5>2
        <5> HIDE DEF last
        <5>4. Vouched(k, c, app, last)
          BY <5>3, <3>4, <1>14
        <5> QED BY <5>1, <5>4, <4>1, <4>2 DEF last
      <4>3. CASE i # 1
        BY <4>1, <4>3, <3>2
      <4> QED BY <4>2, <4>3
    <3>5. CASE q.op = "rollback" /\ Len(s) > 1 /\ k.apps[r] = Tail(s)
      <4>1. i + 1 \in DOMAIN s /\ k.apps[r][i] = s[i + 1]
            /\ (i = Len(k.apps[r]) <=> i + 1 = Len(s))
        BY <3>5, <1>1, InTail
      <4> QED BY <4>1, <3>2
    <3> QED BY <3>1, <3>3, <3>4, <3>5, <1>7 DEF FinishedAs
  <2> QED BY <2>1 DEF ChainsFollow
<1>16. ASSUME NEW done \in k.completed, done.command \in LegacyId, Rests(j, done.command)
       PROVE  Rests(k, done.command)
  <2>1. PICK chain \in ChainsOf(j) : \E i \in DOMAIN chain : chain[i].command = done.command
    BY <1>16 DEF Rests
  <2>2. PICK i \in DOMAIN chain : chain[i].command = done.command
    BY <2>1
  <2>3. chain # <<>>
    BY <2>2
  <2>4. ASSUME NEW r \in Proposal, NEW h \in DOMAIN k.apps[r], k.apps[r][h].command = done.command
        PROVE  Rests(k, done.command)
    BY <2>4, <1>6, ChainsAre DEF Rests
  <2>5. CASE \E r \in Proposal : k.apps[r] = chain
    BY <2>2, <2>4, <2>5
  <2>6. CASE chain = s /\ q.op # "rollback"
    <3>1. k.apps[p] = <<app>> \o s
      BY <2>6, <1>7 DEF FinishedAs
    <3>2. i + 1 \in DOMAIN k.apps[p] /\ k.apps[p][i + 1] = s[i]
      BY <3>1, <2>6, <1>1, <1>3, OnTop
    <3> QED BY <3>2, <2>2, <2>4, <2>6, <1>1
  <2>7. CASE chain = s /\ q.op = "rollback"
    <3>1. s[1].safe /\ Vouched(j, c, s[1], 1 = Len(s))
      <4>1. 1 \in DOMAIN s
        BY <2>3, <2>7, <1>1
      <4> QED BY <4>1, <2>7 DEF Story, RollbackIsSafe, ProofsVouched
    <3>2. i # 1
      <4>1. s[1].command \notin Command => ~s[1].safe
        BY <3>1 DEF Vouched, Confirms
      <4> QED BY <4>1, <3>1, <2>2, <2>7, <1>16, LegacyIds
    <3>3. Len(s) > 1
      BY <3>2, <2>7, <1>1
    <3>4. PICK r \in Proposal : k.apps[r] = Tail(s)
      BY <3>3, <2>7, <1>7 DEF FinishedAs
    <3>5. i - 1 \in DOMAIN k.apps[r] /\ k.apps[r][i - 1] = s[i]
      BY <3>2, <3>3, <3>4, <2>7, <1>1, InTail
    <3> QED BY <3>5, <2>2, <2>4, <2>7
  <2> QED BY <2>3, <2>5, <2>6, <2>7, <1>7 DEF FinishedAs
<1>17. Story(k, c)
  BY <1>1, <1>6, <1>10, <1>13, <1>15, <1>16, StoryAnswers
<1> QED BY <1>17 DEF k
-----------------------------------------------------------------------------
(* What the story means for the checks of an opening.                      *)

\* A chain that an opening checks, and the command that is going to extend it.
Checked(j, s, above) ==
  \/ above = None /\ \E p \in Proposal : s = j.apps[p]
  \/ Reconciling(j) /\ s = j.pending.previous /\ above = j.pending.command

LEMMA CapturedIs ==
  ASSUME NEW j \in Journal, NEW c \in Catalog, JournalWell(j, c), Story(j, c), ~Buried(j),
         NEW s, NEW above, Checked(j, s, above), NEW i \in DOMAIN s, s[i].command \in LegacyId
  PROVE  IsCaptured(j, c, s, i, above)
<1> DEFINE app == s[i]
           parent == IF i = 1 THEN above ELSE s[i - 1].command
<1>1. s \in ChainsOf(j) /\ s \in Seq(Application) /\ app \in Application /\ i \in 1..Len(s)
  BY ChainsAre DEF Checked
<1>2. app.command \notin Command /\ ~IsBound(j, app.command)
  BY LegacyIds DEF IsBound
<1>3. Vouched(j, c, app, i = Len(s))
  BY <1>1 DEF Story, ProofsVouched
<1>4. /\ app.status = "adopted" /\ i = Len(s) /\ ~app.safe /\ app.before = app.after
      /\ CompletionsOf(j, app.command) # {}
  BY <1>2, <1>3 DEF Vouched, Confirms
<1>5. \E owner \in Owners(j, parent) :
        app.command = LegacyOf(owner.command) /\ Replaced(c, owner.proposal) = app.proposal
  <2>1. ASSUME NEW p \in Proposal, s = j.apps[p], above = None
        PROVE  \E owner \in Owners(j, parent) :
                 app.command = LegacyOf(owner.command) /\ Replaced(c, owner.proposal) = app.proposal
    <3>1. PICK k \in Command : Owns(j, c, k, app)
      BY <2>1 DEF Story, CapturesOwned
    <3>2. parent \in {None, k}
      <4>1. CASE i = 1
        BY <4>1, <2>1
      <4>2. CASE i # 1
        <5>1. i \in 2..Len(s)
          BY <4>2, <1>1
        <5>2. app.command = LegacyOf(s[i - 1].command)
          BY <5>1, <2>1 DEF Buried
        <5>3. s[i - 1] \in Application
          BY <5>1, <1>1
        <5>4. s[i - 1].command \in Command \union LegacyId
          BY <5>3 DEF Application
        <5>5. LegacyOf(k) = LegacyOf(s[i - 1].command)
          BY <5>2, <3>1 DEF Owns
        <5>6. k = s[i - 1].command
          BY <5>4, <5>5, LegacyIds, Zenon
        <5> QED BY <5>6, <4>2
      <4> QED BY <4>1, <4>2
    <3>3. [command |-> k, proposal |-> j.commands[k].proposal] \in Owners(j, parent)
      BY <3>1, <3>2 DEF Owners, Owns
    <3> QED BY <3>1, <3>3 DEF Owns
  <2>2. CASE Reconciling(j) /\ s = j.pending.previous /\ above = j.pending.command
    <3>1. s # <<>> /\ Len(s) <= 1
      BY <1>1, <2>2 DEF JournalWell, Planned, Reconciling
    <3>2. i = 1
      BY <3>1, <1>1
    <3>3. s[1].command = LegacyOf(j.pending.command) /\ Replaced(c, j.pending.proposal) = s[1].proposal
      BY <2>2, <3>1 DEF Story, CapturesOwned, JournalWell, Planned, Reconciling
    <3>4. [command |-> j.pending.command, proposal |-> j.pending.proposal] \in Owners(j, parent)
      BY <2>2, <3>2 DEF Owners, Reconciling
    <3> QED BY <3>2, <3>3, <3>4
  <2> QED BY <2>1, <2>2 DEF Checked
<1> QED BY <1>2, <1>4, <1>5 DEF IsCaptured

LEMMA CheckedChainHolds ==
  ASSUME NEW j \in Journal, NEW c \in Catalog, CatalogWell(c), JournalWell(j, c), Story(j, c),
         ~Buried(j), NEW s, NEW above, Checked(j, s, above)
  PROVE  ChainHolds(j, c, s, above)
<1> SUFFICES ASSUME NEW i \in DOMAIN s PROVE ProofHolds(j, c, s, i, above)
  BY DEF ChainHolds
<1> DEFINE app == s[i]
           last == (i = Len(s))
           x == app.command
<1>1. s \in ChainsOf(j) /\ s \in Seq(Application) /\ app \in Application /\ i \in 1..Len(s)
  BY ChainsAre DEF Checked
<1>2. /\ app.proposal \in Proposal /\ x \in Command \union LegacyId /\ app.safe \in BOOLEAN
      /\ c.status \in [Proposal -> Status]
  BY <1>1 DEF Application, Catalog
<1>3. Vouched(j, c, app, last)
  BY <1>1 DEF Story, ProofsVouched
<1>4. x \in LegacyId => IsCaptured(j, c, s, i, above)
  BY CapturedIs
<1>5. ~last <=> i < Len(s)
  BY <1>1
<1> HIDE DEF app, last, x
<1>6. Known(c, app.proposal) /\ app.revision <= c.revision /\ app.after = Definition[app.proposal]
  BY <1>2, <1>3 DEF Vouched, CatalogWell, Known
<1>7. PICK done \in CompletionsOf(j, x) : Confirms(j, done, app, last)
  BY <1>3 DEF Vouched, x
<1>8. CASE x \in Command
  <2>1. /\ IsBound(j, x) /\ j.commands[x].op = done.op /\ j.commands[x].status = app.status
        /\ done.op = "promote" => app.safe /\ app.status = "applied"
        /\ done.op = "reconcile" => (app.safe <=> app.status # "adopted" \/ ~last)
    BY <1>7, <1>8 DEF Confirms, IsBound, x
  <2>2. done.op = "reconcile" => app.safe = (~(IsBound(j, x) /\ j.commands[x].status = "adopted") \/ i < Len(s))
    BY <2>1, <1>2, <1>5
  <2>3. /\ done.proposal = app.proposal /\ done.status = app.status /\ done.to = app.revision
        /\ done.before = app.before /\ done.after = app.after
    BY <1>7 DEF Confirms
  <2> QED BY <1>6, <1>7, <2>1, <2>2, <2>3 DEF ProofHolds, app, x
<1>9. CASE x \notin Command
  <2>1. ~IsBound(j, x)
    BY <1>9 DEF IsBound
  <2>2. /\ done.proposal = app.proposal /\ done.status = app.status /\ done.to = app.revision
        /\ done.before = app.before /\ done.after = app.after
        /\ done.op = "reconcile" /\ done.from = app.revision
    BY <1>7, <1>9 DEF Confirms, x
  <2>3. IsCaptured(j, c, s, i, above)
    BY <1>2, <1>4, <1>9
  <2> QED BY <1>6, <1>7, <2>1, <2>2, <2>3 DEF ProofHolds, app, x
<1> QED BY <1>8, <1>9

\* A journal and a catalog that tell the same story pass the checks of an opening.
LEMMA StoryLoads ==
  ASSUME NEW j \in Journal, NEW c \in Catalog, CatalogWell(c), JournalWell(j, c), AnsweredIn(j),
         Story(j, c), ~Forgotten(j, c), ~Buried(j),
         j.pending # None => Reached(c, j.pending) \/ c.revision = j.pending.revision
  PROVE  Loadable(j, c)
<1> DEFINE q == j.pending
<1>1. /\ j.completed \subseteq Completion /\ j.apps \in [Proposal -> Seq(Application)]
      /\ j.commands \in [Command -> Binding \union {None}] /\ None \notin Proposal
      /\ c.status \in [Proposal -> Status]
  BY JournalType, OutsideAssumption DEF Catalog
<1>2. ASSUME q # None
      PROVE  /\ q.proposal \in Proposal /\ q.op \in Operation /\ Planned(j, c, q)
             /\ c.revision = q.revision => Before(c, q)
  BY <1>2, JournalType, PendingType DEF JournalWell
<1>3. ApplicationsHold(j, c)
  <2>1. ASSUME NEW p \in Proposal, j.apps[p] # <<>>
        PROVE  ChainHolds(j, c, j.apps[p], None) /\ InEffect(j, c, p)
    <3>1. ChainHolds(j, c, j.apps[p], None)
      BY CheckedChainHolds DEF Checked
    <3>2. ActiveBefore(j, c, TargetOf(p)) = p
      BY <2>1 DEF JournalWell, ChainsWell
    <3>3. CASE ~(q # None /\ TargetOf(q.proposal) = TargetOf(p))
      BY <3>1, <3>2, <3>3, <1>1 DEF InEffect, ActiveBefore
    <3>4. CASE q # None /\ TargetOf(q.proposal) = TargetOf(p)
      <4>1. q.active = p
        BY <3>2, <3>4 DEF ActiveBefore
      <4>2. CASE Undone(c, q)
        BY <4>1, <4>2, <3>1, <3>4, <1>1 DEF Undone, InEffect
      <4>3. CASE Reached(c, q) /\ q.op = "promote"
        <5>1. After(c, q)
          BY <4>3, <3>4, ReachedIs DEF Reached
        <5>2. c.active[TargetOf(p)] = q.proposal /\ Replaced(c, q.proposal) = p
          BY <5>1, <4>1, <4>3, <3>4 DEF After
        <5>3. q.proposal # None
          BY <1>1, <1>2, <3>4
        <5> QED BY <5>2, <5>3, <3>1 DEF InEffect
      <4>4. CASE Reached(c, q) /\ q.op = "rollback"
        <5>1. q.proposal = p
          BY <4>1, <4>4, <3>4, <1>2 DEF Planned
        <5> QED BY <5>1, <4>4, <3>1, <3>4 DEF InEffect, Reached
      <4> QED BY <4>2, <4>3, <4>4, <3>4, <1>2 DEF Story, Settled, Reached, Operation
    <3> QED BY <3>3, <3>4
  <2> QED BY <2>1 DEF ApplicationsHold
<1>4. PendingHolds(j, c)
  <2> SUFFICES ASSUME q # None PROVE PendingHolds(j, c)
    BY DEF PendingHolds
  <2> DEFINE p == q.proposal
             previous == IF q.op = "promote"
                         THEN IF q.active = None THEN <<>> ELSE j.apps[q.active]
                         ELSE IF q.op = "rollback" THEN j.apps[p] ELSE q.previous
  <2>1. p \in Proposal /\ q.op \in Operation /\ Planned(j, c, q) /\ RollbackIsSafe(q)
    BY <1>2 DEF Story
  <2>2. c.revision = q.revision => Before(c, q)
    BY <1>2
  <2>3. Known(c, p)
    BY <2>1, <2>2 DEF Reached, OutcomeReached, Before, Known, Operation
  <2>4. q.previous = previous
    BY <2>1 DEF Planned, ProofsFor, Operation
  <2>5. previous # <<>> => q.before = previous[1].after
    BY <2>1, <2>4 DEF Planned, RollbackIsSafe
  <2>6. q.after = IF q.op = "rollback" /\ previous # <<>> THEN previous[1].before ELSE Definition[p]
    BY <2>1, <2>4 DEF Planned
  <2>7. c.revision \in {q.revision, q.expected}
    BY DEF Reached, OutcomeReached
  <2>8. c.revision = q.revision => c.active[TargetOf(p)] = IF q.op = "promote" THEN q.active ELSE p
    BY <2>1, <2>2 DEF Before, Planned, Operation
  <2>9. q.op = "reconcile" =>
          /\ CanRollBack(c, p) /\ ChainHolds(j, c, previous, q.command)
          /\ Replaced(c, p) = IF previous = <<>> THEN None ELSE previous[1].proposal
    <3> SUFFICES ASSUME q.op = "reconcile"
                 PROVE  /\ CanRollBack(c, p) /\ ChainHolds(j, c, previous, q.command)
                        /\ Replaced(c, p) = IF previous = <<>> THEN None ELSE previous[1].proposal
      OBVIOUS
    <3>1. Before(c, q)
      BY <2>2 DEF Reached
    <3>2. CanRollBack(c, p)
      BY <3>1, <2>1 DEF Before, Planned, CanRollBack
    <3>3. ChainHolds(j, c, previous, q.command)
      BY CheckedChainHolds DEF Checked, Reconciling
    <3>4. Replaced(c, p) = IF previous = <<>> THEN None ELSE previous[1].proposal
      BY <2>1 DEF Story, CapturesOwned, Reconciling, Planned
    <3> QED BY <3>2, <3>3, <3>4
  <2> HIDE DEF previous
  <2> QED BY <2>3, <2>4, <2>5, <2>6, <2>7, <2>8, <2>9 DEF PendingHolds, previous
<1>5. CompletionsHold(j, c)
  <2>1. ASSUME NEW done \in j.completed
        PROVE  /\ Known(c, done.proposal) /\ done.from <= done.to /\ done.to <= c.revision
               /\ IsBound(j, done.command) \/ done.command \in Captured(j, c)
               /\ done.op # "reconcile" =>
                    (done.status \in {"applied", "rolled-back"} <=> HasAudit(c, done))
    <3>1. CompletionFits(j, c, done) /\ done \in CompletionsOf(j, done.command)
      BY DEF Story, CompletionsFit, CompletionsOf
    <3>2. done.command \in Command \union LegacyId
      BY <1>1 DEF Completion
    <3>3. Known(c, done.proposal)
      BY <3>1 DEF CompletionFits, Known, Forgotten
    <3>4. done.command \in Command => IsBound(j, done.command)
      BY <3>1 DEF AnsweredIn, IsBound
    <3>5. ASSUME done.command \in LegacyId PROVE done.command \in Captured(j, c)
      <4>1. PICK s \in ChainsOf(j) : \E i \in DOMAIN s : s[i].command = done.command
        BY <3>1, <3>5 DEF CompletionFits, Rests
      <4>2. PICK i \in DOMAIN s : s[i].command = done.command
        BY <4>1
      <4>3. ASSUME NEW p \in Proposal, s = j.apps[p] PROVE done.command \in Captured(j, c)
        <5>1. IsCaptured(j, c, j.apps[p], i, None)
          BY <4>2, <4>3, <3>5, CapturedIs DEF Checked
        <5> QED BY <5>1, <4>2, <4>3, <3>5 DEF Captured
      <4>4. CASE Reconciling(j) /\ s = q.previous
        <5>1. IsCaptured(j, c, q.previous, i, q.command)
          BY <4>2, <4>4, <3>5, CapturedIs DEF Checked
        <5> QED BY <5>1, <4>2, <4>4, <3>5 DEF Captured, Reconciling
      <4> QED BY <4>3, <4>4, ChainsAre
    <3> QED BY <3>1, <3>2, <3>3, <3>4, <3>5 DEF CompletionFits
  <2> QED BY <2>1 DEF CompletionsHold, HasAudit
<1>6. BindingsHold(j, c)
  <2>1. ASSUME NEW command \in Command, j.commands[command] # None
        PROVE  /\ \E done \in CompletionsOf(j, command) :
                    /\ done.op = j.commands[command].op
                    /\ done.proposal = j.commands[command].proposal
               /\ IsHistoryOf(j.commands[command].snapshot, c.status[j.commands[command].proposal])
    <3>1. BindingFits(j, c, command)
      BY <2>1 DEF Story, BindingsFit
    <3>2. PICK done \in CompletionsOf(j, command) :
            done.op = j.commands[command].op /\ done.proposal = j.commands[command].proposal
      BY <3>1 DEF BindingFits
    <3>3. c.status[j.commands[command].proposal] # "deleted"
      BY <3>2 DEF Forgotten, CompletionsOf
    <3> QED BY <3>1, <3>2, <3>3 DEF BindingFits, Recalls
  <2> QED BY <2>1 DEF BindingsHold
<1>7. AuditsOwned(j, c)
  BY DEF Story
<1> QED BY <1>3, <1>4, <1>5, <1>6, <1>7 DEF Loadable

LEMMA InvariantReopens == IInv /\ Answered /\ RInv => Reopens
<1> SUFFICES ASSUME IInv, Answered, RInv, ~Reopens PROVE FALSE
  OBVIOUS
<1>1. /\ journal \in Journal /\ catalog \in Catalog /\ CatalogWell(catalog)
      /\ JournalWell(journal, catalog) /\ AnsweredIn(journal) /\ Story(journal, catalog)
  BY DEF IInv, TypeOK, CatalogsWell, JournalsWell, Answered, RInv, StoryHolds
<1>2. /\ ~Forgotten(journal, catalog) /\ ~Buried(journal)
      /\ ~(journal.pending # None /\ blind) /\ ~Loadable(journal, catalog)
  BY DEF Reopens
<1>3. journal.pending # None =>
        Reached(catalog, journal.pending) \/ catalog.revision = journal.pending.revision
  BY <1>2 DEF RInv, Followed
<1> QED BY <1>1, <1>2, <1>3, StoryLoads
-----------------------------------------------------------------------------
(* What the steps make of it.                                              *)

\* A step that leaves the account and the catalog alone.
LEMMA Stays ==
  ASSUME IInv, RInv,
         journal'.pending = journal.pending, journal'.apps = journal.apps,
         journal'.completed = journal.completed, journal'.commands = journal.commands,
         UNCHANGED <<catalog, blind>>, memory' \in {memory, catalog},
         \A v \in previews' : v \in previews \/ RollbackIsSafe(v),
         pc' \in Acting => pc \in Acting,
         pc' \in {"record", "conclude"} =>
           pc' = pc \/ (pc' = "record" /\ journal.pending.op = "reconcile")
  PROVE  RInv'
<1>1. StoryHolds'
  <2>1. Story(journal', catalog)
    BY StorySame DEF RInv, StoryHolds
  <2> QED BY <2>1 DEF StoryHolds
<1>2. CatalogGoes'
  BY GoesOnItself DEF RInv, CatalogGoes, IInv, TypeOK
<1>3. PreviewsSafe'
  BY DEF RInv, PreviewsSafe
<1>4. Followed'
  <2>1. pc' \in Acting => CommandIsFree(catalog', journal'.pending.command)
    BY DEF RInv, Followed
  <2>2. pc' \in {"record", "conclude"} =>
          IF journal'.pending.op = "reconcile" THEN pc' = "record"
          ELSE memory' = catalog' /\ Reached(catalog', journal'.pending)
    BY DEF RInv, Followed
  <2>3. journal'.pending # None /\ ~blind' =>
          Reached(catalog', journal'.pending) \/ catalog'.revision = journal'.pending.revision
    BY DEF RInv, Followed
  <2> QED BY <2>1, <2>2, <2>3 DEF Followed
<1> QED BY <1>1, <1>2, <1>3, <1>4 DEF RInv

\* When nothing is pending and the coordinator waits, nothing is said of where it is.
LEMMA Waits ==
  ASSUME pc' = "idle", journal'.pending = None
  PROVE  Followed'
BY DEF Followed, Acting

LEMMA CatalogOnlyTold ==
  ASSUME IInv, RInv, NEW p \in Proposal,
         \/ Propose(p) \/ BeginEvaluation(p) \/ Evaluate(p) \/ Reject(p) \/ Archive(p)
         \/ Unarchive(p) \/ Delete(p)
  PROVE  RInv'
<1>1. PICK c \in Catalog : Goes(memory, c) /\ SameNamed(memory, c) /\ Mutate(c)
  BY QuietlyGoes
<1>2. /\ Idle /\ ~indeterminate /\ UNCHANGED <<journal, pc, previews>>
      /\ \/ memory' = memory /\ catalog' \in {catalog, c}
         \/ memory' = c /\ catalog' = c
  BY <1>1 DEF Mutate, Commit, CommitFails
<1>3. /\ pc = "idle" /\ journal.pending = None /\ memory = catalog
      /\ journal \in Journal /\ catalog \in Catalog
  BY <1>2, IdleMeans DEF IInv, TypeOK, CatalogsWell
<1>4. StoryHolds'
  <2>1. Story(journal, catalog) /\ Story(journal, c)
    BY <1>1, <1>3, QuietStory DEF RInv, StoryHolds
  <2> QED BY <2>1, <1>2 DEF StoryHolds
<1>5. CatalogGoes'
  BY <1>1, <1>2, <1>3, GoesOnItself DEF CatalogGoes
<1>6. PreviewsSafe'
  BY <1>2 DEF RInv, PreviewsSafe
<1>7. Followed'
  BY <1>2, <1>3, Waits
<1> QED BY <1>4, <1>5, <1>6, <1>7 DEF RInv

LEMMA PreviewTold ==
  ASSUME IInv, RInv,
         \/ \E p \in Proposal : PreviewPromotion(p) \/ PreviewRollback(p)
         \/ \E v \in previews : ExpirePreview(v)
  PROVE  RInv'
<1>1. UNCHANGED <<journal, catalog, memory, pc, blind>>
  BY DEF PreviewPromotion, PreviewRollback, Mint, ExpirePreview
<1>2. \A v \in previews' : v \in previews \/ RollbackIsSafe(v)
  <2>1. ASSUME NEW p \in Proposal, PreviewPromotion(p)
        PROVE  \A v \in previews' : v \in previews \/ RollbackIsSafe(v)
    BY <2>1 DEF PreviewPromotion, Mint, RollbackIsSafe
  <2>2. ASSUME NEW p \in Proposal, PreviewRollback(p)
        PROVE  \A v \in previews' : v \in previews \/ RollbackIsSafe(v)
    BY <2>2 DEF PreviewRollback, Mint, RollbackIsSafe
  <2>3. ASSUME NEW u \in previews, ExpirePreview(u)
        PROVE  \A v \in previews' : v \in previews \/ RollbackIsSafe(v)
    BY <2>3 DEF ExpirePreview
  <2> QED BY <2>1, <2>2, <2>3
<1> QED BY <1>1, <1>2, Stays

\* An operation begins, and its journal may or may not be written.
LEMMA Begins ==
  ASSUME IInv, RInv, Idle, NEW k \in Journal, NEW left \in SUBSET previews, Start(k, left),
         Before(memory, k.pending), Story(k, catalog), CommandIsFree(catalog, k.pending.command)
  PROVE  RInv'
<1>1. /\ \/ journal' = k /\ pc' = "apply"
         \/ journal' \in {journal, k} /\ pc' = "idle"
      /\ blind' = indeterminate /\ UNCHANGED <<catalog, memory>> /\ previews' \subseteq previews
  BY DEF Start, Persist, PersistFails
<1>2. journal.pending = None /\ (~indeterminate => memory = catalog)
  BY IdleMeans DEF IInv, CatalogsWell
<1>3. StoryHolds'
  BY <1>1 DEF RInv, StoryHolds
<1>4. CatalogGoes' /\ PreviewsSafe'
  BY <1>1 DEF RInv, CatalogGoes, PreviewsSafe
<1>5. Followed'
  <2>1. pc' \in Acting => CommandIsFree(catalog', journal'.pending.command)
    BY <1>1 DEF Acting
  <2>2. pc' \notin {"record", "conclude"}
    BY <1>1
  <2>3. journal'.pending # None /\ ~blind' => catalog'.revision = journal'.pending.revision
    BY <1>1, <1>2 DEF Before
  <2> QED BY <2>1, <2>2, <2>3 DEF Followed
<1> QED BY <1>3, <1>4, <1>5 DEF RInv

LEMMA ExecuteTold ==
  ASSUME IInv, Answered, RInv, NEW command \in Command, NEW v \in previews, Execute(command, v)
  PROVE  RInv'
<1> DEFINE p == v.proposal
           t == TargetOf(p)
           a == Latest((IF v.op = "promote" THEN Promote(memory, p, command)
                        ELSE RollBack(memory, p, command)).audits[p])
           q == [command |-> command, op |-> v.op, proposal |-> p, revision |-> v.revision,
                 expected |-> v.revision + 1, before |-> v.before, after |-> v.after,
                 active |-> v.active, previous |-> v.previous, audit |-> a,
                 base |-> IF t = "prompt" THEN git.head ELSE None]
           j == [state EXCEPT !.pending = q]
<1>1. /\ Idle /\ Unanswered(command) /\ Start(j, previews \ {v}) /\ memory.revision = v.revision
      /\ \/ v.op = "promote" /\ memory.status[p] = "passed"
         \/ v.op = "rollback" /\ CanRollBack(memory, p)
      /\ memory.active[t] = v.active
  BY DEF Execute
<1>2. /\ state = journal /\ journal.pending = None /\ TypeOK /\ Agree(catalog, memory)
      /\ journal.commands[command] = None
  BY <1>1, IdleMeans DEF IInv, Unanswered
<1>3. /\ p \in Proposal /\ v.op \in {"promote", "rollback"} /\ v.revision \in Nat
      /\ v.before \in Holds /\ v.after \in Holds /\ v.active \in Proposal \union {None}
      /\ v.previous \in Seq(Application) /\ t \in Target
  BY <1>2, Targets DEF TypeOK, Preview
<1>4. /\ memory \in Catalog /\ CatalogWell(memory) /\ state \in Journal /\ git.head \in Nat
      /\ catalog \in Catalog
  BY <1>2 DEF IInv, TypeOK, CatalogsWell, Git
<1>5. a = [kind |-> IF v.op = "promote" THEN "promotion" ELSE "rollback", command |-> command,
           restored |-> IF v.op = "promote" THEN v.active ELSE Replaced(memory, p)]
      /\ a \in Audit
  <2>1. CASE v.op = "promote"
    BY <2>1, <1>1, <1>3, <1>4, AuditsSame
  <2>2. CASE v.op = "rollback"
    BY <2>2, <1>1, <1>3, <1>4, AuditsSame DEF CanRollBack
  <2> QED BY <2>1, <2>2, <1>3
<1> HIDE DEF a
<1>6. q \in Pending
  <2>1. v.revision + 1 \in Nat /\ v.op \in Operation
    BY <1>3 DEF Operation
  <2> QED BY <2>1, <1>3, <1>4, <1>5 DEF Pending
<1>7. /\ q.command = command /\ q.op = v.op /\ q.proposal = p /\ q.revision = v.revision
      /\ q.before = v.before /\ q.active = v.active /\ q.previous = v.previous /\ q.audit = a
  OBVIOUS
<1> HIDE DEF q
<1>8. j \in Journal /\ j.apps = state.apps /\ j.pending = q
      /\ j.commands = state.commands /\ j.completed = state.completed
  BY <1>4, <1>6 DEF Journal
<1> HIDE DEF j
<1>9. q # None
  BY <1>6, NoneAssumption
<1>10. Before(memory, q)
  BY <1>1, <1>3, <1>5, <1>7 DEF Before, CanRollBack
<1>11. RollbackIsSafe(q)
  BY <1>7 DEF RInv, PreviewsSafe, RollbackIsSafe
<1>12. Story(j, catalog) /\ CommandIsFree(catalog, j.pending.command)
  <2>1. catalog.active[TargetOf(q.proposal)] = q.active
    BY <1>1, <1>2, <1>7 DEF Agree
  <2>2. q.op # "reconcile"
    BY <1>3, <1>7
  <2> QED BY <2>1, <2>2, <1>2, <1>4, <1>7, <1>8, <1>9, <1>11, BegunStory
       DEF RInv, StoryHolds, Answered
<1> QED
  <2>1. previews \ {v} \in SUBSET previews
    OBVIOUS
  <2> QED BY <2>1, <1>1, <1>8, <1>10, <1>12, Begins

\* The completion of what a chain captured.
LEMMA CapturesOne ==
  ASSUME NEW app \in Application, app.command \in LegacyId, state.apps[app.proposal] = <<>>
  PROVE  CapturedCompletion(<<app>>) = {CaptureOf(app)}
<1>1. DOMAIN <<app>> = {1} /\ <<app>>[1] = app
  OBVIOUS
<1>2. {i \in DOMAIN <<app>> : /\ <<app>>[i].command \in LegacyId
                              /\ state.apps[<<app>>[i].proposal] = <<>>} = {1}
  BY <1>1
<1>3. {<<app>>[i] : i \in {1}} = {app}
  BY <1>1
<1> QED BY <1>2, <1>3 DEF CapturedCompletion, CaptureOf

\* Below a promotion that has no proof there is nothing, or what the reconciliation captures.
LEMMA PredecessorCaptured ==
  ASSUME IInv, RInv, NEW command \in Command, NEW p \in Proposal, Reapply(command, p)
  PROVE  LET chain == Predecessor(p, command) IN
         \/ chain = <<>> /\ Replaced(catalog, p) = None /\ CapturedCompletion(chain) = {}
         \/ \E app \in Application :
              /\ chain = <<app>> /\ app.command = LegacyOf(command)
              /\ app.status = "adopted" /\ ~app.safe /\ app.before = app.after
              /\ app.after = Definition[app.proposal] /\ app.revision <= catalog.revision
              /\ HasPromotion(catalog, app.proposal)
              /\ CapturedCompletion(chain) = {CaptureOf(app)}
<1> DEFINE t == TargetOf(p)
           below == Replaced(memory, p)
           chain == Predecessor(p, command)
           app == [proposal |-> below, command |-> LegacyOf(command), status |-> "adopted",
                   before |-> live[t], after |-> live[t], safe |-> FALSE,
                   revision |-> memory.revision]
<1>1. /\ Reconcilable(command, p) /\ Idle
      /\ below # None => live[t] = IF state.apps[below] # <<>> THEN state.apps[below][1].after
                                   ELSE Definition[below]
  BY DEF Reapply, Reconcilable
<1>2. /\ state = journal /\ Agree(catalog, memory) /\ TypeOK /\ PromptWell /\ CatalogsWell
      /\ memory \in Catalog /\ memory.revision <= catalog.revision
  BY <1>1, IdleMeans DEF IInv, TypeOK, RInv, CatalogGoes, Goes
<1>3. Below(p, chain) /\ Replaced(catalog, p) = below
  BY <1>1, <1>2, PredecessorIs DEF Agree
<1>4. CASE below = None
  <2>1. chain = <<>>
    BY <1>3, <1>4 DEF Below
  <2> HIDE DEF chain
  <2>2. CapturedCompletion(chain) = {}
    BY <2>1 DEF CapturedCompletion
  <2> QED BY <2>1, <2>2, <1>3, <1>4 DEF chain
<1>5. CASE below # None
  <2>1. below \in Proposal /\ HasPromotion(catalog, below)
    BY <1>2, <1>3, <1>5, ReplacedType DEF CatalogsWell, CatalogWell
  <2>2. state.apps[below] = <<>>
    BY <1>3, <1>5 DEF Below
  <2>3. LegacyOf(command) \in LegacyId
    BY LegacyIds
  <2>4. app \in Application
    <3>1. live[t] \in Holds /\ memory.revision \in Nat
      BY <1>2, TargetTypes
    <3> QED BY <3>1, <2>1, <2>3 DEF Application
  <2>5. chain = <<app>>
    BY <2>2, <1>5 DEF Predecessor
  <2>6. /\ app.proposal = below /\ app.command = LegacyOf(command) /\ app.status = "adopted"
        /\ ~app.safe /\ app.before = live[t] /\ app.after = live[t]
        /\ app.revision = memory.revision
    OBVIOUS
  <2> HIDE DEF app, chain
  <2>7. live[t] = Definition[below]
    BY <1>1, <1>5, <2>2
  <2>8. CapturedCompletion(<<app>>) = {CaptureOf(app)}
    BY <2>2, <2>3, <2>4, <2>6, CapturesOne
  <2>9. /\ app \in Application /\ app.command = LegacyOf(command)
        /\ app.status = "adopted" /\ ~app.safe /\ app.before = app.after
        /\ app.after = Definition[app.proposal]
        /\ HasPromotion(catalog, app.proposal) /\ chain = <<app>>
        /\ CapturedCompletion(chain) = {CaptureOf(app)}
    BY <2>1, <2>4, <2>5, <2>6, <2>7, <2>8, Zenon
  <2>10. app.revision <= catalog.revision
    BY <1>2, <2>6
  <2> QED BY <2>9, <2>10, Zenon DEF chain
<1> QED BY <1>4, <1>5

LEMMA ReapplyTold ==
  ASSUME IInv, Answered, RInv, NEW command \in Command, NEW p \in Proposal, Reapply(command, p)
  PROVE  RInv'
<1> DEFINE t == TargetOf(p)
           chain == Predecessor(p, command)
           more == state.completed \union CapturedCompletion(chain)
           q == [command |-> command, op |-> "reconcile", proposal |-> p,
                 revision |-> memory.revision, expected |-> memory.revision,
                 before |-> live[t], after |-> Definition[p], active |-> p,
                 previous |-> chain, audit |-> None,
                 base |-> IF t = "prompt" THEN git.head ELSE None]
           j == [state EXCEPT !.completed = more, !.pending = q]
<1>1. /\ Idle /\ Start(j, previews) /\ Unanswered(command)
      /\ memory.status[p] = "promoted" /\ memory.active[t] = p
  BY DEF Reapply, Reconcilable, CanRollBack
<1>2. /\ state = journal /\ TypeOK /\ PromptWell /\ Agree(catalog, memory) /\ state \in Journal
      /\ git.head \in Nat /\ journal.pending = None /\ journal.commands[command] = None
      /\ catalog \in Catalog /\ CatalogWell(catalog)
  BY <1>1, IdleMeans DEF IInv, TypeOK, Git, Unanswered, CatalogsWell
<1>3. /\ live[t] \in Holds /\ Definition[p] \in Content /\ Content \subseteq Holds
      /\ memory.revision \in Nat
  BY <1>2, TargetTypes
<1>4. \/ chain = <<>> /\ Replaced(catalog, p) = None /\ CapturedCompletion(chain) = {}
      \/ \E app \in Application :
           /\ chain = <<app>> /\ app.command = LegacyOf(command)
           /\ app.status = "adopted" /\ ~app.safe /\ app.before = app.after
           /\ app.after = Definition[app.proposal] /\ app.revision <= catalog.revision
           /\ HasPromotion(catalog, app.proposal)
           /\ CapturedCompletion(chain) = {CaptureOf(app)}
  BY PredecessorCaptured
<1> HIDE DEF chain
<1>5. chain \in Seq(Application) /\ CapturedCompletion(chain) \subseteq Completion
  <2>1. CASE chain = <<>> /\ CapturedCompletion(chain) = {}
    BY <2>1
  <2>2. ASSUME NEW app \in Application, chain = <<app>>, CapturedCompletion(chain) = {CaptureOf(app)}
        PROVE  chain \in Seq(Application) /\ CapturedCompletion(chain) \subseteq Completion
    <3>1. CaptureOf(app) \in Completion
      BY DEF CaptureOf, Application, Completion, Operation, Outcome
    <3> QED BY <3>1, <2>2
  <2> QED BY <1>4, <2>1, <2>2
<1>6. more \subseteq Completion
  BY <1>2, <1>5, JournalType
<1> HIDE DEF more
<1>7. q \in Pending
  <2>1. "reconcile" \in Operation
    BY DEF Operation
  <2> QED BY <2>1, <1>2, <1>3, <1>5 DEF Pending
<1>8. /\ q.command = command /\ q.op = "reconcile" /\ q.proposal = p
      /\ q.revision = memory.revision /\ q.active = p /\ q.previous = chain
  OBVIOUS
<1> HIDE DEF q
<1>9. j \in Journal /\ j.apps = state.apps /\ j.pending = q
      /\ j.commands = state.commands /\ j.completed = more
  BY <1>2, <1>6, <1>7 DEF Journal
<1>10. Start(j, previews)
  BY <1>1 DEF more, q, chain
<1> HIDE DEF j
<1>11. Before(memory, j.pending)
  BY <1>1, <1>8, <1>9 DEF Before
<1>12. j.pending # None
  BY <1>7, <1>9, NoneAssumption
<1>13. \/ /\ j.pending.previous = <<>> /\ j.completed = journal.completed
          /\ Replaced(catalog, j.pending.proposal) = None
       \/ \E app \in Application :
            /\ j.pending.previous = <<app>> /\ IsCapture(catalog, j.pending, app)
            /\ j.completed = journal.completed \union {CaptureOf(app)}
  <2>1. CASE chain = <<>> /\ Replaced(catalog, p) = None /\ CapturedCompletion(chain) = {}
    BY <2>1, <1>2, <1>8, <1>9 DEF more
  <2>2. ASSUME NEW app \in Application, chain = <<app>>, app.command = LegacyOf(command),
               app.status = "adopted" /\ ~app.safe /\ app.before = app.after,
               app.after = Definition[app.proposal], app.revision <= catalog.revision,
               HasPromotion(catalog, app.proposal), CapturedCompletion(chain) = {CaptureOf(app)}
        PROVE  /\ j.pending.previous = <<app>> /\ IsCapture(catalog, j.pending, app)
               /\ j.completed = journal.completed \union {CaptureOf(app)}
    BY <2>2, <1>2, <1>8, <1>9 DEF more, IsCapture
  <2> QED BY <1>4, <2>1, <2>2
<1>14. Story(j, catalog) /\ CommandIsFree(catalog, j.pending.command)
  <2>1. catalog.active[TargetOf(q.proposal)] = q.active
    BY <1>1, <1>2, <1>8 DEF Agree
  <2>2. j.pending.op = "reconcile" /\ journal.commands[j.pending.command] = None
    BY <1>2, <1>8, <1>9
  <2> QED BY <2>1, <2>2, <1>2, <1>9, <1>12, <1>13, ReapplyStory DEF RInv, StoryHolds, Answered
<1> QED
  <2>1. previews \in SUBSET previews
    OBVIOUS
  <2> QED BY <2>1, <1>1, <1>9, <1>10, <1>11, <1>14, Begins

LEMMA AdoptTold ==
  ASSUME IInv, Answered, RInv, NEW command \in Command, NEW p \in Proposal, Adopt(command, p)
  PROVE  RInv'
<1> DEFINE t == TargetOf(p)
           chain == Predecessor(p, command)
           now == live[t]
           before == IF chain = <<>> THEN now ELSE chain[1].after
           app == [proposal |-> p, command |-> command, status |-> "adopted", before |-> before,
                   after |-> now, safe |-> chain # <<>>, revision |-> memory.revision]
           done == [command |-> command, op |-> "reconcile", proposal |-> p,
                    status |-> "adopted", before |-> before, after |-> now,
                    from |-> memory.revision, to |-> memory.revision]
           binding == [op |-> "reconcile", proposal |-> p, snapshot |-> memory.status[p],
                       status |-> "adopted"]
           apps == [Forget(state.apps, chain) EXCEPT ![p] = <<app>> \o chain]
           more == state.completed \union {done}
           j == [state EXCEPT !.apps = apps, !.completed = more, !.commands[command] = binding]
<1>1. /\ Reconcilable(command, p) /\ Idle /\ now = Definition[p]
      /\ Replaced(memory, p) # None => state.apps[Replaced(memory, p)] # <<>>
      /\ journal' \in {journal, j}
      /\ UNCHANGED <<catalog, memory, previews, pc>>
  <2>1. /\ Reconcilable(command, p) /\ now = Definition[p]
        /\ Replaced(memory, p) # None => state.apps[Replaced(memory, p)] # <<>>
        /\ Persist(j) \/ PersistFails(j)
        /\ UNCHANGED <<catalog, memory, previews, pc>>
    BY Zenon DEF Adopt
  <2> HIDE DEF j
  <2>2. journal' \in {journal, j}
    BY <2>1 DEF Persist, PersistFails
  <2> QED BY <2>1, <2>2 DEF Reconcilable
<1>2. /\ memory.active[t] = p /\ memory.status[p] = "promoted" /\ state.apps[p] = <<>>
      /\ state.commands[command] = None
  BY <1>1 DEF Reconcilable, CanRollBack, Unanswered
<1>3. /\ pc = "idle" /\ state = journal /\ journal.pending = None /\ Agree(catalog, memory)
      /\ TypeOK /\ PromptWell /\ journal \in Journal /\ catalog \in Catalog /\ CatalogWell(catalog)
  BY <1>1, IdleMeans DEF IInv, TypeOK, CatalogsWell
<1>4. /\ HasPromotion(catalog, p) /\ Moves("promoted", catalog.status[p])
      /\ memory.revision <= catalog.revision
  <2>1. catalog.active[t] = p /\ t \in Target /\ p # None
    BY <1>2, <1>3, Targets, OutsideAssumption DEF Agree
  <2>2. HasPromotion(catalog, p)
    BY <2>1, <1>3 DEF CatalogWell
  <2> QED BY <2>2, <1>2 DEF RInv, CatalogGoes, Goes
<1>5. chain = <<>>
  <2>1. Below(p, chain)
    BY <1>1, PredecessorIs
  <2> HIDE DEF chain
  <2>2. Replaced(memory, p) = None
    BY <2>1, <1>1, Zenon DEF Below
  <2> QED BY <2>1, <2>2 DEF Below
<1>6. now \in Holds /\ memory.revision \in Nat /\ memory.status[p] \in Status
  BY <1>3, TargetTypes
<1> HIDE DEF chain
<1>7. before = now
  BY <1>5
<1> HIDE DEF before
<1>8. app \in Application /\ done \in Completion /\ binding \in Binding
  BY <1>6, <1>7 DEF Application, Completion, Binding, Operation, Outcome
<1>9. /\ app.proposal = p /\ app.command = command /\ app.status = "adopted"
      /\ app.before = now /\ app.after = now /\ app.revision = memory.revision
      /\ done.command = command /\ done.op = "reconcile" /\ done.proposal = p
      /\ done.status = "adopted" /\ done.before = now /\ done.after = now
      /\ done.from = memory.revision /\ done.to = memory.revision
      /\ binding.op = "reconcile" /\ binding.proposal = p /\ binding.status = "adopted"
      /\ binding.snapshot = "promoted"
  BY <1>2, <1>7
<1>10. ~app.safe
  BY <1>5
<1> HIDE DEF app, done, binding, now
<1>11. apps = [journal.apps EXCEPT ![p] = <<app>>] /\ more = journal.completed \union {done}
       /\ <<app>> \in Seq(Application)
  <2>1. <<app>> \o chain = <<app>> /\ Forget(state.apps, chain) = state.apps
    BY <1>5, <1>8 DEF Forget
  <2>2. <<app>> \in Seq(Application)
    BY <1>8
  <2>3. apps = [journal.apps EXCEPT ![p] = <<app>>]
    BY <2>1, <1>3, Zenon
  <2> QED BY <2>2, <2>3, <1>3, Zenon
<1> HIDE DEF apps, more
<1>12. /\ apps \in [Proposal -> Seq(Application)] /\ more \subseteq Completion
       /\ [journal.commands EXCEPT ![command] = binding] \in [Command -> Binding \union {None}]
  BY <1>3, <1>8, <1>11, JournalType
<1>13. j \in Journal /\ j.pending = None /\ j.apps = apps /\ j.completed = more
       /\ j.commands = [journal.commands EXCEPT ![command] = binding]
  <2>1. j = [state EXCEPT !.apps = apps, !.completed = more,
                          !.commands = [state.commands EXCEPT ![command] = binding]]
    BY <1>3 DEF Journal
  <2> HIDE DEF j
  <2> QED BY <2>1, <1>3, <1>12 DEF Journal
<1> HIDE DEF j
<1>14. Answering(journal, j, command, done, binding)
  <2>1. binding # None
    BY <1>8, NoneAssumption
  <2> QED BY <2>1, <1>2, <1>3, <1>9, <1>11, <1>13 DEF Answering
<1>15. Story(j, catalog)
  <2>1. app.after = Definition[p] /\ app.revision <= catalog.revision
    BY <1>1, <1>4, <1>9
  <2>2. Story(journal, catalog) /\ AnsweredIn(journal)
    BY DEF RInv, StoryHolds, Answered
  <2>3. /\ journal.apps[p] = <<>> /\ j.apps = [journal.apps EXCEPT ![p] = <<app>>]
        /\ j.completed = journal.completed \union {done}
    BY <1>2, <1>3, <1>11, <1>13
  <2>4. /\ done.op = "reconcile" /\ done.proposal = p /\ done.status = "adopted"
        /\ done.before = app.before /\ done.after = app.after
        /\ done.from = app.revision /\ done.to = app.revision
    BY <1>9
  <2>5. /\ app.proposal = p /\ app.command = command /\ app.status = "adopted" /\ ~app.safe
        /\ binding.status = "adopted" /\ binding.snapshot = "promoted"
    BY <1>9, <1>10, Zenon
  <2> QED BY <2>1, <2>2, <2>3, <2>4, <2>5, <1>3, <1>4, <1>8, <1>13, <1>14, AdoptStory
<1>16. StoryHolds'
  BY <1>1, <1>15 DEF RInv, StoryHolds
<1>17. CatalogGoes' /\ PreviewsSafe'
  BY <1>1 DEF RInv, CatalogGoes, PreviewsSafe
<1>18. Followed'
  BY <1>1, <1>3, <1>13, Waits
<1> QED BY <1>16, <1>17, <1>18 DEF RInv

\* The operation is over, and its journal may or may not be written.
LEMMA Ends ==
  ASSUME RInv, NEW k, journal' \in {journal, k}, k.pending = None, Story(k, catalog),
         UNCHANGED <<catalog, memory, blind, previews>>, pc' \in {"idle", "down"}
  PROVE  RInv'
<1>1. StoryHolds'
  BY DEF RInv, StoryHolds
<1>2. CatalogGoes' /\ PreviewsSafe'
  BY DEF RInv, CatalogGoes, PreviewsSafe
<1>3. Followed'
  <2>1. pc' \notin Acting /\ pc' \notin {"record", "conclude"}
    BY DEF Acting
  <2>2. journal'.pending # None /\ ~blind' =>
          Reached(catalog', journal'.pending) \/ catalog'.revision = journal'.pending.revision
    BY DEF RInv, Followed
  <2> QED BY <2>1, <2>2 DEF Followed
<1> QED BY <1>1, <1>2, <1>3 DEF RInv

LEMMA WriteTold ==
  ASSUME IInv, RInv, ApplyStrategy \/ WritePrompt \/ StagePrompt \/ CommitPrompt \/ Verify
  PROVE  RInv'
<1>1. pc \in Acting /\ UNCHANGED <<journal, catalog, memory, previews, blind>>
  BY DEF ApplyStrategy, WritePrompt, StagePrompt, CommitPrompt, Verify, Step, Acting, Touch
<1>2. state = journal
  BY <1>1, ActingMeans
<1>3. pc' # "conclude" /\ (pc' = "record" => journal.pending.op = "reconcile")
  <2>1. CASE Verify
    BY <2>1, <1>2 DEF Verify, Step
  <2>2. CASE ApplyStrategy \/ WritePrompt \/ StagePrompt \/ CommitPrompt
    BY <2>2 DEF ApplyStrategy, WritePrompt, StagePrompt, CommitPrompt, Step
  <2> QED BY <2>1, <2>2
<1> QED BY <1>1, <1>3, Stays

\* The catalog takes the outcome of the operation, and it may or may not be known that it did.
LEMMA OutcomeTold ==
  ASSUME IInv, Answered, RInv, journal.pending # None, journal.pending.op # "reconcile",
         Before(catalog, journal.pending), CommandIsFree(catalog, journal.pending.command),
         memory = catalog, UNCHANGED <<journal, blind, previews>>,
         NEW d, d = OutcomeFor(catalog, journal.pending),
         \/ catalog' = d /\ memory' = d /\ pc' \in {"record", "conclude"}
         \/ catalog' \in {catalog, d} /\ memory' = memory /\ pc' \in {"idle", "unfinished"}
  PROVE  RInv'
<1>1. /\ journal \in Journal /\ catalog \in Catalog /\ CatalogWell(catalog)
      /\ JournalWell(journal, catalog) /\ Story(journal, catalog) /\ AnsweredIn(journal)
  BY DEF IInv, TypeOK, CatalogsWell, JournalsWell, RInv, StoryHolds, Answered
<1>2. Story(journal, d) /\ Reached(d, journal.pending) /\ Goes(catalog, d)
  BY <1>1, OutcomeStory
<1>3. d \in Catalog
  BY <1>1, OutcomeIs
<1>4. StoryHolds'
  BY <1>1, <1>2 DEF StoryHolds
<1>5. CatalogGoes' /\ PreviewsSafe'
  <2>1. Goes(d, d) /\ Goes(catalog, catalog)
    BY <1>1, <1>3, GoesOnItself
  <2>2. Goes(memory', catalog')
    BY <2>1, <1>2
  <2> QED BY <2>2 DEF RInv, CatalogGoes, PreviewsSafe
<1>6. Followed'
  <2>1. pc' \notin Acting
    BY DEF Acting
  <2>2. pc' \in {"record", "conclude"} => memory' = catalog' /\ Reached(catalog', journal'.pending)
    BY <1>2
  <2>3. ~blind' =>
          Reached(catalog', journal'.pending) \/ catalog'.revision = journal'.pending.revision
    <3>1. CASE catalog' = d
      BY <3>1, <1>2
    <3>2. CASE catalog' = catalog
      BY <3>2 DEF RInv, Followed
    <3> QED BY <3>1, <3>2
  <2> QED BY <2>1, <2>2, <2>3 DEF Followed
<1> QED BY <1>4, <1>5, <1>6 DEF RInv

LEMMA CommitCatalogTold == IInv /\ Answered /\ RInv /\ CommitCatalog => RInv'
<1> SUFFICES ASSUME IInv, Answered, RInv, CommitCatalog PROVE RInv'
  OBVIOUS
<1> DEFINE q == journal.pending
           d == OutcomeFor(catalog, q)
<1>1. pc = "promote" /\ pc \in Acting /\ UNCHANGED <<journal, previews, blind>>
  BY DEF CommitCatalog, Step, Acting
<1>2. /\ state = journal /\ q # None /\ Before(memory, q) /\ q.op # "reconcile"
      /\ CommandIsFree(catalog, q.command)
  BY <1>1, ActingMeans DEF IInv, Placed, RInv, Followed
<1>3. CASE indeterminate
  <2>1. UNCHANGED <<catalog, memory>> /\ pc' = "unfinished"
    BY <1>3 DEF CommitCatalog, Commit, CommitFails, Step
  <2> QED BY <2>1, <1>1, Stays DEF Acting
<1>4. CASE ~indeterminate
  <2>1. memory = catalog
    BY <1>4 DEF IInv, CatalogsWell
  <2>2. CatalogOutcome = d
    BY <1>2, <2>1 DEF CatalogOutcome, OutcomeFor
  <2> HIDE DEF d
  <2>3. \/ catalog' = d /\ memory' = d /\ pc' \in {"record", "conclude"}
        \/ catalog' \in {catalog, d} /\ memory' = memory /\ pc' \in {"idle", "unfinished"}
    BY <2>2, <1>4 DEF CommitCatalog, Commit, CommitFails, Step
  <2>4. d = OutcomeFor(catalog, journal.pending)
    BY DEF d
  <2> QED BY <2>1, <2>3, <2>4, <1>1, <1>2, OutcomeTold
<1> QED BY <1>3, <1>4

\* The journal is written without the operation, which happened as a whole.
LEMMA FinishTold ==
  ASSUME IInv, Answered, RInv, pc \in Settling \union {"record"}, After(memory, journal.pending),
         \/ /\ journal.pending.op # "reconcile" /\ memory = catalog
            /\ Reached(catalog, journal.pending)
         \/ /\ journal.pending.op = "reconcile" /\ memory.revision = journal.pending.revision
            /\ memory.status[journal.pending.proposal] = "promoted",
         journal' \in {journal, Finished(state, memory)},
         UNCHANGED <<catalog, memory, blind, previews>>, pc' \in {"idle", "down"}
  PROVE  RInv'
<1>1. state = journal /\ journal.pending # None /\ journal \in Journal
  BY DEF IInv, Synchronous, Placed, TypeOK, Settling
<1>2. /\ catalog \in Catalog /\ CatalogWell(catalog) /\ JournalWell(journal, catalog)
      /\ memory \in Catalog /\ Agree(catalog, memory) /\ Goes(memory, catalog)
      /\ Story(journal, catalog) /\ AnsweredIn(journal)
  BY DEF IInv, TypeOK, CatalogsWell, JournalsWell, Settling, RInv, CatalogGoes, StoryHolds, Answered
<1>3. journal.pending.op = "reconcile" => Undone(catalog, journal.pending)
  BY <1>1, <1>2 DEF Story, Settled, Reached
<1>4. Story(Finished(journal, memory), catalog)
  BY <1>1, <1>2, <1>3, FinishedStory
<1>5. Finished(journal, memory).pending = None
  BY <1>1, <1>2, FinishedIs
<1> QED BY <1>1, <1>4, <1>5, Ends

\* Or nothing of it happened.
LEMMA AbortTold ==
  ASSUME IInv, Answered, RInv, pc \in Settling \union {"refused"}, Before(memory, journal.pending),
         journal' \in {journal, Aborted(state, memory)},
         UNCHANGED <<catalog, memory, blind, previews>>, pc' \in {"idle", "down"}
  PROVE  RInv'
<1>1. state = journal /\ journal.pending # None /\ journal \in Journal
  BY DEF IInv, Synchronous, Placed, TypeOK, Settling
<1>2. /\ catalog \in Catalog /\ memory \in Catalog /\ JournalWell(journal, catalog)
      /\ Agree(catalog, memory) /\ Goes(memory, catalog)
      /\ Story(journal, catalog) /\ AnsweredIn(journal)
  BY DEF IInv, TypeOK, CatalogsWell, JournalsWell, Settling, RInv, CatalogGoes, StoryHolds, Answered
<1>3. Undone(catalog, journal.pending)
  <2>1. CASE pc = "refused"
    BY <2>1, <1>2 DEF RInv, Followed, Acting, Undone, Agree, Before
  <2>2. CASE pc \in Settling
    <3>1. memory = catalog /\ Planned(journal, catalog, journal.pending)
          /\ journal.pending.revision \in Nat
      BY <2>2, SettlingMeans, PendingType
    <3>2. ~Reached(catalog, journal.pending)
      BY <3>1 DEF Reached, OutcomeReached, Before, Planned
    <3> QED BY <3>2, <1>1, <1>2 DEF Story, Settled
  <2> QED BY <2>1, <2>2
<1>4. Story(Aborted(journal, memory), catalog)
  BY <1>1, <1>2, <1>3, AbortedStory
<1>5. Aborted(journal, memory).pending = None
  BY <1>1, <1>2, AbortedForm
<1> QED BY <1>1, <1>4, <1>5, Ends

LEMMA SavesTold == IInv /\ Answered /\ RInv /\ (Record \/ SettleRefusal \/ SettleLoss) => RInv'
<1> SUFFICES ASSUME IInv, Answered, RInv, Record \/ SettleRefusal \/ SettleLoss PROVE RInv'
  OBVIOUS
<1>1. state = journal /\ journal.pending # None /\ journal \in Journal
  BY DEF IInv, Synchronous, Placed, TypeOK, Record, SettleRefusal, SettleLoss, Step
<1>2. UNCHANGED <<catalog, memory, previews, blind>>
  BY DEF Record, SettleRefusal, SettleLoss, Save, Touch
<1>3. CASE Record
  <2>1. pc = "record" /\ pc' = "idle" /\ journal' \in {journal, Finished(state, memory)}
    BY <1>3 DEF Record, Step, Save, Persist, PersistFails
  <2>2. /\ After(memory, journal.pending)
        /\ journal.pending.op = "reconcile" => Before(memory, journal.pending)
    BY <2>1, <1>1 DEF IInv, Placed
  <2>3. \/ /\ journal.pending.op # "reconcile" /\ memory = catalog
           /\ Reached(catalog, journal.pending)
        \/ /\ journal.pending.op = "reconcile" /\ memory.revision = journal.pending.revision
           /\ memory.status[journal.pending.proposal] = "promoted"
    BY <2>1, <2>2 DEF RInv, Followed, Before
  <2> QED BY <2>1, <2>2, <2>3, <1>2, FinishTold
<1>4. CASE SettleRefusal
  <2>1. pc = "refused" /\ Before(memory, journal.pending)
    BY <1>1, <1>4 DEF IInv, Placed, Acting, SettleRefusal, Step
  <2>2. CASE live[TargetOf(state.pending.proposal)] = state.pending.before
    <3>1. journal' \in {journal, Aborted(state, memory)} /\ pc' = "idle"
      BY <2>2, <1>4 DEF SettleRefusal, Save, Persist, PersistFails, Step
    <3> QED BY <2>1, <3>1, <1>2, AbortTold
  <2>3. CASE live[TargetOf(state.pending.proposal)] # state.pending.before
    <3>1. journal' = journal /\ pc' = "lost"
      BY <2>3, <1>4 DEF SettleRefusal, Touch, Step
    <3> QED BY <3>1, <1>2, Stays DEF Acting
  <2> QED BY <2>2, <2>3
<1>5. CASE SettleLoss
  <2>1. PICK recovery \in BOOLEAN : journal' \in {journal, [state EXCEPT !.recovery = recovery]}
    BY <1>5 DEF SettleLoss, Save, Persist, PersistFails
  <2>2. /\ journal'.pending = journal.pending /\ journal'.apps = journal.apps
        /\ journal'.completed = journal.completed /\ journal'.commands = journal.commands
    BY <2>1, <1>1 DEF Journal
  <2>3. pc' = "idle"
    BY <1>5 DEF SettleLoss, Step
  <2> QED BY <2>2, <2>3, <1>2, Stays DEF Acting
<1> QED BY <1>3, <1>4, <1>5

\* An operation whose outcome the catalog has reached has reached it by itself.
LEMMA ReachedBySelf ==
  ASSUME NEW j \in Journal, NEW c \in Catalog, Story(j, c), JournalWell(j, c), j.pending # None,
         j.pending.op # "reconcile", OutcomeReached(c, j.pending)
  PROVE  Reached(c, j.pending)
<1> DEFINE q == j.pending
           s == c.audits[q.proposal]
<1>1. /\ q.proposal \in Proposal /\ q.op \in Operation /\ q.command \in Command
      /\ Planned(j, c, q) /\ s \in Seq(Audit)
  BY JournalType, PendingType DEF JournalWell, Catalog
<1>2. s # <<>> /\ Latest(s) = q.audit
  BY DEF OutcomeReached
<1>3. q.audit.command = q.command
  BY <1>1 DEF Planned, Operation
<1>4. q.audit \in AuditsOf(c, q.proposal)
  <2> HIDE DEF s
  <2>1. Len(s) \in DOMAIN s
    BY <1>1, <1>2
  <2>2. s[Len(s)] = q.audit
    BY <1>2 DEF Latest
  <2> QED BY <2>1, <2>2 DEF AuditsOf, s
<1>5. ~CommandIsFree(c, q.command)
  BY <1>1, <1>3, <1>4 DEF CommandIsFree
<1> QED BY <1>5 DEF Story, Settled, Undone

\* The opening finds an operation that is over, one way or the other, and says so.
LEMMA SettledTold ==
  ASSUME IInv, Answered, RInv, SettleAborted \/ SettleFinalize \/ Conclude \/ ConcludeRestored
  PROVE  RInv'
<1>1. pc \in Settling
  BY DEF SettleAborted, SettleFinalize, Conclude, ConcludeRestored, Settling
<1>2. /\ state = journal /\ journal.pending # None /\ journal \in Journal /\ memory = catalog
      /\ catalog \in Catalog /\ CatalogWell(catalog) /\ JournalWell(journal, catalog)
      /\ Planned(journal, catalog, journal.pending) /\ Story(journal, catalog)
  BY <1>1, SettlingMeans DEF RInv, StoryHolds
<1>3. CASE SettleAborted
  <2>1. /\ memory.revision = journal.pending.revision
        /\ UNCHANGED <<catalog, memory, blind, previews>>
    BY <1>2, <1>3 DEF SettleAborted, Situation, SituationOf, EndsOpening
  <2>2. Before(memory, journal.pending)
    BY <2>1, <1>2 DEF JournalWell
  <2>3. journal' \in {journal, Aborted(state, memory)} /\ pc' \in {"idle", "down"}
    BY <1>3 DEF SettleAborted, EndsOpening, Closed, GiveUp
  <2> QED BY <2>1, <2>2, <2>3, <1>1, AbortTold
<1>4. CASE SettleFinalize
  <2>1. /\ OutcomeReached(catalog, journal.pending)
        /\ UNCHANGED <<catalog, memory, blind, previews>>
    BY <1>2, <1>4 DEF SettleFinalize, Situation, SituationOf, EndsOpening
  <2>2. After(memory, journal.pending)
    BY <2>1, <1>2, ReachedIs
  <2>3. \/ /\ journal.pending.op # "reconcile" /\ memory = catalog
           /\ Reached(catalog, journal.pending)
        \/ /\ journal.pending.op = "reconcile" /\ memory.revision = journal.pending.revision
           /\ memory.status[journal.pending.proposal] = "promoted"
    <3>1. CASE journal.pending.op # "reconcile"
      BY <3>1, <2>1, <1>2, ReachedBySelf
    <3>2. CASE journal.pending.op = "reconcile"
      BY <3>2, <2>1, <1>2 DEF OutcomeReached, Planned
    <3> QED BY <3>1, <3>2
  <2>4. journal' \in {journal, Finished(state, memory)} /\ pc' \in {"idle", "down"}
    BY <1>4 DEF SettleFinalize, EndsOpening, Closed
  <2> QED BY <2>1, <2>2, <2>3, <2>4, <1>1, FinishTold
<1>5. CASE Conclude
  <2>1. /\ pc = "conclude" /\ journal' \in {journal, Finished(state, memory)} /\ pc' = "idle"
        /\ UNCHANGED <<catalog, memory, blind, previews>>
    BY <1>5 DEF Conclude, EndsOpening, GiveUp
  <2>2. After(memory, journal.pending)
    BY <2>1, <1>2 DEF IInv, Placed
  <2>3. journal.pending.op # "reconcile" /\ Reached(catalog, journal.pending)
    BY <2>1 DEF RInv, Followed
  <2> QED BY <2>1, <2>2, <2>3, <1>1, <1>2, FinishTold
<1>6. CASE ConcludeRestored
  <2>1. /\ pc = "restored" /\ journal' \in {journal, Aborted(state, memory)} /\ pc' = "idle"
        /\ UNCHANGED <<catalog, memory, blind, previews>>
    BY <1>6 DEF ConcludeRestored, EndsOpening, GiveUp
  <2>2. Before(memory, journal.pending)
    BY <2>1, <1>2 DEF IInv, Placed
  <2> QED BY <2>1, <2>2, <1>1, AbortTold
<1> QED BY <1>3, <1>4, <1>5, <1>6

\* It begins, brings the catalog or the prompt to where the other is, or gives up.
LEMMA OpeningTold ==
  ASSUME IInv, Answered, RInv, Open \/ SettleFinish \/ RestorePrompt \/ SettleUnknown \/ Stop
  PROVE  RInv'
<1>1. CASE Open \/ RestorePrompt \/ SettleUnknown \/ Stop
  <2>1. /\ UNCHANGED <<journal, catalog, blind>> /\ memory' \in {memory, catalog}
        /\ previews' \subseteq previews /\ pc' \in {"idle", "settle", "restored", "down"}
    BY <1>1 DEF Open, RestorePrompt, SettleUnknown, Stop, GiveUp
  <2> QED BY <2>1, Stays DEF Acting
<1>2. CASE SettleFinish
  <2> DEFINE q == journal.pending
             d == OutcomeFor(catalog, q)
  <2>1. /\ state = journal /\ journal \in Journal /\ q # None /\ memory = catalog
        /\ catalog \in Catalog /\ JournalWell(journal, catalog)
        /\ Planned(journal, catalog, q) /\ q.proposal \in Proposal /\ q.op \in Operation
    BY <1>2, SettlingMeans, PendingType DEF SettleFinish, Settling
  <2>2. catalog.revision = q.revision /\ ~OutcomeReached(catalog, q)
    BY <2>1, <1>2 DEF SettleFinish, On, Situation, SituationOf
  <2>3. Before(catalog, q)
    BY <2>1, <2>2 DEF JournalWell
  <2>4. q.op # "reconcile"
    BY <2>1, <2>2, <2>3 DEF OutcomeReached, Known, Before, Planned
  <2>5. CommandIsFree(catalog, q.command)
    BY <2>1, <2>2 DEF RInv, StoryHolds, Story, Settled, Undone, Reached
  <2>6. CatalogOutcome = d
    BY <2>1 DEF CatalogOutcome, OutcomeFor
  <2> HIDE DEF d
  <2>7. /\ UNCHANGED <<journal, blind, previews>>
        /\ \/ catalog' = d /\ memory' = d /\ pc' \in {"record", "conclude"}
           \/ catalog' \in {catalog, d} /\ memory' = memory /\ pc' \in {"idle", "unfinished"}
    BY <2>6, <1>2 DEF SettleFinish, Commit, CommitFails, GiveUp
  <2>8. d = OutcomeFor(catalog, journal.pending)
    BY DEF d
  <2> QED BY <2>1, <2>3, <2>4, <2>5, <2>7, <2>8, OutcomeTold
<1> QED BY <1>1, <1>2

\* People.
LEMMA PeopleTold ==
  ASSUME IInv, RInv, CommitOther \/ CommitEdit \/ \E t \in Target, x \in Holds : Edit(t, x)
  PROVE  RInv'
<1>1. UNCHANGED <<journal, catalog, pc, memory, previews, blind>>
  BY DEF CommitOther, CommitEdit, Edit, Meddle
<1> QED BY <1>1, Stays

\* In a world that is older than the journal no audit names a command.
LEMMA LegacyAudits ==
  ASSUME NEW old \in Legacy, NEW p \in Proposal, NEW a \in AuditsOf(LegacyCatalog(old), p)
  PROVE  a.command = None
<1> DEFINE c == LegacyCatalog(old)
<1>1. PICK r : c.audits[p] = <<>> \/ c.audits[p] = <<[kind |-> "promotion", command |-> None, restored |-> r]>>
  BY DEF LegacyCatalog
<1> HIDE DEF c
<1>2. PICK i \in DOMAIN c.audits[p] : a = c.audits[p][i]
  BY DEF AuditsOf, c
<1> QED BY <1>1, <1>2

LEMMA StoryBegins == Init => RInv
<1> SUFFICES ASSUME Init PROVE RInv
  OBVIOUS
<1>1. PICK old \in Legacy : catalog = LegacyCatalog(old) /\ memory = LegacyCatalog(old)
  BY DEF Init
<1>2. journal = EmptyJournal /\ pc = "down" /\ previews = {} /\ memory = catalog
  BY <1>1 DEF Init
<1>3. /\ journal.pending = None /\ journal.completed = {}
      /\ \A k \in Command : journal.commands[k] = None
      /\ \A p \in Proposal : journal.apps[p] = <<>>
  BY <1>2 DEF EmptyJournal
<1>4. \A s \in ChainsOf(journal) : s = <<>>
  BY <1>3 DEF ChainsOf, Reconciling
<1>5. \A p \in Proposal : \A a \in AuditsOf(catalog, p) : a.command = None
  BY <1>1, LegacyAudits
<1>6. StoryHolds
  <2>1. ProofsVouched(journal, catalog)
    BY <1>4 DEF ProofsVouched
  <2>2. CapturesOwned(journal, catalog)
    BY <1>3 DEF CapturesOwned, Reconciling
  <2>3. CompletionsFit(journal, catalog) /\ BindingsFit(journal, catalog)
    BY <1>3 DEF CompletionsFit, BindingsFit
  <2>4. AuditsOwned(journal, catalog)
    BY <1>5 DEF AuditsOwned
  <2>5. Settled(journal, catalog)
    BY <1>3 DEF Settled
  <2> QED BY <2>1, <2>2, <2>3, <2>4, <2>5, <1>3 DEF StoryHolds, Story
<1>7. CatalogGoes
  BY <1>2, InitHolds, GoesOnItself DEF CatalogGoes, IInv, TypeOK
<1>8. PreviewsSafe /\ Followed
  BY <1>2, <1>3 DEF PreviewsSafe, Followed, Acting
<1> QED BY <1>6, <1>7, <1>8 DEF RInv

LEMMA StoryIsKept == IInv /\ Answered /\ RInv /\ [Next]_vars => RInv'
<1> SUFFICES ASSUME IInv, Answered, RInv, [Next]_vars PROVE RInv'
  OBVIOUS
<1>1. ASSUME NEW p \in Proposal,
             \/ Propose(p) \/ BeginEvaluation(p) \/ Evaluate(p) \/ Reject(p) \/ Archive(p)
             \/ Unarchive(p) \/ Delete(p) \/ PreviewPromotion(p) \/ PreviewRollback(p)
      PROVE  RInv'
  BY <1>1, CatalogOnlyTold, PreviewTold
<1>2. ASSUME NEW v \in previews,
             ExpirePreview(v) \/ \E command \in Command : Execute(command, v)
      PROVE  RInv'
  BY <1>2, PreviewTold, ExecuteTold
<1>3. ASSUME NEW command \in Command, NEW p \in Proposal, Adopt(command, p) \/ Reapply(command, p)
      PROVE  RInv'
  BY <1>3, AdoptTold, ReapplyTold
<1>4. CASE Executing
  BY <1>4, WriteTold, CommitCatalogTold, SavesTold DEF Executing
<1>5. CASE Opening \/ Stop
  BY <1>5, SettledTold, OpeningTold DEF Opening
<1>6. CASE CommitOther \/ CommitEdit \/ \E t \in Target, x \in Holds : Edit(t, x)
  BY <1>6, PeopleTold
<1>7. CASE UNCHANGED vars
  BY <1>7, Stays DEF vars
<1> QED BY <1>1, <1>2, <1>3, <1>4, <1>5, <1>6, <1>7 DEF Next

\* Whatever writes failed and wherever the process died, the journal and the catalog pass the
\* checks of the next opening (loadOrInit and validateRestoredState in application-journal.ts),
\* unless a proposal with an answer was deleted, a captured predecessor got under another's proof,
\* or an operation was begun when it was not known what the catalog on disk says.
THEOREM JournalReopens == Spec => []Reopens
<1>1. Init => Answered /\ RInv
  BY PromiseBegins, StoryBegins
<1>2. IInv /\ Answered /\ RInv /\ [Next]_vars => Answered' /\ RInv'
  BY StepsSeen, StoryIsKept DEF SeenStep
<1>3. IInv /\ Answered /\ RInv => Reopens
  BY InvariantReopens
<1> QED BY <1>1, <1>2, <1>3, ApplicationInductive, PTL DEF Spec
=============================================================================

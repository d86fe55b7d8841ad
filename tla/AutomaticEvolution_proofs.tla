---------------------- MODULE AutomaticEvolution_proofs ----------------------
(***************************************************************************)
(* A loop owns its project and promotes what is better than the strategy   *)
(* in force, for any strategies, results, cycles, repetitions, people and  *)
(* deaths of the service.                                                  *)
(*                                                                         *)
(* The argument: every step of the loop is taken from the place it is at,  *)
(* and the place says what it holds (PlaceInv), who else may execute       *)
(* (OwnInv) and which runs its results stand for (EvidenceInv).            *)
(***************************************************************************)
EXTENDS AutomaticEvolution, TLAPS

(* What a place of the loop says of its memory. *)
Early == {"idle", "incumbent", "measure", "running", "cycle", "ending"}
PlaceInv ==
  /\ loop.at # "idle" => loop.command \in LoopCommand
  /\ loop.cycle <= loop.limit
  /\ loop.at \notin Early \/ loop.strategy = "shadow" => loop.at # "idle" /\ loop.cycle >= 1
  /\ loop.at = "running" => loop.left > 0 /\ loop.running # Unset
LoopTyped == loop \in LoopState /\ PlaceInv
TypeInv == AutomationTypeOK /\ PlaceInv

-----------------------------------------------------------------------------
(***************************************************************************)
(* Types: the memory of the loop, the catalog, the layers.                 *)
(***************************************************************************)
LEMMA FreshLoop == NoLoop \in LoopState
  BY CycleAssumption DEF LoopState, LoopPlace, NoLoop

LEMMA MeasureTyped ==
  ASSUME LoopTyped, NEW s \in {"baseline", "target", "shadow"}, loop' = Measure(s),
         loop.at # "idle", s = "shadow" => loop.cycle >= 1
  PROVE  LoopTyped'
<1>1. Repeats \in 0..Repeats /\ "measure" \in LoopPlace
  BY CycleAssumption DEF LoopPlace
<1>2. loop' \in LoopState
  BY <1>1 DEF LoopTyped, LoopState, Measure
<1>3. /\ loop'.at = "measure" /\ loop'.command = loop.command /\ loop'.limit = loop.limit
      /\ loop'.cycle = loop.cycle /\ loop'.strategy = s
  BY DEF LoopTyped, LoopState, Measure
<1> QED
  BY <1>2, <1>3 DEF LoopTyped, PlaceInv, Early

LEMMA MoveTyped ==
  ASSUME LoopTyped, NEW place \in LoopPlace \ {"idle", "running"}, To(place), loop.at # "idle",
         place \in Early \/ loop.cycle >= 1
  PROVE  LoopTyped'
<1>1. loop' \in LoopState
  BY DEF LoopTyped, LoopState, To
<1>2. /\ loop'.at = place /\ loop'.command = loop.command /\ loop'.limit = loop.limit
      /\ loop'.cycle = loop.cycle /\ loop'.strategy = loop.strategy
  BY DEF LoopTyped, LoopState, To
<1> QED
  BY <1>1, <1>2 DEF LoopTyped, PlaceInv, Early

LEMMA ThrownTyped ==
  ASSUME LoopTyped, Thrown, loop.at # "idle"
  PROVE  LoopTyped'
<1>1. "unshadow" \in LoopPlace /\ "ending" \in LoopPlace
  BY DEF LoopPlace
<1>2. loop' \in LoopState
  BY <1>1, ZenonT(40) DEF LoopTyped, LoopState, Thrown
<1>3. /\ loop'.at = (IF loop.strategy = "shadow" THEN "unshadow" ELSE "ending")
      /\ loop'.command = loop.command /\ loop'.limit = loop.limit
      /\ loop'.cycle = loop.cycle /\ loop'.strategy = loop.strategy
  BY DEF LoopTyped, LoopState, Thrown
<1> QED
  BY <1>2, <1>3 DEF LoopTyped, PlaceInv, Early

LEMMA FlagTyped ==
  ASSUME LoopTyped, NEW b \in BOOLEAN,
         loop' = [loop EXCEPT !.stop = b] \/ loop' = [loop EXCEPT !.current = b]
  PROVE  LoopTyped'
<1>1. loop' \in LoopState
  BY DEF LoopTyped, LoopState
<1>2. /\ loop'.at = loop.at /\ loop'.command = loop.command /\ loop'.limit = loop.limit
      /\ loop'.cycle = loop.cycle /\ loop'.strategy = loop.strategy /\ loop'.left = loop.left
      /\ loop'.running = loop.running
  BY DEF LoopTyped, LoopState
<1> QED
  BY <1>1, <1>2 DEF LoopTyped, PlaceInv, Early

LEMMA CandidateTyped ==
  ASSUME LoopTyped, loop.at \notin Early \/ loop.strategy = "shadow"
  PROVE  Candidate \in Automatic /\ Candidate \in EvolutionProposal
<1>1. loop.command \in LoopCommand /\ loop.cycle \in 1..MaxCycles
  BY CycleAssumption DEF LoopTyped, PlaceInv, Early, LoopState
<1> QED
  BY <1>1 DEF Candidate, Automatic, EvolutionProposal

LEMMA CatalogTyped ==
  ASSUME proposals \in ProposalCatalog, NEW p \in EvolutionProposal
  PROVE  /\ \A status \in EvolutionStatus : Set(p, status) => proposals' \in ProposalCatalog
         /\ \A passed \in BOOLEAN, source \in Source :
              Evaluated(p, passed, source) => proposals' \in ProposalCatalog
         /\ \A d \in Strategy :
              proposals' = [proposals EXCEPT ![p] =
                              [status |-> "proposed", source |-> "none", definition |-> d]]
                => proposals' \in ProposalCatalog
         /\ proposals[p].definition \in Strategy \union {Unset}
<1>1. proposals[p].definition \in Strategy \union {Unset}
  BY DEF ProposalCatalog
<1>2. ASSUME NEW status \in EvolutionStatus, Set(p, status) PROVE proposals' \in ProposalCatalog
  BY <1>2 DEF ProposalCatalog, Set
<1>3. ASSUME NEW passed \in BOOLEAN, NEW source \in Source, Evaluated(p, passed, source)
      PROVE  proposals' \in ProposalCatalog
  <2>1. {"passed", "failed"} \subseteq EvolutionStatus
    BY DEF EvolutionStatus
  <2> QED
    BY <1>3, <2>1 DEF ProposalCatalog, Evaluated
<1>4. ASSUME NEW d \in Strategy,
             proposals' = [proposals EXCEPT ![p] =
                             [status |-> "proposed", source |-> "none", definition |-> d]]
      PROVE  proposals' \in ProposalCatalog
  BY <1>4 DEF ProposalCatalog, EvolutionStatus, Source
<1> QED
  BY <1>1, <1>2, <1>3, <1>4

LEMMA LayersTyped ==
  ASSUME layers \in Layers
  PROVE  /\ \A p \in EvolutionProposal, covered \in Strategy \union {Unset} :
              <<[proposal |-> p, covered |-> covered]>> \o layers \in Layers
         /\ layers # <<>> => /\ Tail(layers) \in Layers
                             /\ Head(layers).proposal \in EvolutionProposal
                             /\ Head(layers).covered \in Strategy \union {Unset}
<1> DEFINE Layer == [proposal : EvolutionProposal, covered : Strategy \union {Unset}]
<1>1. layers \in Seq(Layer)
  BY DEF Layers
<1>2. ASSUME NEW p \in EvolutionProposal, NEW covered \in Strategy \union {Unset}
      PROVE  <<[proposal |-> p, covered |-> covered]>> \o layers \in Layers
  <2>1. [proposal |-> p, covered |-> covered] \in Layer
    OBVIOUS
  <2> HIDE DEF Layer
  <2>2. <<[proposal |-> p, covered |-> covered]>> \o layers \in Seq(Layer)
    BY <1>1, <2>1
  <2> QED
    BY <2>2 DEF Layer, Layers
<1>3. ASSUME layers # <<>>
      PROVE  Tail(layers) \in Layers /\ Head(layers) \in Layer
  <2> HIDE DEF Layer
  <2>1. Tail(layers) \in Seq(Layer) /\ Head(layers) \in Layer
    BY <1>1, <1>3
  <2> QED
    BY <2>1 DEF Layer, Layers
<1> QED
  BY <1>2, <1>3

LEMMA InitTyped == AutomationInit => TypeInv
<1> SUFFICES ASSUME AutomationInit PROVE TypeInv
  OBVIOUS
<1>1. AutomationTypeOK
  <2>1. /\ target \in Strategy \union {Unset}
        /\ layers \in Layers /\ proposals \in ProposalCatalog
    BY PastAssumption DEF AutomationInit
  <2>2. 0 \in 0..MaxMoves /\ 0 \in 0..MaxAccidents
    BY AutomationBounds
  <2> QED
    BY FreshLoop, <2>1, <2>2 DEF AutomationInit, AutomationTypeOK, RestoredDefault, NoEvidence
<1>2. PlaceInv
  BY DEF AutomationInit, PlaceInv, NoLoop, Early
<1> QED
  BY <1>1, <1>2 DEF TypeInv

LEMMA LoopStepTyped == TypeInv /\ LoopStep => TypeInv'
<1> SUFFICES ASSUME TypeInv, LoopStep PROVE TypeInv'
  OBVIOUS
<1> USE DEF TypeInv, At, people, work, targets
<1>t. LoopTyped
  BY DEF LoopTyped, AutomationTypeOK
<1>a. Accident => accidents' \in 0..MaxAccidents
  BY AutomationBounds DEF Accident, AutomationTypeOK
<1>1. CASE ResolveIncumbent
  <2>1. LoopTyped'
    BY <1>1, <1>t, MeasureTyped, MoveTyped DEF ResolveIncumbent, LoopPlace, Early
  <2> QED
    BY <1>1, <2>1 DEF ResolveIncumbent, LoopTyped, AutomationTypeOK
<1>2. CASE StartEvaluation
  <2>1. CASE Thrown /\ UNCHANGED active
    BY <1>2, <1>t, <2>1, ThrownTyped DEF StartEvaluation, LoopTyped, AutomationTypeOK
  <2>2. CASE /\ Named # Unset /\ active' = active \union {"evaluation"}
             /\ loop' = [loop EXCEPT !.at = "running", !.running = Named]
    <3>1. Named \in Strategy \union {Baseline}
      BY <2>2 DEF Named, AutomationTypeOK, LoopState
    <3>2. "running" \in LoopPlace
      BY DEF LoopPlace
    <3>3. loop' \in LoopState
      BY <1>t, <2>2, <3>1, <3>2 DEF LoopTyped, LoopState
    <3>4. /\ loop'.at = "running" /\ loop'.command = loop.command /\ loop'.limit = loop.limit
          /\ loop'.cycle = loop.cycle /\ loop'.strategy = loop.strategy /\ loop'.left = loop.left
          /\ loop'.running = Named
      BY <1>t, <2>2 DEF LoopTyped, LoopState
    <3> QED
      BY <1>2, <2>2, <3>3, <3>4 DEF StartEvaluation, PlaceInv, Early, AutomationTypeOK
  <2> QED
    BY <1>2, <2>1, <2>2 DEF StartEvaluation
<1>3. CASE EvaluationThrows
  BY <1>3, <1>t, ThrownTyped DEF EvaluationThrows, LoopTyped, AutomationTypeOK
<1>4. CASE Measured
  <2>1. LoopTyped'
    <3>1. CASE loop.strategy = "shadow"
      BY <1>4, <1>t, <3>1, MoveTyped DEF Measured, LoopTyped, PlaceInv, LoopPlace, Early
    <3>2. CASE loop' = [loop EXCEPT !.at = "cycle", !.incumbent = loop.worst]
      <4>1. "cycle" \in LoopPlace
        BY DEF LoopPlace
      <4>2. loop' \in LoopState
        BY <1>t, <3>2, <4>1 DEF LoopTyped, LoopState
      <4>3. /\ loop'.at = "cycle" /\ loop'.command = loop.command /\ loop'.limit = loop.limit
            /\ loop'.cycle = loop.cycle /\ loop'.strategy = loop.strategy
        BY <1>t, <3>2 DEF LoopTyped, LoopState
      <4> QED
        BY <1>4, <1>t, <4>2, <4>3 DEF Measured, LoopTyped, PlaceInv, Early
    <3> QED
      BY <1>4, <3>1, <3>2 DEF Measured
  <2> QED
    BY <1>4, <2>1 DEF Measured, LoopTyped, AutomationTypeOK
<1>5. CASE BeginCycle
  <2>1. LoopTyped'
    <3>1. CASE To("ending")
      BY <1>5, <1>t, <3>1, MoveTyped DEF BeginCycle, LoopPlace, Early
    <3>2. CASE /\ loop.cycle < loop.limit
               /\ loop' = [loop EXCEPT !.at = "proposing", !.cycle = @ + 1]
      <4>1. "proposing" \in LoopPlace /\ loop.cycle + 1 \in 0..MaxCycles
        BY <1>t, <3>2, CycleAssumption DEF LoopPlace, LoopTyped, LoopState
      <4>2. loop' \in LoopState
        BY <1>t, <3>2, <4>1 DEF LoopTyped, LoopState
      <4>3. /\ loop'.at = "proposing" /\ loop'.command = loop.command /\ loop'.limit = loop.limit
            /\ loop'.cycle = loop.cycle + 1 /\ loop.cycle \in Nat /\ loop.limit \in Nat
        BY <1>t, <3>2 DEF LoopTyped, LoopState
      <4> QED
        BY <1>5, <1>t, <3>2, <4>2, <4>3 DEF BeginCycle, LoopTyped, PlaceInv, Early
    <3> QED
      BY <1>5, <3>1, <3>2 DEF BeginCycle
  <2>2. evidence' \in [incumbent : SUBSET Measurement, candidate : SUBSET Measurement]
    BY <1>5 DEF BeginCycle, AutomationTypeOK
  <2> QED
    BY <1>5, <2>1, <2>2 DEF BeginCycle, LoopTyped, AutomationTypeOK
<1>6. ASSUME NEW o \in RunOutcome, EvaluationEnds(o) PROVE TypeInv'
  <2>1. Worst(loop.worst, o) \in Result
    BY <1>t, RunOutcomeAssumption DEF LoopTyped, LoopState, Worst, Result
  <2>2. "measure" \in LoopPlace /\ loop.left - 1 \in 0..Repeats
    BY <1>6, <1>t, CycleAssumption DEF EvaluationEnds, LoopPlace, LoopTyped, PlaceInv, LoopState
  <2>3. loop' \in LoopState
    BY <1>6, <1>t, <2>1, <2>2 DEF EvaluationEnds, LoopTyped, LoopState
  <2>4. /\ loop'.at = "measure" /\ loop'.command = loop.command /\ loop'.limit = loop.limit
        /\ loop'.cycle = loop.cycle /\ loop'.strategy = loop.strategy
    BY <1>6, <1>t DEF EvaluationEnds, LoopTyped, LoopState
  <2>5. [ran |-> loop.running, outcome |-> o] \in Measurement
    BY <1>6, <1>t DEF EvaluationEnds, Measurement, LoopTyped, PlaceInv, LoopState
  <2>6. evidence' \in [incumbent : SUBSET Measurement, candidate : SUBSET Measurement]
    BY <1>6, <2>5 DEF EvaluationEnds, Side, AutomationTypeOK
  <2> QED
    BY <1>6, <1>t, <2>3, <2>4, <2>6 DEF EvaluationEnds, LoopTyped, PlaceInv, Early, AutomationTypeOK
<1>7. ASSUME NEW d \in Strategy, ProposeCandidate(d) PROVE TypeInv'
  <2>1. proposals' \in ProposalCatalog
    BY <1>7, <1>t, CandidateTyped, CatalogTyped DEF ProposeCandidate, AutomationTypeOK, Early
  <2>2. "proposed" \in LoopPlace
    BY DEF LoopPlace
  <2>3. loop' \in LoopState
    BY <1>7, <1>t, <2>2 DEF ProposeCandidate, LoopTyped, LoopState
  <2>4. /\ loop'.at = "proposed" /\ loop'.command = loop.command /\ loop'.limit = loop.limit
        /\ loop'.cycle = loop.cycle /\ loop'.strategy = loop.strategy
    BY <1>7, <1>t DEF ProposeCandidate, LoopTyped, LoopState
  <2> QED
    BY <1>7, <1>t, <2>1, <2>3, <2>4
       DEF ProposeCandidate, LoopTyped, PlaceInv, Early, AutomationTypeOK
<1>8. CASE ProposalFails
  BY <1>8, <1>t, MoveTyped DEF ProposalFails, LoopTyped, LoopPlace, Early, AutomationTypeOK
<1>9. CASE Throws
  <2>1. LoopTyped'
    BY <1>9, <1>t, MoveTyped DEF Throws, LoopPlace, Early
  <2> QED
    BY <1>9, <1>a, <2>1 DEF Throws, LoopTyped, AutomationTypeOK
<1>10. CASE BeginSavingShadow
  BY <1>10, <1>t, MoveTyped
     DEF BeginSavingShadow, Latch, LoopTyped, PlaceInv, LoopPlace, Early, AutomationTypeOK
<1>11. CASE SaveShadow
  <2>0. loop.cycle >= 1 /\ Candidate \in Automatic
    BY <1>11, <1>t, CandidateTyped DEF SaveShadow, LoopTyped, PlaceInv, Early
  <2>1. LoopTyped'
    BY <1>11, <1>t, <2>0, MoveTyped, MeasureTyped DEF SaveShadow, LoopPlace, Early
  <2> QED
    BY <1>11, <1>a, <2>0, <2>1 DEF SaveShadow, LoopTyped, AutomationTypeOK
<1>12. CASE BeginRemovingShadow
  BY <1>12, <1>t, MoveTyped
     DEF BeginRemovingShadow, Latch, LoopTyped, PlaceInv, LoopPlace, Early, AutomationTypeOK
<1>13. CASE RemoveShadow
  <2>0. loop.cycle >= 1
    BY <1>13, <1>t DEF RemoveShadow, LoopTyped, PlaceInv, Early
  <2>1. LoopTyped'
    BY <1>13, <1>t, <2>0, MoveTyped DEF RemoveShadow, LoopPlace, Early
  <2> QED
    BY <1>13, <1>a, <2>1 DEF RemoveShadow, LoopTyped, AutomationTypeOK
<1>14. CASE BeginEvaluatingCandidate
  <2>1. proposals' \in ProposalCatalog
    BY <1>14, <1>t, CandidateTyped, CatalogTyped
       DEF BeginEvaluatingCandidate, EvolutionStatus, AutomationTypeOK, Early
  <2>2. LoopTyped'
    BY <1>14, <1>t, MoveTyped DEF BeginEvaluatingCandidate, LoopTyped, PlaceInv, LoopPlace, Early
  <2> QED
    BY <1>14, <2>1, <2>2 DEF BeginEvaluatingCandidate, LoopTyped, AutomationTypeOK
<1>15. CASE EvaluateCandidate
  <2>1. EvidencePasses \in BOOLEAN /\ "runs" \in Source
    BY <1>15, <1>t DEF EvidencePasses, Improved, Source, LoopTyped, LoopState
  <2>2. proposals' \in ProposalCatalog
    BY <1>15, <1>t, <2>1, CandidateTyped, CatalogTyped
       DEF EvaluateCandidate, AutomationTypeOK, Early
  <2>3. "evaluated" \in LoopPlace
    BY DEF LoopPlace
  <2>4. loop' \in LoopState
    BY <1>15, <1>t, <2>3 DEF EvaluateCandidate, LoopTyped, LoopState
  <2>5. /\ loop'.at = "evaluated" /\ loop'.command = loop.command /\ loop'.limit = loop.limit
        /\ loop'.cycle = loop.cycle /\ loop'.strategy = loop.strategy
    BY <1>15, <1>t DEF EvaluateCandidate, LoopTyped, LoopState
  <2> QED
    BY <1>15, <1>t, <2>2, <2>4, <2>5
       DEF EvaluateCandidate, LoopTyped, PlaceInv, Early, AutomationTypeOK
<1>16. CASE PreviewCandidate
  BY <1>16, <1>t, MoveTyped
     DEF PreviewCandidate, LoopTyped, PlaceInv, LoopPlace, Early, AutomationTypeOK
<1>17. CASE RejectCandidate
  <2>1. proposals' \in ProposalCatalog
    BY <1>17, <1>t, CandidateTyped, CatalogTyped
       DEF RejectCandidate, EvolutionStatus, AutomationTypeOK, Early
  <2>2. "cycle" \in LoopPlace /\ loop.fruitless + 1 \in Nat
    BY <1>t DEF LoopPlace, LoopTyped, LoopState
  <2>3. loop' \in LoopState
    BY <1>17, <1>t, <2>2 DEF RejectCandidate, LoopTyped, LoopState
  <2>4. /\ loop'.at = "cycle" /\ loop'.command = loop.command /\ loop'.limit = loop.limit
        /\ loop'.cycle = loop.cycle /\ loop'.strategy = loop.strategy
    BY <1>17, <1>t DEF RejectCandidate, LoopTyped, LoopState
  <2> QED
    BY <1>17, <1>t, <2>1, <2>3, <2>4
       DEF RejectCandidate, LoopTyped, PlaceInv, Early, AutomationTypeOK
<1>18. CASE BeginPromoting
  BY <1>18, <1>t, MoveTyped
     DEF BeginPromoting, Latch, LoopTyped, PlaceInv, LoopPlace, Early, AutomationTypeOK
<1>19. CASE PromoteCandidate
  <2>0. Candidate \in EvolutionProposal
    BY <1>19, <1>t, CandidateTyped DEF PromoteCandidate, Early
  <2>1. /\ proposals' \in ProposalCatalog /\ target' \in Strategy \union {Unset}
        /\ layers' \in Layers
    BY <1>19, <2>0, CatalogTyped, LayersTyped
       DEF PromoteCandidate, Promoted, EvolutionStatus, AutomationTypeOK
  <2>2. "cycle" \in LoopPlace
    BY DEF LoopPlace
  <2>3. loop' \in LoopState
    BY <1>19, <1>t, <2>2 DEF PromoteCandidate, LoopTyped, LoopState
  <2>4. /\ loop'.at = "cycle" /\ loop'.command = loop.command /\ loop'.limit = loop.limit
        /\ loop'.cycle = loop.cycle /\ loop'.strategy = loop.strategy
    BY <1>19, <1>t DEF PromoteCandidate, LoopTyped, LoopState
  <2>5. evidence' \in [incumbent : SUBSET Measurement, candidate : SUBSET Measurement]
    BY <1>19 DEF PromoteCandidate, AutomationTypeOK
  <2> QED
    BY <1>19, <1>t, <2>1, <2>3, <2>4, <2>5
       DEF PromoteCandidate, LoopTyped, PlaceInv, Early, AutomationTypeOK
<1>20. CASE EndLoop
  BY <1>20, FreshLoop
     DEF EndLoop, NoLoop, NoEvidence, Quiescent, PlaceInv, Early, AutomationTypeOK
<1> QED
  BY <1>1, <1>2, <1>3, <1>4, <1>5, <1>6, <1>7, <1>8, <1>9, <1>10, <1>11, <1>12, <1>13, <1>14,
     <1>15, <1>16, <1>17, <1>18, <1>19, <1>20 DEF LoopStep

LEMMA PersonStepTyped == TypeInv /\ PersonStep => TypeInv'
<1> SUFFICES ASSUME TypeInv, PersonStep PROVE TypeInv'
  OBVIOUS
<1> USE DEF TypeInv, beside, targets, work
<1>t. LoopTyped
  BY DEF LoopTyped, AutomationTypeOK
<1>b. Begins => moves' \in 0..MaxMoves
  BY AutomationBounds DEF Begins, AutomationTypeOK
<1>1. CASE StopLoop
  <2>1. LoopTyped'
    BY <1>1, <1>t, FlagTyped DEF StopLoop
  <2> QED
    BY <1>1, <2>1 DEF StopLoop, people, LoopTyped, AutomationTypeOK
<1>2. ASSUME NEW c \in LoopCommand, NEW limit \in 1..MaxCycles, StartLoop(c, limit)
      PROVE  TypeInv'
  <2>1. "incumbent" \in LoopPlace /\ limit \in 0..MaxCycles
    BY CycleAssumption DEF LoopPlace
  <2>2. loop' \in LoopState
    BY <1>2, <2>1, FreshLoop DEF StartLoop, LoopState
  <2>3. /\ loop'.at = "incumbent" /\ loop'.command = c /\ loop'.limit = limit /\ loop'.cycle = 0
        /\ loop'.strategy = "baseline"
    BY <1>2 DEF StartLoop, NoLoop
  <2> QED
    BY <1>2, <2>2, <2>3 DEF StartLoop, PlaceInv, Early, AutomationTypeOK
<1>3. ASSUME \/ PersonStartsRun \/ OrdinaryRunEnds \/ PersonActs \/ ActionEnds
             \/ CancelParkedRun \/ QueueCancellation \/ CancellationEnds
      PROVE  TypeInv'
  <2>1. /\ UNCHANGED <<host, owner, mutating, targets, proposals>>
        /\ UNCHANGED <<started, loop, evidence, accidents>>
        /\ active' \subseteq {"evaluation", "ordinary"}
    BY <1>3 DEF PersonStartsRun, OrdinaryRunEnds, PersonActs, ActionEnds, CancelParkedRun,
                QueueCancellation, CancellationEnds, AutomationTypeOK
  <2>2. acting' \subseteq {"action", "cancel"} /\ cancelling' \in BOOLEAN
    BY <1>3 DEF PersonStartsRun, OrdinaryRunEnds, PersonActs, ActionEnds, CancelParkedRun,
                QueueCancellation, CancellationEnds, AutomationTypeOK
  <2>3. overlapped' \in BOOLEAN /\ moves' \in 0..MaxMoves
    BY <1>3, <1>b DEF PersonStartsRun, OrdinaryRunEnds, PersonActs, ActionEnds, CancelParkedRun,
                      QueueCancellation, CancellationEnds, At, AutomationTypeOK
  <2> QED
    BY <2>1, <2>2, <2>3 DEF PlaceInv, AutomationTypeOK
<1>5. ASSUME Catalogs, proposals' \in ProposalCatalog PROVE TypeInv'
  <2>1. LoopTyped'
    BY <1>5, <1>t, FlagTyped DEF Catalogs
  <2> QED
    BY <1>5, <1>b, <2>1 DEF Catalogs, LoopTyped, AutomationTypeOK
<1>6. ASSUME NEW p \in EvolutionProposal,
             \/ \E d \in Strategy : PersonProposes(p, d)
             \/ \E passed \in BOOLEAN : PersonEvaluates(p, passed)
             \/ PersonRejects(p) \/ PersonDeletesProposal(p)
      PROVE  TypeInv'
  <2>1. {"rejected", "deleted"} \subseteq EvolutionStatus /\ "preflight" \in Source
    BY DEF EvolutionStatus, Source
  <2>2. Catalogs /\ proposals' \in ProposalCatalog
    BY <1>6, <2>1, CatalogTyped
       DEF PersonProposes, PersonEvaluates, PersonRejects, PersonDeletesProposal, AutomationTypeOK
  <2> QED
    BY <1>5, <2>2
<1>7. CASE PersonBegins
  BY <1>7, <1>b DEF PersonBegins, PlaceInv, AutomationTypeOK
<1>8. ASSUME Mutation, target' \in Strategy \union {Unset}, default' \in {"baseline", "target"},
             layers' \in Layers, proposals' \in ProposalCatalog
      PROVE  TypeInv'
  BY <1>8 DEF Mutation, PlaceInv, AutomationTypeOK
<1>9. ASSUME NEW d \in Strategy \union {Unset}, PersonSaves(d) PROVE TypeInv'
  BY <1>8, <1>9 DEF PersonSaves, PutTarget, AutomationTypeOK
<1>10. ASSUME NEW p \in EvolutionProposal, PersonPromotes(p) PROVE TypeInv'
  <2>1. target' \in Strategy \union {Unset} /\ layers' \in Layers /\ proposals' \in ProposalCatalog
    BY <1>10, CatalogTyped, LayersTyped
       DEF PersonPromotes, Promoted, EvolutionStatus, AutomationTypeOK
  <2> QED
    BY <1>8, <1>10, <2>1 DEF PersonPromotes, AutomationTypeOK
<1>11. CASE PersonRollsBack
  <2>1. "rolled-back" \in EvolutionStatus
    BY DEF EvolutionStatus
  <2>2. target' \in Strategy \union {Unset} /\ layers' \in Layers /\ proposals' \in ProposalCatalog
    BY <1>11, <2>1, CatalogTyped, LayersTyped DEF PersonRollsBack, PutTarget, AutomationTypeOK
  <2> QED
    BY <1>8, <1>11, <2>2 DEF PersonRollsBack, PutTarget, AutomationTypeOK
<1>12. CASE PersonGivesUp
  BY <1>8, <1>12 DEF PersonGivesUp, AutomationTypeOK
<1> QED
  BY <1>1, <1>2, <1>3, <1>6, <1>7, <1>9, <1>10, <1>11, <1>12
     DEF PersonStep, EvolutionProposal

LEMMA HostStepTyped == TypeInv /\ HostStep => TypeInv'
<1> SUFFICES ASSUME TypeInv, HostStep PROVE TypeInv'
  OBVIOUS
<1> USE DEF TypeInv, beside, targets, work, At
<1>t. LoopTyped
  BY DEF LoopTyped, AutomationTypeOK
<1>1. CASE CloseHost
  <2>1. LoopTyped'
    BY <1>1, <1>t, FlagTyped DEF CloseHost
  <2>2. moves' \in 0..MaxMoves
    BY <1>1, AutomationBounds DEF CloseHost, Begins, AutomationTypeOK
  <2> QED
    BY <1>1, <2>1, <2>2 DEF CloseHost, LoopTyped, AutomationTypeOK
<1>2. CASE SealHost
  BY <1>2 DEF SealHost, PlaceInv, AutomationTypeOK
<1>3. CASE HostExits \/ HostDies
  <2>1. accidents' \in 0..MaxAccidents
    BY <1>3, AutomationBounds DEF HostExits, HostDies, Accident, AutomationTypeOK
  <2>2. Gone
    BY <1>3 DEF HostExits, HostDies
  <2>3. PlaceInv'
    BY <2>2 DEF Gone, NoLoop, PlaceInv, Early
  <2> QED
    BY <2>1, <2>2, <2>3, FreshLoop DEF Gone, NoEvidence, AutomationTypeOK
<1>4. CASE RestartHost
  BY <1>4 DEF RestartHost, RestoredDefault, PlaceInv, AutomationTypeOK
<1> QED
  BY <1>1, <1>2, <1>3, <1>4 DEF HostStep

(* The state keeps its types, and the loop what its place says of it. *)
THEOREM AutomationTypeCorrect == AutomationSpec => [](AutomationTypeOK /\ PlaceInv)
<1>1. TypeInv /\ [AutomationNext]_automationVars => TypeInv'
  <2>1. TypeInv /\ UNCHANGED automationVars => TypeInv'
    BY DEF TypeInv, automationVars, AutomationTypeOK, PlaceInv
  <2> QED
    BY <2>1, LoopStepTyped, PersonStepTyped, HostStepTyped DEF AutomationNext
<1> QED
  BY <1>1, InitTyped, PTL DEF AutomationSpec, TypeInv

-----------------------------------------------------------------------------
(***************************************************************************)
(* The project is owned by the loop that runs.                             *)
(***************************************************************************)

(* Who executes, who changes a target and which cancellations are queued   *)
(* follow from the place of the loop.                                      *)
OwnInv ==
  /\ OwnsTheProject
  /\ "evaluation" \in active => loop.at = "running"
  /\ mutating = "loop" => loop.at \in {"shadowing", "unshadowing", "promoting"}
  /\ loop.at # "idle" /\ "cancel" \in acting => overlapped

(* A proposal that may still be promoted has a definition. *)
Alive == {"proposed", "evaluating", "passed"}
DefinedInv ==
  \A p \in EvolutionProposal : proposals[p].status \in Alive => proposals[p].definition # Unset

LEMMA ProposalsStayDefined ==
  ASSUME TypeInv, DefinedInv, [AutomationNext]_automationVars
  PROVE  DefinedInv'
<1> USE DEF DefinedInv, Alive
<1>t. LoopTyped
  BY DEF LoopTyped, TypeInv, AutomationTypeOK
<1>1. ASSUME NEW p \in EvolutionProposal, NEW status,
             Set(p, status), status \in Alive => proposals[p].status \in Alive
      PROVE  DefinedInv'
  BY <1>1 DEF Set, TypeInv, AutomationTypeOK, ProposalCatalog
<1>2. ASSUME NEW p \in EvolutionProposal, NEW passed \in BOOLEAN, NEW source,
             Evaluated(p, passed, source), proposals[p].status \in Alive
      PROVE  DefinedInv'
  BY <1>2 DEF Evaluated, TypeInv, AutomationTypeOK, ProposalCatalog
<1>3. ASSUME NEW p \in EvolutionProposal, NEW d \in Strategy,
             proposals' = [proposals EXCEPT ![p] =
                             [status |-> "proposed", source |-> "none", definition |-> d]]
      PROVE  DefinedInv'
  BY <1>3, UnsetAssumption DEF TypeInv, AutomationTypeOK, ProposalCatalog
<1>4. CASE LoopStep
  <2>1. CASE BeginEvaluatingCandidate \/ RejectCandidate \/ PromoteCandidate
    <3>1. Candidate \in EvolutionProposal
      BY <2>1, <1>t, CandidateTyped
         DEF BeginEvaluatingCandidate, RejectCandidate, PromoteCandidate, At, Early
    <3> QED
      BY <2>1, <3>1, <1>1
         DEF BeginEvaluatingCandidate, RejectCandidate, PromoteCandidate, Promoted, Proceeds, At
  <2>2. CASE EvaluateCandidate
    <3>1. Candidate \in EvolutionProposal
      BY <2>2, <1>t, CandidateTyped DEF EvaluateCandidate, At, Early
    <3>2. EvidencePasses \in BOOLEAN
      BY <1>t DEF EvidencePasses, Improved, LoopTyped, LoopState
    <3> QED
      BY <2>2, <3>1, <3>2, <1>2 DEF EvaluateCandidate, Proceeds, At
  <2>3. ASSUME NEW d \in Strategy, ProposeCandidate(d) PROVE DefinedInv'
    <3>1. Candidate \in EvolutionProposal
      BY <2>3, <1>t, CandidateTyped DEF ProposeCandidate, At, Early
    <3> QED
      BY <2>3, <3>1, <1>3 DEF ProposeCandidate
  <2> QED
    BY <1>4, <2>1, <2>2, <2>3
       DEF LoopStep, ResolveIncumbent, StartEvaluation, EvaluationThrows, Measured, BeginCycle,
           EvaluationEnds, ProposalFails, Throws, BeginSavingShadow, SaveShadow, Latch,
           BeginRemovingShadow, RemoveShadow, PreviewCandidate, BeginPromoting, EndLoop
<1>5. CASE PersonStep
  <2>1. ASSUME NEW p \in EvolutionProposal, NEW d \in Strategy, PersonProposes(p, d)
        PROVE  DefinedInv'
    BY <2>1, <1>3 DEF PersonProposes
  <2>2. ASSUME NEW p \in EvolutionProposal,
               \/ \E passed \in BOOLEAN : PersonEvaluates(p, passed)
               \/ PersonRejects(p) \/ PersonDeletesProposal(p) \/ PersonPromotes(p)
        PROVE  DefinedInv'
    BY <2>2, <1>1, <1>2
       DEF PersonEvaluates, PersonRejects, PersonDeletesProposal, PersonPromotes, Promoted
  <2>3. CASE PersonRollsBack
    <3>1. Head(layers).proposal \in EvolutionProposal
      BY <2>3, LayersTyped DEF PersonRollsBack, TypeInv, AutomationTypeOK
    <3> QED
      BY <2>3, <3>1, <1>1 DEF PersonRollsBack
  <2> QED
    BY <1>5, <2>1, <2>2, <2>3
       DEF PersonStep, StopLoop, PersonStartsRun, OrdinaryRunEnds, PersonActs, ActionEnds,
           CancelParkedRun, QueueCancellation, CancellationEnds, StartLoop, PersonBegins,
           PersonGivesUp, PersonSaves, EvolutionProposal, beside
<1>6. CASE HostStep \/ UNCHANGED automationVars
  BY <1>6 DEF HostStep, CloseHost, SealHost, HostExits, HostDies, Gone, RestartHost, beside,
              automationVars
<1> QED
  BY <1>4, <1>5, <1>6 DEF AutomationNext

LEMMA InitOwned == AutomationInit => OwnInv /\ DefinedInv
<1> SUFFICES ASSUME AutomationInit PROVE OwnInv /\ DefinedInv
  OBVIOUS
<1>1. OwnInv
  BY DEF AutomationInit, NoLoop, OwnInv, OwnsTheProject, At, RestoredDefault, Proven
<1>2. DefinedInv
  BY PastAssumption DEF AutomationInit, DefinedInv, Alive
<1> QED
  BY <1>1, <1>2

LEMMA LoopStepOwned ==
  ASSUME TypeInv, DefinedInv, OwnInv, LoopStep
  PROVE  OwnInv'
<1> USE DEF OwnInv, OwnsTheProject, At, people, work, targets, MayMutate, Quiescent, Unsealed
<1>t. LoopTyped
  BY DEF LoopTyped, TypeInv, AutomationTypeOK
<1>m. ASSUME NEW place, To(place) PROVE loop'.at = place
  BY <1>m, <1>t DEF To, LoopTyped, LoopState
<1>n. \A s : loop' = Measure(s) => loop'.at = "measure"
  BY <1>t DEF Measure, LoopTyped, LoopState
<1>o. Thrown => loop'.at \in {"unshadow", "ending"}
  BY <1>t DEF Thrown, LoopTyped, LoopState
<1>1. CASE ResolveIncumbent
  BY <1>1, <1>m, <1>n DEF ResolveIncumbent, Proven
<1>2. CASE StartEvaluation
  <2>1. CASE Thrown /\ UNCHANGED active
    BY <1>2, <2>1, <1>o DEF StartEvaluation
  <2>2. CASE /\ MayStart("loop") /\ active' = active \union {"evaluation"}
             /\ loop' = [loop EXCEPT !.at = "running", !.running = Named]
    <3>1. loop'.at = "running"
      BY <1>t, <2>2 DEF LoopTyped, LoopState
    <3> QED
      BY <1>2, <2>2, <3>1 DEF StartEvaluation, MayStart
  <2> QED
    BY <1>2, <2>1, <2>2 DEF StartEvaluation
<1>3. CASE EvaluationThrows
  BY <1>3, <1>o DEF EvaluationThrows
<1>4. ASSUME Measured \/ BeginCycle \/ (\E d \in Strategy : ProposeCandidate(d))
      PROVE  OwnInv'
  <2>1. loop'.at \in {"unshadow", "cycle", "proposing", "ending", "proposed"}
    <3>1. CASE Measured
      BY <3>1, <1>t DEF Measured, To, LoopTyped, LoopState
    <3>2. CASE BeginCycle
      BY <3>2, <1>t DEF BeginCycle, To, LoopTyped, LoopState
    <3> QED
      BY <1>4, <3>1, <3>2, <1>t DEF ProposeCandidate, LoopTyped, LoopState
  <2> QED
    <3>1. loop.at \in {"measure", "cycle", "proposing"}
          /\ UNCHANGED <<people, work, targets>>
      BY <1>4 DEF Measured, BeginCycle, ProposeCandidate
    <3> QED
      BY <2>1, <3>1
<1>5. ASSUME NEW o \in RunOutcome, EvaluationEnds(o) PROVE OwnInv'
  <2>1. loop'.at = "measure"
    BY <1>5, <1>t DEF EvaluationEnds, LoopTyped, LoopState
  <2> QED
    BY <1>5, <2>1 DEF EvaluationEnds
<1>6. CASE ProposalFails
  BY <1>6, <1>m DEF ProposalFails
<1>7. CASE Throws
  BY <1>7, <1>m DEF Throws
<1>8. CASE BeginSavingShadow \/ BeginRemovingShadow \/ BeginPromoting
  BY <1>8, <1>m DEF BeginSavingShadow, BeginRemovingShadow, BeginPromoting, Latch, Proceeds
<1>9. CASE SaveShadow
  BY <1>9, <1>m, <1>n DEF SaveShadow
<1>10. CASE RemoveShadow
  BY <1>10, <1>m DEF RemoveShadow
<1>11. CASE BeginEvaluatingCandidate \/ PreviewCandidate
  BY <1>11, <1>m DEF BeginEvaluatingCandidate, PreviewCandidate
<1>12. CASE EvaluateCandidate \/ RejectCandidate
  <2>1. loop'.at \in {"evaluated", "cycle"}
    BY <1>12, <1>t DEF EvaluateCandidate, RejectCandidate, LoopTyped, LoopState
  <2> QED
    BY <1>12, <2>1 DEF EvaluateCandidate, RejectCandidate
<1>13. CASE PromoteCandidate
  <2>1. Candidate \in EvolutionProposal
    BY <1>13, <1>t, CandidateTyped DEF PromoteCandidate, Early
  <2>2. target' # Unset
    BY <1>13, <2>1 DEF PromoteCandidate, Promoted, Proceeds, DefinedInv, Alive
  <2>3. loop'.at = "cycle"
    BY <1>13, <1>t DEF PromoteCandidate, LoopTyped, LoopState
  <2> QED
    BY <1>13, <2>2, <2>3 DEF PromoteCandidate, Proceeds
<1>14. CASE EndLoop
  <2>1. active \subseteq {"evaluation", "ordinary"} /\ acting \subseteq {"action", "cancel"}
        /\ mutating \in {"nobody", "loop", "person"}
    BY DEF TypeInv, AutomationTypeOK
  <2> QED
    BY <1>14, <2>1 DEF EndLoop, NoLoop
<1> QED
  BY <1>1, <1>2, <1>3, <1>4, <1>5, <1>6, <1>7, <1>8, <1>9, <1>10, <1>11, <1>12, <1>13, <1>14
     DEF LoopStep

LEMMA PersonStepOwned ==
  ASSUME TypeInv, DefinedInv, OwnInv, PersonStep
  PROVE  OwnInv'
<1> USE DEF OwnInv, OwnsTheProject, At, work, targets, beside, Quiescent, Unsealed, Owns
<1>t. LoopTyped
  BY DEF LoopTyped, TypeInv, AutomationTypeOK
<1>1. CASE StopLoop
  <2>1. loop'.at = loop.at
    BY <1>1, <1>t DEF StopLoop, LoopTyped, LoopState
  <2> QED
    BY <1>1, <2>1 DEF StopLoop, people
<1>2. ASSUME NEW c \in LoopCommand, NEW limit \in 1..MaxCycles, StartLoop(c, limit)
      PROVE  OwnInv'
  <2>1. loop'.at = "incumbent"
    BY <1>2 DEF StartLoop, NoLoop
  <2> QED
    BY <1>2, <2>1 DEF StartLoop
<1>3. CASE PersonStartsRun \/ OrdinaryRunEnds
  BY <1>3 DEF PersonStartsRun, OrdinaryRunEnds, MayStart
<1>4. CASE PersonActs
  BY <1>4 DEF PersonActs, MayAct
<1>12. CASE ActionEnds
  <2>1. CASE active' = active
    BY <1>12, <2>1 DEF ActionEnds
  <2>2. CASE MayStart("person") /\ active' = active \union {"ordinary"}
    BY <1>12, <2>2 DEF ActionEnds, MayStart
  <2> QED
    BY <1>12, <2>1, <2>2 DEF ActionEnds
<1>5. CASE CancelParkedRun \/ CancellationEnds
  BY <1>5 DEF CancelParkedRun, CancellationEnds
<1>13. CASE QueueCancellation
  BY <1>13 DEF QueueCancellation
<1>6. ASSUME Catalogs PROVE OwnInv'
  <2>1. loop'.at = loop.at
    BY <1>6, <1>t DEF Catalogs, LoopTyped, LoopState
  <2> QED
    BY <1>6, <2>1 DEF Catalogs
<1>7. CASE PersonBegins
  BY <1>7 DEF PersonBegins, MayMutate
<1>8. ASSUME Mutation, default' = "target" => target' # Unset PROVE OwnInv'
  BY <1>8 DEF Mutation
<1>9. ASSUME NEW d \in Strategy \union {Unset}, PersonSaves(d) PROVE OwnInv'
  BY <1>8, <1>9 DEF PersonSaves, PutTarget
<1>10. ASSUME NEW p \in EvolutionProposal, PersonPromotes(p) PROVE OwnInv'
  BY <1>8, <1>10 DEF PersonPromotes, Promoted, DefinedInv, Alive
<1>11. CASE PersonRollsBack \/ PersonGivesUp
  BY <1>8, <1>11 DEF PersonRollsBack, PersonGivesUp, PutTarget
<1> QED
  BY <1>1, <1>2, <1>3, <1>4, <1>5, <1>6, <1>7, <1>9, <1>10, <1>11, <1>12, <1>13
     DEF PersonStep, PersonProposes, PersonEvaluates, PersonRejects, PersonDeletesProposal

LEMMA HostStepOwned ==
  ASSUME TypeInv, OwnInv, HostStep \/ UNCHANGED automationVars
  PROVE  OwnInv'
<1> USE DEF OwnInv, OwnsTheProject, At, work, targets, beside
<1>1. CASE CloseHost
  <2>1. loop'.at = loop.at
    BY <1>1 DEF CloseHost, TypeInv, AutomationTypeOK, LoopState
  <2> QED
    BY <1>1, <2>1 DEF CloseHost
<1>2. CASE HostExits \/ HostDies
  BY <1>2 DEF HostExits, HostDies, Gone, NoLoop
<1>3. CASE RestartHost
  BY <1>3 DEF RestartHost, RestoredDefault, Proven
<1>4. CASE SealHost \/ UNCHANGED automationVars
  BY <1>4 DEF SealHost, automationVars
<1> QED
  BY <1>1, <1>2, <1>3, <1>4 DEF HostStep

AutomationInv == TypeInv /\ DefinedInv /\ OwnInv
LEMMA AutomationInvariant == AutomationSpec => []AutomationInv
<1>1. AutomationInv /\ [AutomationNext]_automationVars => AutomationInv'
  <2>1. TypeInv /\ UNCHANGED automationVars => TypeInv'
    BY DEF TypeInv, automationVars, AutomationTypeOK, PlaceInv
  <2> QED
    BY <2>1, LoopStepTyped, PersonStepTyped, HostStepTyped, ProposalsStayDefined, LoopStepOwned,
       PersonStepOwned, HostStepOwned DEF AutomationInv, AutomationNext
<1> QED
  BY <1>1, InitTyped, InitOwned, PTL DEF AutomationSpec, AutomationInv

(* While a loop owns the project nobody else executes, acts or changes a   *)
(* target; nothing executes beside a target mutation; the owner is the     *)
(* loop that runs.                                                         *)
THEOREM ProjectOwned == AutomationSpec => []OwnsTheProject
  BY AutomationInvariant, PTL DEF AutomationInv, OwnInv

-----------------------------------------------------------------------------
(***************************************************************************)
(* What a loop promotes is better than the strategy in force.  While it    *)
(* owns the project no target moves, so what it measured as the incumbent  *)
(* is what is in force, and its memory holds the worst of the runs that    *)
(* the history holds.                                                      *)
(***************************************************************************)
InForce == IF target = Unset THEN Baseline ELSE target

(* A result stands for a set of runs of one strategy: it is their worst.   *)
StandsFor(result, runs, ran) ==
  /\ result # Unset
  /\ \E m \in runs : m.outcome.score <= result.score
  /\ \A m \in runs : m.ran = ran /\ m.outcome.score >= result.score
                     /\ (result.passed => m.outcome.passed)
SoFar(result, runs, ran) ==
  IF result = Unset THEN runs = {} ELSE StandsFor(result, runs, ran)

Measuring == loop.at \in {"measure", "running"}
MeasuringCandidate == Measuring /\ loop.strategy = "shadow"
Proposing == {"proposing", "proposed", "shadowing"}
Deciding ==
  {"unshadow", "unshadowing", "deciding", "evaluating", "evaluated", "previewed", "promoting"}

IncumbentInv ==
  /\ loop.at \in {"idle", "incumbent"} => evidence.incumbent = {}
  /\ Measuring /\ loop.strategy # "shadow" =>
       /\ SoFar(loop.worst, evidence.incumbent, InForce)
       /\ loop.strategy = IF target = Unset THEN "baseline" ELSE "target"
  /\ loop.at \in {"cycle"} \union Proposing \union Deciding \/ MeasuringCandidate =>
       StandsFor(loop.incumbent, evidence.incumbent, InForce)

CandidateInv ==
  /\ loop.at \in Proposing => evidence.candidate = {}
  /\ Measuring /\ loop.strategy = "shadow" => SoFar(loop.worst, evidence.candidate, loop.candidate)
  /\ loop.at \in Deciding =>
       \/ loop.at \in {"unshadow", "unshadowing"} /\ loop.failed
       \/ StandsFor(loop.worst, evidence.candidate, loop.candidate)
  /\ loop.at \in {"previewed", "promoting"} => Improved
  /\ loop.at \in {"proposed", "shadowing"} \union Deciding \/ MeasuringCandidate =>
       proposals[Candidate].definition = loop.candidate /\ proposals[Candidate].status # "absent"

MeasureInv ==
  /\ Measuring /\ loop.worst = Unset => loop.left = Repeats
  /\ loop.at = "running" =>
       loop.running = IF loop.strategy = "shadow" THEN loop.candidate ELSE InForce

EvidenceInv == IncumbentInv /\ CandidateInv /\ MeasureInv

LEMMA WorstStands ==
  ASSUME NEW result \in Result \union {Unset}, NEW runs \in SUBSET Measurement,
         NEW ran \in Strategy \union {Baseline}, NEW o \in RunOutcome, SoFar(result, runs, ran)
  PROVE  StandsFor(Worst(result, o), runs \union {[ran |-> ran, outcome |-> o]}, ran)
<1> DEFINE new == [ran |-> ran, outcome |-> o]
<1>1. new.ran = ran /\ new.outcome = o
  OBVIOUS
<1>2. o \in Result /\ o.score \in Int /\ o.passed \in BOOLEAN /\ Unset \notin Result
  BY RunOutcomeAssumption, UnsetAssumption DEF Result
<1>3. \A m \in runs :
        m.outcome \in Result /\ m.outcome.score \in Int /\ m.outcome.passed \in BOOLEAN
  BY RunOutcomeAssumption DEF Measurement, Result
<1> HIDE DEF new
<1>4. CASE result = Unset
  <2>1. Worst(result, o) = o /\ runs = {}
    BY <1>4 DEF Worst, SoFar
  <2> QED
    BY <1>1, <1>2, <2>1 DEF StandsFor, new
<1>5. CASE result # Unset
  <2>1. result \in Result /\ result.score \in Int /\ result.passed \in BOOLEAN
    BY <1>5 DEF Result
  <2>2. StandsFor(result, runs, ran)
    BY <1>5 DEF SoFar
  <2>3. /\ Worst(result, o).passed = (result.passed /\ o.passed)
        /\ Worst(result, o).score = IF result.score < o.score THEN result.score ELSE o.score
        /\ Worst(result, o) \in Result
    BY <1>2, <1>5, <2>1 DEF Worst, Result
  <2>4. \E m \in runs \union {new} : m.outcome.score <= Worst(result, o).score
    BY <1>1, <1>2, <2>1, <2>2, <2>3 DEF StandsFor
  <2>5. ASSUME NEW m \in runs \union {new}
        PROVE  /\ m.ran = ran /\ m.outcome.score >= Worst(result, o).score
               /\ Worst(result, o).passed => m.outcome.passed
    <3>1. CASE m = new
      BY <3>1, <1>1, <1>2, <2>1, <2>3
    <3>2. CASE m \in runs
      BY <3>2, <1>2, <1>3, <2>1, <2>2, <2>3 DEF StandsFor
    <3> QED
      BY <3>1, <3>2
  <2> QED
    BY <1>2, <2>3, <2>4, <2>5 DEF StandsFor, new
<1> QED
  BY <1>4, <1>5

(* A step that leaves the measurements alone. *)
Undisturbed ==
  /\ loop' \in LoopState /\ loop'.at = loop.at /\ loop'.strategy = loop.strategy
  /\ loop'.worst = loop.worst /\ loop'.incumbent = loop.incumbent
  /\ loop'.candidate = loop.candidate /\ loop'.running = loop.running /\ loop'.left = loop.left
  /\ loop'.failed = loop.failed /\ loop'.command = loop.command /\ loop'.cycle = loop.cycle
  /\ evidence' = evidence
Kept ==
  \A p \in EvolutionProposal : proposals[p].status # "absent" =>
    proposals'[p].definition = proposals[p].definition /\ proposals'[p].status # "absent"

LEMMA UndisturbedStep ==
  ASSUME TypeInv, EvidenceInv, Undisturbed, Kept, loop.at # "idle" => target' = target
  PROVE  EvidenceInv'
<1> USE DEF EvidenceInv, Undisturbed
<1>t. LoopTyped
  BY DEF LoopTyped, TypeInv, AutomationTypeOK
<1>1. IncumbentInv'
  BY DEF IncumbentInv, Measuring, MeasuringCandidate, Proposing, Deciding, InForce
<1>2. CandidateInv'
  <2>1. Improved' <=> Improved
    BY DEF Improved
  <2>2. Candidate' = Candidate
    BY DEF Candidate
  <2>3. loop.at \in {"proposed", "shadowing"} \union Deciding \/ MeasuringCandidate
          => Candidate \in EvolutionProposal
    BY <1>t, CandidateTyped DEF Deciding, Measuring, MeasuringCandidate, Early
  <2>4. loop.at \in {"proposed", "shadowing"} \union Deciding \/ MeasuringCandidate
          => /\ proposals'[Candidate].definition = loop.candidate
             /\ proposals'[Candidate].status # "absent"
    BY <2>3 DEF CandidateInv, Kept
  <2> QED
    BY <2>1, <2>2, <2>4 DEF CandidateInv, Measuring, MeasuringCandidate, Proposing, Deciding
<1>3. MeasureInv'
  BY DEF MeasureInv, Measuring, InForce
<1> QED
  BY <1>1, <1>2, <1>3

LEMMA ForgottenEvidence ==
  ASSUME loop'.at \in {"idle", "incumbent"}, evidence'.incumbent = {}
  PROVE  EvidenceInv'
  BY DEF EvidenceInv, IncumbentInv, CandidateInv, MeasureInv, Measuring, MeasuringCandidate,
         Proposing, Deciding

LEMMA EndedEvidence ==
  ASSUME loop'.at = "ending"
  PROVE  EvidenceInv'
  BY DEF EvidenceInv, IncumbentInv, CandidateInv, MeasureInv, Measuring, MeasuringCandidate,
         Proposing, Deciding

LEMMA CatalogKept ==
  ASSUME TypeInv, NEW p \in EvolutionProposal
  PROVE  /\ \A status : status # "absent" /\ Set(p, status) => Kept
         /\ \A passed, source : Evaluated(p, passed, source) => Kept
         /\ \A d : proposals[p].status = "absent" /\
                   proposals' = [proposals EXCEPT ![p] =
                                   [status |-> "proposed", source |-> "none", definition |-> d]]
                     => Kept
  BY DEF TypeInv, AutomationTypeOK, ProposalCatalog, Set, Evaluated, Kept

LEMMA PersonStepMeasured ==
  ASSUME TypeInv, OwnInv, EvidenceInv, PersonStep
  PROVE  EvidenceInv'
<1>t. loop \in LoopState
  BY DEF TypeInv, AutomationTypeOK
<1>u. UNCHANGED proposals => Kept
  BY DEF Kept
<1>f. ASSUME NEW b \in BOOLEAN, UNCHANGED evidence,
             \/ UNCHANGED loop
             \/ loop' = [loop EXCEPT !.stop = b] \/ loop' = [loop EXCEPT !.current = b]
      PROVE  Undisturbed
  BY <1>f, <1>t DEF Undisturbed, LoopState
<1> USE DEF beside, targets, work, people
<1>1. CASE StopLoop
  BY <1>1, <1>f, <1>u, UndisturbedStep DEF StopLoop
<1>2. ASSUME NEW c \in LoopCommand, NEW limit \in 1..MaxCycles, StartLoop(c, limit)
      PROVE  EvidenceInv'
  <2>1. loop'.at = "incumbent" /\ evidence'.incumbent = {}
    BY <1>2 DEF StartLoop, NoLoop, EvidenceInv, IncumbentInv, At
  <2> QED
    BY <2>1, ForgottenEvidence
<1>3. CASE \/ PersonStartsRun \/ OrdinaryRunEnds \/ PersonActs \/ ActionEnds \/ PersonBegins
           \/ CancelParkedRun \/ QueueCancellation \/ CancellationEnds
  <2>1. UNCHANGED <<targets, proposals, loop, evidence>>
    BY <1>3 DEF PersonStartsRun, OrdinaryRunEnds, PersonActs, ActionEnds, PersonBegins,
                CancelParkedRun, QueueCancellation, CancellationEnds
  <2> QED
    BY <2>1, <1>f, <1>u, UndisturbedStep
<1>4. ASSUME Catalogs, Kept PROVE EvidenceInv'
  BY <1>4, <1>f, UndisturbedStep DEF Catalogs
<1>5. ASSUME NEW p \in EvolutionProposal,
             \/ \E d \in Strategy : PersonProposes(p, d)
             \/ \E passed \in BOOLEAN : PersonEvaluates(p, passed)
             \/ PersonRejects(p) \/ PersonDeletesProposal(p)
      PROVE  EvidenceInv'
  BY <1>4, <1>5, CatalogKept
     DEF PersonProposes, PersonEvaluates, PersonRejects, PersonDeletesProposal
<1>6. ASSUME Mutation, Kept PROVE EvidenceInv'
  <2>1. loop.at = "idle" /\ UNCHANGED <<loop, evidence>>
    BY <1>6 DEF Mutation, OwnInv, OwnsTheProject, At
  <2> QED
    BY <2>1, <1>6, <1>f, UndisturbedStep
<1>7. ASSUME NEW p \in EvolutionProposal, PersonPromotes(p) PROVE EvidenceInv'
  BY <1>6, <1>7, CatalogKept DEF PersonPromotes, Promoted
<1>8. CASE PersonRollsBack
  <2>1. Head(layers).proposal \in EvolutionProposal
    BY <1>8, LayersTyped DEF PersonRollsBack, TypeInv, AutomationTypeOK
  <2> QED
    BY <1>6, <1>8, <2>1, CatalogKept DEF PersonRollsBack
<1>9. CASE PersonGivesUp \/ \E d \in Strategy \union {Unset} : PersonSaves(d)
  BY <1>6, <1>9, <1>u DEF PersonGivesUp, PersonSaves
<1> QED
  BY <1>1, <1>2, <1>3, <1>5, <1>7, <1>8, <1>9 DEF PersonStep, EvolutionProposal

LEMMA HostStepMeasured ==
  ASSUME TypeInv, EvidenceInv, HostStep \/ UNCHANGED automationVars
  PROVE  EvidenceInv'
<1>1. CASE CloseHost \/ SealHost \/ RestartHost \/ UNCHANGED automationVars
  <2>1. Undisturbed
    BY <1>1, ZenonT(40) DEF CloseHost, SealHost, RestartHost, automationVars, beside, Undisturbed, LoopState,
                TypeInv, AutomationTypeOK, At
  <2> QED
    BY <1>1, <2>1, UndisturbedStep
       DEF CloseHost, SealHost, RestartHost, automationVars, beside, targets, Kept
<1>2. CASE HostExits \/ HostDies
  BY <1>2, ForgottenEvidence DEF HostExits, HostDies, Gone, NoLoop, NoEvidence
<1> QED
  BY <1>1, <1>2 DEF HostStep

LEMMA LoopStepMeasured ==
  ASSUME TypeInv, DefinedInv, OwnInv, EvidenceInv, LoopStep
  PROVE  EvidenceInv'
<1> USE DEF EvidenceInv, At, people, work, targets, Measuring, MeasuringCandidate, Proposing,
            Deciding
<1>t. LoopTyped
  BY DEF LoopTyped, TypeInv, AutomationTypeOK
<1>m. ASSUME NEW place, To(place)
      PROVE  /\ loop'.at = place /\ loop'.strategy = loop.strategy /\ loop'.worst = loop.worst
             /\ loop'.incumbent = loop.incumbent /\ loop'.candidate = loop.candidate
             /\ loop'.failed = loop.failed /\ loop'.command = loop.command
             /\ loop'.cycle = loop.cycle
  BY <1>m, <1>t DEF To, LoopTyped, LoopState
<1>n. ASSUME NEW s, loop' = Measure(s)
      PROVE  /\ loop'.at = "measure" /\ loop'.strategy = s /\ loop'.worst = Unset
             /\ loop'.incumbent = loop.incumbent /\ loop'.candidate = loop.candidate
             /\ loop'.command = loop.command /\ loop'.cycle = loop.cycle /\ loop'.left = Repeats
  BY <1>n, <1>t DEF Measure, LoopTyped, LoopState
<1>o. ASSUME Thrown
      PROVE  /\ loop'.at = (IF loop.strategy = "shadow" THEN "unshadow" ELSE "ending")
             /\ loop'.failed = TRUE /\ loop'.incumbent = loop.incumbent
             /\ loop'.candidate = loop.candidate /\ loop'.command = loop.command
             /\ loop'.cycle = loop.cycle
  BY <1>o, <1>t DEF Thrown, LoopTyped, LoopState
<1>i. /\ loop'.command = loop.command /\ loop'.cycle = loop.cycle => Candidate' = Candidate
      /\ target' = target => InForce' = InForce
  BY DEF Candidate, InForce
(* A measurement begins. *)
<1>1. CASE ResolveIncumbent
  <2>1. CASE To("ending")
    BY <2>1, <1>m, EndedEvidence
  <2>2. CASE Proven /\ loop' = Measure("target")
    BY <1>1, <2>2, <1>n, <1>i
       DEF ResolveIncumbent, Proven, IncumbentInv, CandidateInv, MeasureInv, SoFar
  <2>3. CASE target = Unset /\ loop' = Measure("baseline")
    BY <1>1, <2>3, <1>n, <1>i
       DEF ResolveIncumbent, IncumbentInv, CandidateInv, MeasureInv, SoFar
  <2> QED
    BY <1>1, <2>1, <2>2, <2>3 DEF ResolveIncumbent
<1>2. CASE SaveShadow
  <2>1. CASE To("ending")
    BY <2>1, <1>m, EndedEvidence
  <2>2. CASE loop' = Measure("shadow")
    <3>1. /\ UNCHANGED <<target, proposals, evidence>> /\ evidence.candidate = {}
          /\ StandsFor(loop.incumbent, evidence.incumbent, InForce)
          /\ proposals[Candidate].definition = loop.candidate
          /\ proposals[Candidate].status # "absent"
      BY <1>2 DEF SaveShadow, IncumbentInv, CandidateInv
    <3> QED
      BY <2>2, <3>1, <1>n, <1>i
         DEF IncumbentInv, CandidateInv, MeasureInv, SoFar
  <2> QED
    BY <1>2, <2>1, <2>2 DEF SaveShadow
(* A run of it. *)
<1>3. CASE StartEvaluation
  <2>1. CASE Thrown
    BY <1>3, <2>1, <1>o, <1>i, EndedEvidence
       DEF StartEvaluation, IncumbentInv, CandidateInv, MeasureInv
  <2>2. CASE Named # Unset /\ loop' = [loop EXCEPT !.at = "running", !.running = Named]
    <3>1. /\ loop'.at = "running" /\ loop'.strategy = loop.strategy /\ loop'.worst = loop.worst
          /\ loop'.incumbent = loop.incumbent /\ loop'.candidate = loop.candidate
          /\ loop'.left = loop.left /\ loop'.command = loop.command /\ loop'.cycle = loop.cycle
          /\ loop'.running = Named
      BY <2>2, <1>t DEF LoopTyped, LoopState
    <3>2. Named = IF loop.strategy = "shadow" THEN loop.candidate ELSE InForce
      BY <1>3, <2>2, <1>t
         DEF StartEvaluation, Named, InForce, IncumbentInv, LoopTyped, LoopState
    <3> QED
      BY <1>3, <3>1, <3>2, <1>i
         DEF StartEvaluation, IncumbentInv, CandidateInv, MeasureInv
  <2> QED
    BY <1>3, <2>1, <2>2 DEF StartEvaluation
<1>4. CASE EvaluationThrows
  BY <1>4, <1>o, <1>i, EndedEvidence
     DEF EvaluationThrows, IncumbentInv, CandidateInv, MeasureInv
<1>5. ASSUME NEW o \in RunOutcome, EvaluationEnds(o) PROVE EvidenceInv'
  <2>1. /\ loop'.at = "measure" /\ loop'.strategy = loop.strategy
        /\ loop'.worst = Worst(loop.worst, o)
        /\ loop'.incumbent = loop.incumbent /\ loop'.candidate = loop.candidate
        /\ loop'.command = loop.command /\ loop'.cycle = loop.cycle
    BY <1>5, <1>t DEF EvaluationEnds, LoopTyped, LoopState
  <2>2. /\ loop.running \in Strategy \union {Baseline} /\ loop.worst \in Result \union {Unset}
        /\ evidence.incumbent \in SUBSET Measurement /\ evidence.candidate \in SUBSET Measurement
    BY <1>5, <1>t DEF EvaluationEnds, LoopTyped, PlaceInv, LoopState, TypeInv, AutomationTypeOK
  <2> DEFINE new == [ran |-> loop.running, outcome |-> o]
  <2>3. CASE loop.strategy = "shadow"
    <3>1. evidence'.incumbent = evidence.incumbent
          /\ evidence'.candidate = evidence.candidate \union {new}
      BY <1>5, <2>3 DEF EvaluationEnds, Side, TypeInv, AutomationTypeOK
    <3>2. StandsFor(Worst(loop.worst, o), evidence.candidate \union {new}, loop.candidate)
      BY <1>5, <2>2, <2>3, WorstStands DEF EvaluationEnds, CandidateInv, MeasureInv
    <3>3. StandsFor(loop.incumbent, evidence.incumbent, InForce)
      BY <1>5, <2>3 DEF EvaluationEnds, IncumbentInv
    <3> QED
      BY <1>5, <1>i, <2>1, <2>3, <3>1, <3>2, <3>3
         DEF EvaluationEnds, IncumbentInv, CandidateInv, MeasureInv,
             SoFar, StandsFor
  <2>4. CASE loop.strategy # "shadow"
    <3>1. evidence'.incumbent = evidence.incumbent \union {new}
      BY <1>5, <2>4 DEF EvaluationEnds, Side, TypeInv, AutomationTypeOK
    <3>2. StandsFor(Worst(loop.worst, o), evidence.incumbent \union {new}, InForce)
      BY <1>5, <2>2, <2>4, WorstStands DEF EvaluationEnds, IncumbentInv, MeasureInv
    <3> QED
      BY <1>5, <1>i, <2>1, <2>4, <3>1, <3>2
         DEF EvaluationEnds, IncumbentInv, CandidateInv, MeasureInv,
             SoFar, StandsFor
  <2> QED
    BY <2>3, <2>4
(* It is complete: its worst run is not Unset. *)
<1>6. CASE Measured
  <2>1. loop.worst # Unset
    BY <1>6, CycleAssumption DEF Measured, MeasureInv
  <2>2. CASE loop.strategy = "shadow"
    BY <1>6, <2>1, <2>2, <1>m, <1>i
       DEF Measured, IncumbentInv, CandidateInv, MeasureInv, SoFar
  <2>3. CASE loop.strategy # "shadow"
    <3>1. loop'.at = "cycle" /\ loop'.incumbent = loop.worst
      BY <1>6, <2>3, <1>t DEF Measured, LoopTyped, LoopState
    <3> QED
      BY <1>6, <2>1, <2>3, <3>1, <1>i
         DEF Measured, IncumbentInv, CandidateInv, MeasureInv, SoFar
  <2> QED
    BY <2>2, <2>3
<1>7. CASE BeginCycle
  <2>1. CASE To("ending")
    BY <2>1, <1>m, EndedEvidence
  <2>2. CASE loop' = [loop EXCEPT !.at = "proposing", !.cycle = @ + 1]
    <3>1. loop'.at = "proposing" /\ loop'.incumbent = loop.incumbent
      BY <2>2, <1>t DEF LoopTyped, LoopState
    <3>2. evidence'.candidate = {} /\ evidence'.incumbent = evidence.incumbent
      BY <1>7 DEF BeginCycle, TypeInv, AutomationTypeOK
    <3> QED
      <4>1. UNCHANGED target /\ StandsFor(loop.incumbent, evidence.incumbent, InForce)
        BY <1>7 DEF BeginCycle, IncumbentInv
      <4> QED
        BY <3>1, <3>2, <4>1, <1>i
           DEF IncumbentInv, CandidateInv, MeasureInv
  <2> QED
    BY <1>7, <2>1, <2>2 DEF BeginCycle
<1>8. ASSUME NEW d \in Strategy, ProposeCandidate(d) PROVE EvidenceInv'
  <2>1. Candidate \in EvolutionProposal
    BY <1>8, <1>t, CandidateTyped DEF ProposeCandidate, Early
  <2>2. proposals'[Candidate].definition = d /\ proposals'[Candidate].status = "proposed"
    BY <1>8, <2>1 DEF ProposeCandidate, TypeInv, AutomationTypeOK, ProposalCatalog
  <2>3. /\ loop'.at = "proposed" /\ loop'.incumbent = loop.incumbent /\ loop'.candidate = d
        /\ loop'.command = loop.command /\ loop'.cycle = loop.cycle
    BY <1>8, <1>t DEF ProposeCandidate, LoopTyped, LoopState
  <2> QED
    BY <1>8, <2>2, <2>3, <1>i
       DEF ProposeCandidate, IncumbentInv, CandidateInv, MeasureInv
<1>9. CASE ProposalFails \/ Throws \/ EndLoop
  <2>1. CASE ProposalFails \/ Throws
    BY <2>1, <1>m, EndedEvidence DEF ProposalFails, Throws
  <2>2. CASE EndLoop
    BY <2>2, ForgottenEvidence DEF EndLoop, NoLoop, NoEvidence
  <2> QED
    BY <1>9, <2>1, <2>2
(* From place to place with the same measurements. *)
<1>10. ASSUME NEW place, To(place), UNCHANGED <<target, proposals, evidence>>,
              \/ loop.at = "proposed" /\ place = "shadowing"
              \/ loop.at = "unshadow" /\ place = "unshadowing"
              \/ loop.at = "unshadowing" /\ place = "deciding" /\ ~loop.failed
              \/ loop.at = "evaluated" /\ place = "previewed" /\ Improved
              \/ loop.at = "previewed" /\ place = "promoting"
       PROVE  EvidenceInv'
  <2>1. Improved' <=> Improved
    BY <1>10, <1>m DEF Improved
  <2> QED
    BY <1>10, <1>m, <1>i, <2>1
       DEF IncumbentInv, CandidateInv, MeasureInv
<1>11. CASE BeginSavingShadow \/ BeginRemovingShadow \/ BeginPromoting \/ PreviewCandidate
  BY <1>11, <1>10
     DEF BeginSavingShadow, BeginRemovingShadow, BeginPromoting, PreviewCandidate, Latch
<1>12. CASE RemoveShadow
  BY <1>12, <1>10, <1>m, EndedEvidence DEF RemoveShadow
<1>13. CASE BeginEvaluatingCandidate \/ EvaluateCandidate
  <2>1. Candidate \in EvolutionProposal
    BY <1>13, <1>t, CandidateTyped DEF BeginEvaluatingCandidate, EvaluateCandidate, Early
  <2>2. Kept
    <3>1. CASE BeginEvaluatingCandidate
      BY <3>1, <2>1, CatalogKept DEF BeginEvaluatingCandidate
    <3>2. CASE EvaluateCandidate
      BY <3>2, <2>1, CatalogKept DEF EvaluateCandidate
    <3> QED
      BY <1>13, <3>1, <3>2
  <2>3. proposals'[Candidate].definition = loop.candidate /\ proposals'[Candidate].status # "absent"
    BY <1>13, <2>1, <2>2
       DEF BeginEvaluatingCandidate, EvaluateCandidate, Kept, CandidateInv
  <2>4. /\ loop'.at \in {"evaluating", "evaluated"} /\ loop'.worst = loop.worst
        /\ loop'.incumbent = loop.incumbent /\ loop'.candidate = loop.candidate
        /\ loop'.command = loop.command /\ loop'.cycle = loop.cycle
    <3>1. CASE BeginEvaluatingCandidate
      BY <3>1, <1>m DEF BeginEvaluatingCandidate
    <3>2. CASE EvaluateCandidate
      BY <3>2, <1>t DEF EvaluateCandidate, LoopTyped, LoopState
    <3> QED
      BY <1>13, <3>1, <3>2
  <2>5. /\ UNCHANGED <<target, evidence>>
        /\ StandsFor(loop.worst, evidence.candidate, loop.candidate)
        /\ StandsFor(loop.incumbent, evidence.incumbent, InForce)
    BY <1>13 DEF BeginEvaluatingCandidate, EvaluateCandidate, IncumbentInv, CandidateInv
  <2> QED
    BY <2>3, <2>4, <2>5, <1>i
       DEF IncumbentInv, CandidateInv, MeasureInv
(* The incumbent stays, or the candidate takes its place. *)
<1>14. CASE RejectCandidate
  <2>1. loop'.at = "cycle" /\ loop'.incumbent = loop.incumbent
    BY <1>14, <1>t DEF RejectCandidate, LoopTyped, LoopState
  <2> QED
    BY <1>14, <2>1, <1>i
       DEF RejectCandidate, IncumbentInv, CandidateInv, MeasureInv
<1>15. CASE PromoteCandidate
  <2>1. Candidate \in EvolutionProposal
    BY <1>15, <1>t, CandidateTyped DEF PromoteCandidate, Early
  <2>2. target' = loop.candidate /\ target' # Unset
    <3>1. proposals[Candidate].definition = loop.candidate
      BY <1>15 DEF PromoteCandidate, CandidateInv
    <3>2. proposals[Candidate].status = "passed" /\ target' = proposals[Candidate].definition
      BY <1>15 DEF PromoteCandidate, Promoted, Proceeds
    <3> QED
      BY <2>1, <3>1, <3>2 DEF DefinedInv, Alive
  <2>3. loop'.at = "cycle" /\ loop'.incumbent = loop.worst
    BY <1>15, <1>t DEF PromoteCandidate, LoopTyped, LoopState
  <2>4. evidence'.incumbent = evidence.candidate
    BY <1>15 DEF PromoteCandidate, TypeInv, AutomationTypeOK
  <2>5. StandsFor(loop.worst, evidence.candidate, loop.candidate)
    BY <1>15 DEF PromoteCandidate, CandidateInv
  <2> QED
    BY <2>2, <2>3, <2>4, <2>5
       DEF InForce, IncumbentInv, CandidateInv, MeasureInv
<1> QED
  BY <1>1, <1>2, <1>3, <1>4, <1>5, <1>6, <1>7, <1>8, <1>9, <1>11, <1>12, <1>13, <1>14, <1>15
     DEF LoopStep

BetterInv == AutomationInv /\ EvidenceInv

LEMMA PromotionIsBetter ==
  ASSUME BetterInv, [AutomationNext]_automationVars, mutating = "loop", layers' # layers
  PROVE  BetterThanIncumbent /\ default' = "target"
<1>t. LoopTyped
  BY DEF LoopTyped, BetterInv, AutomationInv, TypeInv, AutomationTypeOK
<1>1. PromoteCandidate
  <2>1. ~Mutation
    BY DEF Mutation
  <2> QED
    BY <2>1
       DEF AutomationNext, LoopStep, PersonStep, HostStep, people, work, targets, beside,
           automationVars, ResolveIncumbent, StartEvaluation, EvaluationThrows, Measured,
           BeginCycle, EvaluationEnds, ProposeCandidate, ProposalFails, Throws, BeginSavingShadow,
           SaveShadow,
           Latch, BeginRemovingShadow, RemoveShadow, BeginEvaluatingCandidate, EvaluateCandidate,
           PreviewCandidate, RejectCandidate, BeginPromoting, EndLoop, StopLoop, PersonStartsRun,
           OrdinaryRunEnds, PersonActs, ActionEnds, CancelParkedRun, QueueCancellation,
           CancellationEnds, StartLoop, Catalogs, PersonProposes, PersonEvaluates, PersonRejects,
           PersonDeletesProposal, PersonBegins, PersonSaves, PersonPromotes, PersonRollsBack,
           PersonGivesUp, CloseHost, SealHost, HostExits, HostDies, Gone, RestartHost
<1>2. /\ StandsFor(loop.worst, evidence.candidate, loop.candidate)
      /\ StandsFor(loop.incumbent, evidence.incumbent, InForce) /\ Improved
      /\ proposals[Candidate].definition = loop.candidate
  <2>1. loop.at = "promoting" /\ IncumbentInv /\ CandidateInv
    BY <1>1 DEF PromoteCandidate, At, BetterInv, EvidenceInv
  <2> QED
    BY <2>1 DEF IncumbentInv, CandidateInv, Deciding
<1>3. target' = loop.candidate /\ default' = "target"
  BY <1>1, <1>2 DEF PromoteCandidate, Promoted
<1>4. /\ \A m \in evidence.candidate \union evidence.incumbent : m.outcome.score \in Int
      /\ loop.worst.score \in Int /\ loop.incumbent.score \in Int /\ Delta \in Nat
  <2>1. \A m \in evidence.candidate \union evidence.incumbent : m \in Measurement
    BY DEF BetterInv, AutomationInv, TypeInv, AutomationTypeOK
  <2>2. loop.worst \in Result /\ loop.incumbent \in Result
    BY <1>t, <1>2 DEF StandsFor, LoopTyped, LoopState
  <2> QED
    BY <2>1, <2>2, CycleAssumption, RunOutcomeAssumption DEF Measurement, Result
<1>5. PICK i \in evidence.incumbent : i.outcome.score <= loop.incumbent.score
  BY <1>2 DEF StandsFor
<1>6. loop.worst.score - loop.incumbent.score >= Delta /\ loop.worst.passed
  BY <1>2 DEF Improved
<1>7. \A c \in evidence.candidate : c.outcome.score - i.outcome.score >= Delta
  BY <1>2, <1>4, <1>5, <1>6 DEF StandsFor
<1>8. /\ evidence.candidate # {}
      /\ \A c \in evidence.candidate : c.ran = target' /\ c.outcome.passed
      /\ \A j \in evidence.incumbent : j.ran = InForce
  BY <1>2, <1>3, <1>6 DEF StandsFor
<1> QED
  BY <1>3, <1>5, <1>7, <1>8 DEF BetterThanIncumbent, InForce

(* What a loop promotes was measured under its own definition, passed in   *)
(* every run, and is better by the required delta than what is in force    *)
(* when the promotion happens.                                             *)
THEOREM BetterPromoted == AutomationSpec => PromotesTheBetter
<1>1. AutomationInit => EvidenceInv
  BY DEF AutomationInit, NoLoop, NoEvidence, EvidenceInv, IncumbentInv, CandidateInv, MeasureInv,
         Measuring, MeasuringCandidate, Proposing, Deciding
<1>2. AutomationInv /\ EvidenceInv /\ [AutomationNext]_automationVars => EvidenceInv'
  BY LoopStepMeasured, PersonStepMeasured, HostStepMeasured DEF AutomationInv, AutomationNext
<1>3. AutomationInv /\ EvidenceInv /\ [AutomationNext]_automationVars
        => [mutating = "loop" /\ layers' # layers
              => BetterThanIncumbent /\ default' = "target"]_automationVars
  BY PromotionIsBetter DEF BetterInv
<1> QED
  BY <1>1, <1>2, <1>3, AutomationInvariant, PTL DEF AutomationSpec, PromotesTheBetter
====

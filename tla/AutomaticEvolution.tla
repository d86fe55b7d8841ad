------------------------- MODULE AutomaticEvolution -------------------------
(***************************************************************************)
(* The bounded loop that improves a project's strategy by itself           *)
(* (evolution/automatic-controller.ts, ADR 0017), with what the supervisor *)
(* and the evolution service let people do meanwhile.  A loop owns the     *)
(* project: it measures the strategy in force by evaluation runs, has an   *)
(* agent propose another one, measures that one under a name of its own    *)
(* (its shadow), and promotes it when it is better.                        *)
(*                                                                         *)
(* A step of the loop is what it does between two awaits.  A promotion or  *)
(* a rollback happens as a whole or not at all: that is what the module    *)
(* ApplicationPromise says of the coordinator that executes them.          *)
(***************************************************************************)
EXTENDS Integers, Sequences

CONSTANTS
  LoopCommand,      \* the commands that start a loop
  Strategy,         \* definitions a person can write or an agent propose
  Baseline,         \* the configured strategy
  Manual,           \* proposals of people
  MaxCycles,
  MaxFruitless,     \* maxConsecutiveNoImprovement
  Repeats,          \* evaluation runs of a strategy
  RunOutcome,       \* how an evaluation run ends
  Delta,            \* minimumScoreDelta
  Unset,
  Past,             \* what a project may look like when its service starts
  MaxMoves,         \* bound on what people begin
  MaxAccidents      \* bound on deaths of the service and on writes that fail

Result == [passed : BOOLEAN, score : Int]   \* of a run, and of a suite

ASSUME CycleAssumption ==
  MaxCycles \in Nat \ {0} /\ MaxFruitless \in Nat \ {0} /\ Repeats \in Nat \ {0} /\ Delta \in Nat
ASSUME RunOutcomeAssumption ==
  RunOutcome \subseteq Result /\ RunOutcome # {}
ASSUME AutomationBounds == MaxMoves \in Nat /\ MaxAccidents \in Nat

Automatic == LoopCommand \X (1..MaxCycles)   \* proposals of loops
EvolutionProposal == Automatic \union Manual

EvolutionStatus ==
  {"absent", "proposed", "evaluating", "passed", "failed", "promoted", "rolled-back", "rejected",
   "deleted"}
\* Evidence from runs (server-automatic-run-evaluation-v1), or from the preflight people ask for.
Source == {"none", "runs", "preflight"}
ProposalCatalog ==
  [EvolutionProposal ->
     [status : EvolutionStatus, source : Source, definition : Strategy \union {Unset}]]
Layers == Seq([proposal : EvolutionProposal, covered : Strategy \union {Unset}])

ASSUME UnsetAssumption ==
  /\ Unset \notin Strategy \union {Baseline} \union LoopCommand \union Result
  /\ Baseline \notin Strategy /\ Automatic \intersect Manual = {}
ASSUME PastAssumption ==
  /\ Past \subseteq [target : Strategy \union {Unset}, layers : Layers, proposals : ProposalCatalog]
  /\ \A past \in Past, p \in EvolutionProposal :
       past.proposals[p].status = "absent" <=> past.proposals[p].definition = Unset

VARIABLES
  host,       \* the service: "up", "closing", "sealed" or "down"
  owner,      \* a loop owns the project (automationOwner)
  mutating,   \* who changes a target (evolutionMutationActive)
  active,     \* the kinds of runs that execute
  acting,     \* the kinds of run actions in a queue
  cancelling, \* the cancellation of a parked run has passed its check and reads the run
  target,     \* the strategy under the name the loop evolves, if there is one
  shadow,     \* the proposals whose shadow exists
  default,    \* which strategy a run uses that names none
  proposals,  \* the catalog
  layers,     \* the applications in force, the topmost first, and what each one covered
  started,    \* start commands whose claim is recorded
  loop,       \* where the loop is, and what it has in memory
  evidence,   \* history: what the runs of the last two measurements ran, and how they ended
  overlapped, \* history: a cancellation was queued while a loop ran
  moves, accidents

automationVars ==
  <<host, owner, mutating, active, acting, cancelling, target, shadow, default, proposals,
    layers, started, loop, evidence, overlapped, moves, accidents>>
\* What no step of the loop changes.
people == <<host, acting, cancelling, started, overlapped, moves>>
work == <<owner, mutating, active>>
targets == <<target, shadow, default, layers>>

-----------------------------------------------------------------------------
LoopPlace ==
  {"idle", "incumbent", "measure", "running", "cycle", "proposing", "proposed", "shadowing",
   "unshadow", "unshadowing", "deciding", "evaluating", "evaluated", "previewed", "promoting",
   "ending"}
Measurement == [ran : Strategy \union {Baseline}, outcome : RunOutcome]

LoopState ==
  [at : LoopPlace, command : LoopCommand \union {Unset}, limit : 0..MaxCycles, cycle : 0..MaxCycles,
   fruitless : Nat, stop : BOOLEAN,
   strategy : {"baseline", "target", "shadow"}, \* the name it measures
   left : 0..Repeats, running : Strategy \union {Baseline, Unset},
   worst : Result \union {Unset}, incumbent : Result \union {Unset},
   candidate : Strategy \union {Unset},
   failed : BOOLEAN,   \* the measurement threw
   current : BOOLEAN]  \* nobody changed the catalog since the evaluation

AutomationTypeOK ==
  /\ host \in {"up", "closing", "sealed", "down"} /\ owner \in BOOLEAN
  /\ mutating \in {"nobody", "loop", "person"}
  /\ active \subseteq {"evaluation", "ordinary"}
  /\ acting \subseteq {"action", "cancel"} /\ cancelling \in BOOLEAN
  /\ target \in Strategy \union {Unset} /\ shadow \subseteq Automatic
  /\ default \in {"baseline", "target"}
  /\ proposals \in ProposalCatalog /\ layers \in Layers
  /\ started \subseteq LoopCommand /\ loop \in LoopState
  /\ evidence \in [incumbent : SUBSET Measurement, candidate : SUBSET Measurement]
  /\ overlapped \in BOOLEAN /\ moves \in 0..MaxMoves /\ accidents \in 0..MaxAccidents

NoLoop ==
  [at |-> "idle", command |-> Unset, limit |-> 0, cycle |-> 0, fruitless |-> 0, stop |-> FALSE,
   strategy |-> "baseline", left |-> 0, running |-> Unset, worst |-> Unset,
   incumbent |-> Unset, candidate |-> Unset, failed |-> FALSE, current |-> FALSE]
NoEvidence == [incumbent |-> {}, candidate |-> {}]

\* The target is what the topmost application put there.
Undrifted ==
  layers # <<>> => target = proposals[Head(layers).proposal].definition
\* hasAutomaticApplication
Proven ==
  target # Unset /\ layers # <<>> /\ Undrifted /\ proposals[Head(layers).proposal].source = "runs"
RestoredDefault == IF Proven THEN "target" ELSE "baseline"

AutomationInit ==
  /\ \E past \in Past :
       target = past.target /\ layers = past.layers /\ proposals = past.proposals
  /\ host = "up" /\ owner = FALSE /\ mutating = "nobody"
  /\ active = {} /\ acting = {} /\ cancelling = FALSE
  /\ shadow = {} /\ default = RestoredDefault
  /\ started = {} /\ loop = NoLoop /\ evidence = NoEvidence
  /\ overlapped = FALSE /\ moves = 0 /\ accidents = 0

-----------------------------------------------------------------------------
\* The checks of the supervisor; "loop" passes the owner's symbol, a person none.
Unsealed == host \in {"up", "closing"}
Owns(who) == owner => who = "loop"
Quiescent == active = {} /\ acting = {}
\* Mutant of MayStart: a run starts while somebody changes a target.
MayStartBesideMutation(who) == Unsealed /\ Owns(who)
MayStart(who) == Unsealed /\ mutating = "nobody" /\ Owns(who)
MayMutate(who) == Unsealed /\ mutating = "nobody" /\ Owns(who) /\ Quiescent
MayAct == Unsealed /\ mutating = "nobody" /\ ~owner

Begins == moves < MaxMoves /\ moves' = moves + 1
Accident == accidents < MaxAccidents /\ accidents' = accidents + 1

At(place) == loop.at = place
To(place) == loop' = [loop EXCEPT !.at = place]
Candidate == <<loop.command, loop.cycle>>
Set(p, status) == proposals' = [proposals EXCEPT ![p].status = status]
Evaluated(p, passed, source) ==
  proposals' = [proposals EXCEPT ![p].status = IF passed THEN "passed" ELSE "failed",
                                 ![p].source = source]
\* What the coordinator does as a whole.
Promoted(p) ==
  /\ Set(p, "promoted") /\ target' = proposals[p].definition
  /\ layers' = <<[proposal |-> p, covered |-> target]>> \o layers

\* The result of a suite is its worst run (scoreEvaluationSuite).
\* Mutant of Worst: the run that ended last stands for all.
LastRun(a, b) == b
Worst(a, b) ==
  IF a = Unset THEN b
  ELSE [passed |-> a.passed /\ b.passed, score |-> IF a.score < b.score THEN a.score ELSE b.score]
\* automaticCandidateImproved
Improved == loop.worst.passed /\ loop.worst.score - loop.incumbent.score >= Delta
\* automaticRunEvidenceItems, every one of which has to pass.
EvidencePasses == loop.incumbent.passed /\ loop.worst.passed /\ Improved

-----------------------------------------------------------------------------
(* What the loop does, one place after another. *)

\* start: the command is claimed, and the claim is given back if a loop runs or the project is
\* not free; a command that is claimed already starts nothing.
StartLoop(c, limit) ==
  /\ host = "up" /\ c \notin started /\ At("idle") /\ ~owner
  /\ mutating = "nobody" /\ Quiescent
  /\ owner' = TRUE /\ started' = started \union {c}
  /\ loop' = [NoLoop EXCEPT !.at = "incumbent", !.command = c, !.limit = limit]
  /\ UNCHANGED <<host, mutating, active, acting, cancelling, targets, proposals, evidence,
                 overlapped, moves, accidents>>

Measure(strategy) ==
  [loop EXCEPT !.at = "measure", !.strategy = strategy, !.left = Repeats, !.worst = Unset,
               !.failed = FALSE]

ResolveIncumbent ==
  /\ At("incumbent")
  /\ UNCHANGED <<people, work, target, shadow, layers, proposals, evidence, accidents>>
  /\ \/ Proven /\ loop' = Measure("target") /\ default' = "target"
     \/ target = Unset /\ loop' = Measure("baseline") /\ UNCHANGED default
     \/ target # Unset /\ ~Proven /\ To("ending") /\ UNCHANGED default

\* The definition under the name that is measured.
Named ==
  CASE loop.strategy = "baseline" -> Baseline
    [] loop.strategy = "target" -> target
    [] OTHER -> IF Candidate \in shadow THEN loop.candidate ELSE Unset

\* A measurement that throws goes through the finally block that removes the shadow.
\* Mutant of Thrown: the error leaves the shadow behind.
ThrownPastShadow == loop' = [loop EXCEPT !.at = "ending", !.failed = TRUE, !.running = Unset]
Thrown ==
  loop' = [loop EXCEPT !.at = IF loop.strategy = "shadow" THEN "unshadow" ELSE "ending",
                       !.failed = TRUE, !.running = Unset]

StartEvaluation ==
  /\ At("measure") /\ loop.left > 0
  /\ UNCHANGED <<people, owner, mutating, targets, proposals, evidence, accidents>>
  /\ IF ~loop.stop /\ MayStart("loop") /\ Named # Unset
     THEN active' = active \union {"evaluation"}
          /\ loop' = [loop EXCEPT !.at = "running", !.running = Named]
     ELSE Thrown /\ UNCHANGED active

Side == IF loop.strategy = "shadow" THEN "candidate" ELSE "incumbent"
EvaluationEnds(outcome) ==
  /\ At("running") /\ active' = active \ {"evaluation"}
  /\ loop' = [loop EXCEPT !.at = "measure", !.left = @ - 1, !.running = Unset,
                          !.worst = Worst(@, outcome)]
  /\ evidence' = [evidence EXCEPT ![Side] = @ \union {[ran |-> loop.running, outcome |-> outcome]}]
  /\ UNCHANGED <<people, owner, mutating, targets, proposals, accidents>>
\* An infrastructure failure of the provider, or a run that left no state.
EvaluationThrows ==
  /\ At("running") /\ active' = active \ {"evaluation"} /\ Thrown
  /\ UNCHANGED <<people, owner, mutating, targets, proposals, evidence, accidents>>

Measured ==
  /\ At("measure") /\ loop.left = 0
  /\ IF loop.strategy = "shadow" THEN To("unshadow")
     ELSE loop' = [loop EXCEPT !.at = "cycle", !.incumbent = loop.worst]
  /\ UNCHANGED <<people, work, targets, proposals, evidence, accidents>>

BeginCycle ==
  /\ At("cycle")
  /\ IF loop.cycle < loop.limit /\ loop.fruitless < MaxFruitless /\ ~loop.stop
     THEN loop' = [loop EXCEPT !.at = "proposing", !.cycle = @ + 1]
     ELSE To("ending")
  /\ evidence' = [evidence EXCEPT !.candidate = {}]
  /\ UNCHANGED <<people, work, targets, proposals, accidents>>

\* The agent answers, its candidate is checked against the budgets and recorded.
ProposeCandidate(d) ==
  /\ At("proposing") /\ ~loop.stop /\ proposals[Candidate].status = "absent"
  /\ proposals' = [proposals EXCEPT ![Candidate] =
                     [status |-> "proposed", source |-> "none", definition |-> d]]
  /\ loop' = [loop EXCEPT !.at = "proposed", !.candidate = d]
  /\ UNCHANGED <<people, work, targets, evidence, accidents>>
ProposalFails ==
  /\ At("proposing") /\ To("ending")
  /\ UNCHANGED <<people, work, targets, proposals, evidence, accidents>>

\* Whether the call the loop makes next goes through: what it throws for ends the loop.
Proceeds ==
  CASE loop.at \in {"proposed", "previewed"} -> ~loop.stop /\ MayMutate("loop")
    [] loop.at = "unshadow" -> MayMutate("loop")
    [] loop.at = "deciding" -> ~loop.stop /\ proposals[Candidate].status = "proposed"
    [] loop.at = "evaluating" -> proposals[Candidate].status = "evaluating"
    [] loop.at = "evaluated" ->
         ~loop.stop /\ IF Improved
                       THEN proposals[Candidate].status = "passed" /\ loop.current /\ Undrifted
                       ELSE proposals[Candidate].status \in {"passed", "failed"}
    [] loop.at = "promoting" ->
         proposals[Candidate].status = "passed" /\ loop.current /\ Undrifted /\ Quiescent
    [] OTHER -> TRUE
\* A call that throws; an answer that cannot be written throws too.
Throws ==
  /\ loop.at \in {"proposed", "unshadow", "deciding", "evaluating", "evaluated", "previewed",
                 "promoting"}
  /\ IF Proceeds THEN Accident ELSE UNCHANGED accidents
  /\ To("ending") /\ mutating' = IF At("promoting") THEN "nobody" ELSE mutating
  /\ UNCHANGED <<people, owner, active, targets, proposals, evidence>>

Latch(from, to) ==
  /\ At(from) /\ Proceeds /\ mutating' = "loop" /\ To(to)
  /\ UNCHANGED <<people, owner, active, targets, proposals, evidence, accidents>>
BeginSavingShadow == Latch("proposed", "shadowing")
SaveShadow ==
  /\ At("shadowing") /\ mutating' = "nobody"
  /\ UNCHANGED <<people, owner, active, target, default, layers, proposals, evidence>>
  /\ \/ shadow' = shadow \union {Candidate} /\ loop' = Measure("shadow") /\ UNCHANGED accidents
     \/ Accident /\ To("ending") /\ UNCHANGED shadow

BeginRemovingShadow == Latch("unshadow", "unshadowing")
RemoveShadow ==
  /\ At("unshadowing") /\ mutating' = "nobody"
  /\ UNCHANGED <<people, owner, active, target, default, layers, proposals, evidence>>
  /\ \/ shadow' = shadow \ {Candidate} /\ To(IF loop.failed THEN "ending" ELSE "deciding")
        /\ UNCHANGED accidents
     \/ Accident /\ To("ending") /\ UNCHANGED shadow

BeginEvaluatingCandidate ==
  /\ At("deciding") /\ Proceeds /\ Set(Candidate, "evaluating") /\ To("evaluating")
  /\ UNCHANGED <<people, work, targets, evidence, accidents>>
EvaluateCandidate ==
  /\ At("evaluating") /\ Proceeds /\ Evaluated(Candidate, EvidencePasses, "runs")
  /\ loop' = [loop EXCEPT !.at = "evaluated", !.current = TRUE]
  /\ UNCHANGED <<people, work, targets, evidence, accidents>>
PreviewCandidate ==
  /\ At("evaluated") /\ Improved /\ Proceeds /\ To("previewed")
  /\ UNCHANGED <<people, work, targets, proposals, evidence, accidents>>
RejectCandidate ==
  /\ At("evaluated") /\ ~Improved /\ Proceeds /\ Set(Candidate, "rejected")
  /\ loop' = [loop EXCEPT !.at = "cycle", !.fruitless = @ + 1]
  /\ UNCHANGED <<people, work, targets, evidence, accidents>>

BeginPromoting == Latch("previewed", "promoting")
\* The winner is the incumbent of the next cycle.
PromoteCandidate ==
  /\ At("promoting") /\ Proceeds /\ Promoted(Candidate) /\ default' = "target"
  /\ mutating' = "nobody"
  /\ loop' = [loop EXCEPT !.at = "cycle", !.incumbent = loop.worst, !.fruitless = 0]
  /\ evidence' = [evidence EXCEPT !.incumbent = evidence.candidate]
  /\ UNCHANGED <<people, owner, active, shadow, accidents>>

\* release refuses while anything is under way, and then the owner stays.
EndLoop ==
  LET free == mutating = "nobody" /\ Quiescent IN
  /\ At("ending") /\ owner' = ~free /\ loop' = NoLoop /\ evidence' = NoEvidence
  /\ UNCHANGED <<people, mutating, active, targets, proposals, accidents>>

\* stop aborts the signal, and cancels the run that executes: a run ends in any case.
StopLoop ==
  /\ host = "up" /\ ~At("idle") /\ ~loop.stop
  /\ loop' = [loop EXCEPT !.stop = TRUE]
  /\ UNCHANGED <<people, work, targets, proposals, evidence, accidents>>

-----------------------------------------------------------------------------
(* What people and their runs do beside it. *)
beside == <<targets, proposals, started, loop, evidence, overlapped, accidents>>

PersonStartsRun ==
  /\ MayStart("person") /\ "ordinary" \notin active /\ Begins
  /\ active' = active \union {"ordinary"}
  /\ UNCHANGED <<host, owner, mutating, acting, cancelling, beside>>
OrdinaryRunEnds ==
  /\ "ordinary" \in active /\ active' = active \ {"ordinary"}
  /\ UNCHANGED <<host, owner, mutating, acting, cancelling, moves, beside>>

\* serializeActions: an answer to a gate, a retry, a deletion; some start a continuation.
PersonActs ==
  /\ MayAct /\ "action" \notin acting /\ Begins /\ acting' = acting \union {"action"}
  /\ UNCHANGED <<host, owner, mutating, active, cancelling, beside>>
ActionEnds ==
  /\ "action" \in acting /\ acting' = acting \ {"action"}
  /\ \/ active' = active
     \/ MayStart("person") /\ active' = active \union {"ordinary"}
  /\ UNCHANGED <<host, owner, mutating, cancelling, moves, beside>>

\* cancelOwned of a parked run: the owner is checked before the run is read.
CancelParkedRun ==
  /\ host # "down" /\ ~owner /\ ~cancelling /\ Begins /\ cancelling' = TRUE
  /\ UNCHANGED <<host, owner, mutating, active, acting, beside>>
QueueCancellation ==
  /\ cancelling /\ cancelling' = FALSE /\ acting' = acting \union {"cancel"}
  /\ overlapped' = (overlapped \/ ~At("idle"))
  /\ UNCHANGED <<host, owner, mutating, active, moves, targets, proposals, started, loop, evidence,
                 accidents>>
CancellationEnds ==
  /\ "cancel" \in acting /\ acting' = acting \ {"cancel"}
  /\ UNCHANGED <<host, owner, mutating, active, cancelling, moves, beside>>

\* The catalog: no target moves, and the loop does not keep it from anybody.
Catalogs ==
  /\ host = "up" /\ Begins /\ loop' = [loop EXCEPT !.current = FALSE]
  /\ UNCHANGED <<host, work, acting, cancelling, targets, started, evidence, overlapped,
                 accidents>>
PersonProposes(p, d) ==
  /\ Catalogs /\ proposals[p].status = "absent"
  /\ proposals' = [proposals EXCEPT ![p] =
                     [status |-> "proposed", source |-> "none", definition |-> d]]
PersonEvaluates(p, passed) ==
  /\ Catalogs /\ proposals[p].status \in {"proposed", "evaluating"}
  /\ Evaluated(p, passed, "preflight")
PersonRejects(p) ==
  Catalogs /\ proposals[p].status \in {"passed", "failed"} /\ Set(p, "rejected")
PersonDeletesProposal(p) ==
  Catalogs /\ proposals[p].status = "rejected" /\ Set(p, "deleted")

\* Target mutations (withTargetMutation): the check and the latch are one step.
PersonBegins ==
  /\ host = "up" /\ MayMutate("person") /\ Begins /\ mutating' = "person"
  /\ UNCHANGED <<host, owner, active, acting, cancelling, beside>>
Mutation ==
  /\ mutating = "person" /\ mutating' = "nobody"
  /\ UNCHANGED <<host, owner, active, acting, cancelling, shadow, started, loop, evidence,
                 overlapped, moves, accidents>>
\* A strategy that is deleted is no default any more (deleteBlueprint).
PutTarget(d) == target' = d /\ default' = IF d = Unset THEN "baseline" ELSE default
PersonSaves(d) == Mutation /\ PutTarget(d) /\ UNCHANGED <<layers, proposals>>
PersonPromotes(p) ==
  /\ Mutation /\ proposals[p].status = "passed" /\ proposals[p].source = "preflight" /\ Undrifted
  /\ Promoted(p) /\ UNCHANGED default
PersonRollsBack ==
  /\ Mutation /\ layers # <<>> /\ Undrifted /\ PutTarget(Head(layers).covered)
  /\ Set(Head(layers).proposal, "rolled-back") /\ layers' = Tail(layers)
PersonGivesUp == Mutation /\ UNCHANGED <<target, default, layers, proposals>>

-----------------------------------------------------------------------------
(* The service. *)

\* closeRuntime: the evolution service first, which ends the loop and waits for it.
CloseHost ==
  /\ host = "up" /\ Begins /\ host' = "closing"
  /\ loop' = [loop EXCEPT !.stop = ~At("idle")]
  /\ UNCHANGED <<work, acting, cancelling, targets, proposals, started, evidence, overlapped,
                 accidents>>
\* Then the supervisor, which starts nothing any more and waits for what is under way.
SealHost ==
  /\ host = "closing" /\ At("idle") /\ mutating # "person" /\ host' = "sealed"
  /\ UNCHANGED <<work, acting, cancelling, moves, beside>>
Gone ==
  /\ host' = "down" /\ owner' = FALSE /\ mutating' = "nobody"
  /\ active' = {} /\ acting' = {} /\ cancelling' = FALSE
  /\ loop' = NoLoop /\ evidence' = NoEvidence
  /\ UNCHANGED <<targets, proposals, started, overlapped, moves>>
HostExits == host = "sealed" /\ Quiescent /\ Gone /\ UNCHANGED accidents
HostDies == host # "down" /\ Accident /\ Gone

\* restoreRuntimeDefault: shadows of proposals the catalog knows are swept, and the target is the
\* default again if a loop promoted it.
RestartHost ==
  /\ host = "down" /\ host' = "up"
  /\ shadow' = {p \in shadow : proposals[p].status = "deleted"}
  /\ default' = RestoredDefault
  /\ UNCHANGED <<work, acting, cancelling, target, layers, proposals, started, loop, evidence,
                 overlapped, moves, accidents>>

-----------------------------------------------------------------------------
LoopStep ==
  \/ ResolveIncumbent \/ StartEvaluation \/ EvaluationThrows \/ Measured \/ BeginCycle
  \/ \E o \in RunOutcome : EvaluationEnds(o)
  \/ \E d \in Strategy : ProposeCandidate(d)
  \/ ProposalFails \/ Throws \/ BeginSavingShadow \/ SaveShadow \/ BeginRemovingShadow
  \/ RemoveShadow \/ BeginEvaluatingCandidate \/ EvaluateCandidate \/ PreviewCandidate
  \/ RejectCandidate \/ BeginPromoting \/ PromoteCandidate \/ EndLoop

PersonStep ==
  \/ StopLoop \/ PersonStartsRun \/ OrdinaryRunEnds \/ PersonActs \/ ActionEnds
  \/ CancelParkedRun \/ QueueCancellation \/ CancellationEnds
  \/ \E c \in LoopCommand, limit \in 1..MaxCycles : StartLoop(c, limit)
  \/ \E p \in Manual, d \in Strategy : PersonProposes(p, d)
  \/ \E p \in EvolutionProposal :
       \/ \E passed \in BOOLEAN : PersonEvaluates(p, passed)
       \/ PersonRejects(p) \/ PersonDeletesProposal(p) \/ PersonPromotes(p)
  \/ PersonBegins \/ PersonRollsBack \/ PersonGivesUp
  \/ \E d \in Strategy \union {Unset} : PersonSaves(d)

HostStep == CloseHost \/ SealHost \/ HostExits \/ HostDies \/ RestartHost

AutomationNext == LoopStep \/ PersonStep \/ HostStep
AutomationSpec == AutomationInit /\ [][AutomationNext]_automationVars

-----------------------------------------------------------------------------
(* ADR 0017 and the comment at beginEvolutionMutation: while a loop owns   *)
(* the project only its evaluation runs execute, no run and no action      *)
(* executes while anybody changes a target, the owner is the loop that     *)
(* runs (unless it could not release the project because a cancellation    *)
(* was queued beside it), and a run that names no strategy finds the       *)
(* default.                                                                *)
OwnsTheProject ==
  /\ owner => "ordinary" \notin active /\ "action" \notin acting /\ mutating # "person"
  /\ mutating # "nobody" => active = {} /\ "action" \notin acting
  /\ "evaluation" \in active \/ mutating = "loop" => ~At("idle")
  /\ IF At("idle") THEN owner => overlapped ELSE owner
  /\ default = "target" => target # Unset

(* ADR 0017, decisions 4 to 6: what a loop promotes was measured under its *)
(* own definition, every run of it passed, and its worst run is better by  *)
(* the required delta than the worst run of the strategy that is in force  *)
(* when the promotion happens, whatever people did in the meantime.        *)
BetterThanIncumbent ==
  /\ evidence.candidate # {}
  /\ \A c \in evidence.candidate : c.ran = target' /\ c.outcome.passed
  /\ \A i \in evidence.incumbent : i.ran = IF target = Unset THEN Baseline ELSE target
  /\ \E i \in evidence.incumbent :
       \A c \in evidence.candidate : c.outcome.score - i.outcome.score >= Delta
PromotesTheBetter ==
  [][mutating = "loop" /\ layers' # layers
       => BetterThanIncumbent /\ default' = "target"]_automationVars

(* ADR 0017: stopped, closed, failed or at its bounds, a loop comes to its *)
(* end, the project is released and no shadow stays, unless a write failed *)
(* or a cancellation was queued beside it.                                 *)
LoopEnds ==
  ~At("idle") ~>
    At("idle") /\ (owner => overlapped)
    /\ (shadow # {} => accidents > 0 \/ overlapped)
=============================================================================

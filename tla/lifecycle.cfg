SPECIFICATION MCSpec
CONSTANTS
  c1 = c1
  Cli = {c1}
  PlanGate = TRUE
  MaxQueued = 2
  strategy1 = strategy1
  strategy2 = strategy2
  old = old
  hand = hand
  LoopCommand = {go}
  Strategy = {strategy1, strategy2}
  Baseline = base
  Manual = {old, hand}
  MaxCycles = 2
  MaxFruitless = 1
  Repeats = 2
  RunOutcome <- MCOutcome
  Delta = 1
  Unset = Unset
  Past <- MCPast
  MaxMoves = 2
  MaxAccidents = 1
INVARIANTS BothTypeOK SingleWriter WorkIsApproved PublishedWasApproved ParkedIsAnswerable NoWorkDuringMutation OwnsTheProject
PROPERTIES AnswersStand AnswerTakesEffect PromotesTheBetter LoopEnds

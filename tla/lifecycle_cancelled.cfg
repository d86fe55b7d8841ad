SPECIFICATION FairSpec
CONSTANTS
  c1 = c1
  Cli = {c1}
  PlanGate = TRUE
  MaxQueued = 1
PROPERTIES CancelledIsTerminal

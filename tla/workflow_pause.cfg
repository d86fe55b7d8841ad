SPECIFICATION Spec
CONSTANTS
  Task = {1, 2}
  DependsOn <- MCDependsOn
  BatchKey <- MCBatchKey
  Overlap <- MCOverlap
  MaxParallel = 2
  MaxAttempts = 1
  MaxBreaks = 1
  MaxLeftovers = 1
CHECK_DEADLOCK FALSE
INVARIANTS PauseKeepsWorktrees

SPECIFICATION WorkSpec
CONSTANTS
  Task = {1, 2, 3}
  DependsOn <- MCDependsOn
  BatchKey <- MCBatchKey
  Overlap <- MCOverlap
  MaxParallel = 2
  MaxAttempts = 1
  MaxBreaks = 1
  MaxLeftovers = 1
  q1 = q1
  q2 = q2
  target = target
  ProposalId = {q1, q2}
  TargetKey = {target}
  TargetKeyOf <- MCTargetKeyOf
  Item = {{"pass", "approve"}, {"pass", "escalate"}}
  AppCommand = {1}
  Instant = {1, 2}
  Null = Null
  MaxCatalogRevision = 10
CHECK_DEADLOCK FALSE
INVARIANTS WorkTypeOK LogIsRecorded CheckpointIsPrefix WorkersDisjoint OfferedWasChecked CatalogReopens LatestInForce RecoveryAccepted MergedStaysMerged
PROPERTIES ImplementsPromise EveryRunSettles

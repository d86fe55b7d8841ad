SPECIFICATION FairSpec
CONSTANTS
  Caller = {1, 2, 3}
  Workflow = 0
  MaxAgentInvocations = 3
  MaxBudgetFailures = 2
  t1 = t1
  t2 = t2
  th1 = th1
  k = k
  Trigger = {t1, t2}
  Thread = {th1}
  ThreadOf <- MCThreadOf
  StartKey = {k}
  RetryKey = {k, Nothing}
  Rest = {"parked", "interrupted", "blocked"}
  Nothing = Nothing
  MaxRuns = 2
  MaxDeaths = 1
  op1 = op1
  op2 = op2
  Kinds = {"codex", "claude"}
  Profiles = 2
  Intervention = {op1, op2}
  InterventionsIn <- MCInterventionsIn
  None = None
  MaxRedirects = 1
  MaxRecoveries = 1
INVARIANTS TypeOK DirectiveOfThisTurn StopIsHonoured WithinBudget OneAssignment StartedOnce
PROPERTIES EveryInvocationEnds
CHECK_DEADLOCK FALSE

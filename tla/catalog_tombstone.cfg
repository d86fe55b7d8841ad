SPECIFICATION CatalogSpec
CONSTANTS
  q1 = q1
  q2 = q2
  target = target
  ProposalId = {q1, q2}
  TargetKey = {target}
  TargetKeyOf <- MCTargetKeyOf
  Item = {{"pass", "approve"}, {"pass", "escalate"}}
  AppCommand = {1}
  Instant = {1}
  Null = Null
  MaxCatalogRevision = 10
INVARIANTS TombstonesAreReadable
CHECK_DEADLOCK FALSE

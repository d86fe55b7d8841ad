SPECIFICATION RootSpec
CONSTANTS
  p1 = p1
  p2 = p2
  old1 = old1
  old2 = old2
  Nobody = Nobody
  Service = {p1, p2, old1, old2}
  Remains = {old1, old2}
  Recycled = {old2}
  LeaseAttempts = 3
  MaxCrashes = 2
  s1 = s1
  s2 = s2
  r1 = r1
  x = x
  y = y
  Proposal <- MCProposal
  Prompt = {r1}
  Command = {1, 2, 3}
  Content = {x, y}
  Definition <- MCDefinition
  Absent = Absent
  None = None
  Legacy <- MCLegacy
  MaxRevision = 10
  MaxPreviews = 1
  MaxTroubles = 2
INVARIANTS RootTypeOK ExclusiveUnlessStray MarkerExclusive Reopens Decidable OneInForce ChainReplays
PROPERTIES ImplementsLease AttemptsSuffice KeepsPromise Settles
CHECK_DEADLOCK FALSE

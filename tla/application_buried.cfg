SPECIFICATION Spec
CONSTANTS
  s1 = s1
  s2 = s2
  s3 = s3
  x = x
  y = y
  Proposal <- MCProposal
  Prompt = {}
  Command = {1, 2, 3}
  Content = {x, y}
  Definition <- MCDefinition
  Absent = Absent
  None = None
  Legacy <- MCLegacy
  MaxRevision = 10
  MaxPreviews = 1
  MaxTroubles = 0
INVARIANTS CapturedLayerReopens
CHECK_DEADLOCK FALSE

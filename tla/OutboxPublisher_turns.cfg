CONSTANTS
  p1 = p1
  p2 = p2
  None = None
  Tasks <- TwoTasks
  Publishers = {p1}
  BatchSize = 1
  RetryLimit = 2
  Faults = {"send"}
SPECIFICATION FairSpec
PROPERTIES
  RetriesTakeTurns

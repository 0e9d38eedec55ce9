CONSTANTS
  p1 = p1
  p2 = p2
  None = None
  Tasks <- ThreeTasks
  Publishers = {p1}
  BatchSize = 2
  RetryLimit = 2
  Faults = {"send", "db", "stop", "crash"}
SPECIFICATION Spec
INVARIANTS
  TypeOK
  AtMostOnce
  RetriesUnsent
PROPERTIES
  ImplementsDelivery

CONSTANTS
  o1 = o1
  o2 = o2
  u1 = u1
  u2 = u2
  c1 = c1
  c2 = c2
  None = None
  Orders = {o1, o2}
  Users = {u1}
  Clients = {c1, c2}
  OtherStatuses = {""}
  ReturnWindow = 1
  MaxTime = 1
  MaxRequests = 4
  Faults = {"statement", "commit"}
  Requests <- BulkRequests
SPECIFICATION FairSpec
PROPERTIES
  ImplementsLedger
  RequestsAreAnswered

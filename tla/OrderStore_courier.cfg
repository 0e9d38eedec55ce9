CONSTANTS
  o1 = o1
  o2 = o2
  u1 = u1
  u2 = u2
  c1 = c1
  c2 = c2
  None = None
  Orders = {o1}
  Users = {u1, u2}
  Clients = {c1, c2}
  OtherStatuses = {""}
  ReturnWindow = 1
  MaxTime = 2
  MaxRequests = 3
  Faults = {}
  Requests <- ConcurrentRequests
SPECIFICATION FairSpec
PROPERTIES
  CourierTakesOnlyExpired

CONSTANTS
  o1 = o1
  o2 = o2
  u1 = u1
  u2 = u2
  None = None
  NaN = NaN
  Ids = {o1, o2}
  Users = {u1, u2}
  ReturnWindow = 1
  MaxPrice = 100
  Word = 16
  Faults = {"statement", "commit", "ack"}
  Requests <- AllRequests
  PageSize = 1
  MaxTime = 1
  MaxFaults = 1
  MaxChanges = 5
SPECIFICATION Spec
INVARIANTS
  TypeOK
  BlamesRightly
  CountersTellTable
  StoredOrdersAreSound
  
  PagesMissNothing
PROPERTIES
  RefusedChangesNothing
  ItemsTellTable

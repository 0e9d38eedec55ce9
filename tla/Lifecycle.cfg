CONSTANTS
  h1 = h1
  h2 = h2
  g1 = g1
  g2 = g2
  HttpRequests = {h1, h2}
  Rpcs = {g1, g2}
  MaxServe = 2
  PublisherWait = 6
SPECIFICATION FairSpec
INVARIANTS
  TypeOK
  AcceptedIsAnswered
PROPERTIES
  ProcessEnds

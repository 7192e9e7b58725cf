CONSTANTS
  r1 = r1
  r2 = r2
  c1 = c1
  c2 = c2
  p1 = p1
  None = None
  Undefined = Undefined
  Runs = {r1, r2}
  Clients = {c1, c2}
  ClientOf <- OwnClients
  Pairs = {p1}
  MaxUpdates = 2
  MaxTime = 2
  MaxVersion = 3
  MaxOthers = 1
  MaxFaults = 1
SPECIFICATION FairSpec
CHECK_DEADLOCK FALSE
INVARIANT TypeOK
PROPERTY PricesMoveForward
PROPERTY FeedsWhileRoom

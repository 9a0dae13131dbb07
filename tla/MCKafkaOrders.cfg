SPECIFICATION FairSpec
CONSTANTS
  r1 = r1  r2 = r2  o1 = o1  m1 = m1  m2 = m2  p1 = p1  p2 = p2
  OrderOf <- MCOrderOf
  ServerOf <- MCServerOf
  Processes = {m1, m2}
  NoOne = NoOne
  Gone = Gone
  NoClaim = NoClaim
  Requests = {r1, r2}
  Partitions = {p1, p2}
  Hash <- MCHash
  MaxAttempts = 2
  MaxFaults = 1
INVARIANTS OwnerIsNotBehind HandledInKeyOrder
PROPERTIES ImplementsGroup EveryEventIsHandled
CHECK_DEADLOCK FALSE

SPECIFICATION PagesSpec
CONSTANTS
  r1 = r1  r2 = r2  r3 = r3
  Requests = {r1, r2, r3}
  ServiceOf <- MCServiceOf
  Asks <- MCAsks
  MaxOrders = 3
  Dumped = 2
  Statuses = {"CREATED", "ACTIVE"}
  Regions = {"us", "eu"}
  Stamps = {1, 2}
  DefaultLimit = 1
  MaxLimit = 1
  Absent = Absent
  NoRow = NoRow
  NoAsk = NoAsk
  NoReply = NoReply
  Filter = "CREATED"
  Size = 2
SYMMETRY MCSymmetry
INVARIANTS PatchNotFoundIsTrue
CHECK_DEADLOCK FALSE

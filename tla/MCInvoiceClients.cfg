SPECIFICATION MCSpec
CONSTANTS
  r1 = r1  r2 = r2  l1 = l1
  Requests = {r1, r2}
  Lookups = {l1}
  Texts = {"12", "012", "7"}
  Num <- MCNum
  Rank <- MCRank
  MaxInvoices = 3
  Limits <- MCLimits
  DefaultLimit = 2
  MaxLimit = 2
  Size = 1
  Absent = Absent
  NoRow = NoRow
  None = None
INVARIANTS RenameShowsItsWrite MissesOnlyForMoved
PROPERTIES MergedForever LookupAnswered
CHECK_DEADLOCK FALSE

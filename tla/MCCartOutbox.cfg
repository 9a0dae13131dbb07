SPECIFICATION MCSpec
CONSTANTS
  q1 = q1  q2 = q2  q3 = q3  c1 = c1  c2 = c2  w1 = w1  w2 = w2
  None = None
  Requests = {q1, q2, q3}
  Carts = {c1, c2}
  CartOf <- MCCartOf
  Workers = {w1, w2}
  Stamps = {1, 2}
  Limit = 2
  GapLocks = TRUE
  MaxLate = 1
  MaxFaults = 1
INVARIANTS PublishedWasSent OnlyNewRowsInHand OnlyCommittedIsSent BoundedDuplicates InStampOrder
PROPERTIES ImplementsDelivery CheckedOutIsSettled CheckoutAnswered
CHECK_DEADLOCK FALSE

SPECIFICATION MCSpec
CONSTANTS
  r1 = r1  r2 = r2  r3 = r3  r4 = r4  r5 = r5  r6 = r6  r7 = r7  r8 = r8
  u1 = u1  usd = usd  inr = inr
  Requests = {r1, r2, r3, r4, r5, r6, r7, r8}
  KeyOf <- MCKeyOf
  Payload <- MCPayload
  Invalid = {}
  Owners = {u1}
  Currencies = {usd, inr}
  CartIds = {1, 2}
  CheckoutHandler = "Checkout"
  GapLocks = TRUE
  Unread = Unread
  NoCart = NoCart
  NoRow = NoRow
  NoReply = NoReply
  BadRequest = BadRequest
  Conflict = Conflict
  Error = Error
INVARIANTS OneCartPerKey NoHalfWrittenCart CreatedIsStored SecondCartOverlaps OneEvent
CHECK_DEADLOCK FALSE

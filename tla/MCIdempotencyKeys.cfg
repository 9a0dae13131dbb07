SPECIFICATION MCSpec
CONSTANTS
  r1 = r1  r2 = r2  r3 = r3  r4 = r4  r5 = r5  h1 = h1  h2 = h2
  Requests = {r1, r2, r3, r4, r5}
  KeyOf <- MCKeyOf
  HashOf <- MCHashOf
  Answers = {a1, a2}
  GapLocks = TRUE
  Invalid = {r5}
  BadRequest = BadRequest
  NoRow = NoRow
  NoReply = NoReply
  Conflict = Conflict
  Error = Error
INVARIANTS ExclusiveWork SameKeySameAnswer
PROPERTIES SentIsAnswered ImplementsService
CHECK_DEADLOCK FALSE

SPECIFICATION Spec
CONSTANTS
  r1 = r1  r2 = r2  r3 = r3
  Requests = {r1, r2}
  OrderIds = {1}
  Actions = {"preview", "sendemail"}
  Lengths <- MCLengths
  MaxChanges = 0
  NoRow = NoRow
  NoFile = NoFile
  NoReply = NoReply
INVARIANTS MailIsGeneratedFile
CHECK_DEADLOCK FALSE

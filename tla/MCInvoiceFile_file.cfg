SPECIFICATION Spec
CONSTANTS
  r1 = r1  r2 = r2  r3 = r3
  Requests = {r1, r2, r3}
  OrderIds = {1, 2}
  Actions = {"preview", "sendemail", "download", "generate", "upload", "other"}
  Lengths <- MCLengths
  MaxChanges = 1
  NoRow = NoRow
  NoFile = NoFile
  NoReply = NoReply
INVARIANTS UndisturbedIsWhole NoForeignInvoice
SYMMETRY MCSymmetry
CHECK_DEADLOCK FALSE

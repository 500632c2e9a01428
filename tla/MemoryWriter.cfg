CONSTANTS
  c1 = c1
  c2 = c2
  b1 = b1
  b2 = b2
  r1 = r1
  r2 = r2
  Callers = {c1, c2}
  Writes = {entry, turn}
  Diaries = {entry}
  Bodies = {b1, b2}
  Receipts = {r1, r2}
  MaxAttempt = 2
  MaxCalls = 4
  None = None
SPECIFICATION Spec
SYMMETRY Symmetry
CHECK_DEADLOCK FALSE
INVARIANTS DiaryOnce OneWriterPerAttempt PendingHasAnOwner ReturnedIsVerified

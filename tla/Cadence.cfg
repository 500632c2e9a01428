SPECIFICATION CadenceSpec
CONSTANTS
  p1 = p1
  p2 = p2
  p3 = p3
  v1 = v1
  r1 = r1
  r2 = r2
  Private = {p1, p2, p3}
  Visible = {v1}
  Receipts = {r1, r2}
  Window = 2
  FirstMinutes = 1
  RepeatMinutes = 2
  MaxMinutes = 2
  ContactMax = 1
  ReceiptMax = 1
  StreakMax = 2
  Snoozes = {2}
  MaxTime = 3
SYMMETRY Symmetry
INVARIANTS
  ContactsStayRecent
  StreakFollowsContacts
  StreakIsEarned

CONSTANTS
  c1 = c1
  c2 = c2
  q1 = q1
  q2 = q2
  k1 = k1
  k2 = k2
  k3 = k3
  Cards = {k1, k2, k3}
  Requests = {q1, q2}
  Callers = {c1, c2}
  Sensitive = {"merge", "retire"}
  Added = {k1, k2}
  Merged = {k3}
  Births = {"live"}
  MaxLinks = 1
  MaxNamed = 2
  MaxCalls = 4
  MaxReads = 1
  None = None
SPECIFICATION Spec
SYMMETRY Symmetry
CHECK_DEADLOCK FALSE
INVARIANTS ViewsCompute NothingUnapproved CacheIsCurrent
PROPERTIES HistoryOnlyGrows

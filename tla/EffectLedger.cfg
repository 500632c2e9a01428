CONSTANTS
  Effects = {e1, e2}
  Keys = {k1, k2}
  Bodies = {b1, b2}
  ReceiptIds = {r1}
  Reasons = {rejected}
  NoValue = NoValue
  MaxTime = 3
  MaxAttempt = 2
  MayCrash = TRUE
  SkewedClocks = FALSE
SPECIFICATION Spec
SYMMETRY Symmetric
INVARIANTS TypeOK NeverPoisoned OneEffectPerKey
PROPERTIES AttemptsDoNotOverlap ContractSpec
CHECK_DEADLOCK FALSE

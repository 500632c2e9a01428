CONSTANTS
  Occurrences = {o1, o2}
  Kinds = {"wake"}
  Runs = {r1, r2}
  NoRun = NoRun
  NoEffect = NoEffect
  OptionalIntent = TRUE
  MaxCrashes = 0
SPECIFICATION Spec
SYMMETRY Symmetric
INVARIANT OnePendingOccurrence
CHECK_DEADLOCK FALSE

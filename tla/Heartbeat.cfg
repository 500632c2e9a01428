CONSTANTS
  Occurrences = {o1}
  Kinds = {"delivery", "wake"}
  Runs = {r1, r2}
  NoRun = NoRun
  NoEffect = NoEffect
  OptionalIntent = FALSE
  MaxCrashes = 2
SPECIFICATION Spec
SYMMETRY Symmetric
INVARIANTS ClaimsAreTrue AtMostOneCall IntentsBeforeCalls MarkersFollowLedger
CHECK_DEADLOCK FALSE

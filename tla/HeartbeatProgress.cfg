CONSTANTS
  Occurrences = {o1}
  Kinds = {"delivery", "wake"}
  Runs = {r1}
  NoRun = NoRun
  NoEffect = NoEffect
  OptionalIntent = FALSE
  MaxCrashes = 2
SPECIFICATION FairSpec
PROPERTY SettledIsReported
CHECK_DEADLOCK FALSE

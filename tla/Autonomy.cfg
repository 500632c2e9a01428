CONSTANTS
  Occurrences = {o1}
  Slots = {1, 2}
  NoOccurrence = NoOccurrence
  MaxPuts = 2
  MaxCrashes = 1
SPECIFICATION FairSpec
PROPERTY LapsedIsReported
INVARIANTS AtMostOneCall ClaimsAreTrue ConsumedAfterVerified
CHECK_DEADLOCK FALSE

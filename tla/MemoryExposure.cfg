CONSTANTS
  c1 = c1
  c2 = c2
  memo = memo
  newer = newer
  sealed = sealed
  r1 = r1
  r2 = r2
  Callers = {c1, c2}
  Turns = {0, 1}
  Sources = {memo, newer, sealed}
  Brief = {memo}
  Denied = {sealed}
  Described = {newer}
  SourceTime <- MCSourceTime
  ExpiresAt <- MCExpiresAt
  Contents = {original, edited}
  Replies = {r1, r2}
  Quoted = {memo}
  MaxPerSession = 2
  ResultBudget = 2
  Cooldown = 2
  MaxTime = 2
  MaxCalls = 2
  Original = original
  None = None
SPECIFICATION Spec
SYMMETRY Symmetry
CHECK_DEADLOCK FALSE
INVARIANTS CapHolds MaterialMatches OnlyOverlapsBreakCooldown

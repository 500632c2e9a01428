CONSTANTS
  None = None
  mood1 = mood1
  mood2 = mood2
  old = old
  reminder = reminder
  Owners = {"a", "b"}
  Events = {mood1, mood2, old, reminder}
  Field <- MCField
  DailyEvents = {mood1, reminder}
  OnceEvents = {reminder}
  Restamped = {mood1}
  Legacy = {old}
  Ttl = 3
  DayLength = 2
  Skew = 1
  MaxTime = 3
  MaxFailures = 1
SPECIFICATION Spec
INVARIANTS ProjectedOnce UpdatesAreOwed ConsumedIsGone
PROPERTIES NeverBackwards OwnersAreApart
CHECK_DEADLOCK FALSE

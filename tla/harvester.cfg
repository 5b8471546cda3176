\* Two boots over two and a half days, with a retention of one day.
CONSTANTS
  t1 = t1
  t2 = t2
  Token <- MCToken
  EndDay <- MCEndDay
  Wanted <- MCToken
  RetentionDays = 1
  DayLength = 2
  EarlySignal = FALSE
  TradesPastEnd = FALSE
  Failures = {"open"}
  MaxClock = 5
  MaxBoots = 2
SPECIFICATION FairSpec
INVARIANTS
  WindowDecodes
  NoDuplicateRows
PROPERTIES
  RowsLeaveByRetentionOnly
  SignalShutsDown

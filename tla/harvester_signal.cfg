\* A signal may come as soon as the handlers are registered.
CONSTANTS
  t1 = t1
  t2 = t2
  Token <- MCToken
  EndDay <- MCEndDay
  Wanted <- MCToken
  RetentionDays = 1
  DayLength = 2
  EarlySignal = TRUE
  TradesPastEnd = FALSE
  Failures = {}
  MaxClock = 5
  MaxBoots = 2
SPECIFICATION FairSpec
PROPERTIES
  SignalShutsDown

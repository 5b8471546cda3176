\* One token at boot and two that re-discovery adds, together or one by one.
CONSTANTS
  t1 = t1
  t2 = t2
  t3 = t3
  Token <- MCToken
  BootTokens <- MCBootTokens
  StaleTimeout = 2
SPECIFICATION FairSpec
INVARIANTS
  OnlyOverlappedTokensAreMissing
  WatchdogIsNotBlind
PROPERTIES
  ReplacementOnlyAdvances
  HalfOpenIsReplaced
  StopEndsRun

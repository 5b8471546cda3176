\* Three threads in produce(), or one of them in produce() and try_produce();
\* two slots and four positions are two laps, so that producers meet a full
\* ring and slots are recycled.
CONSTANTS
  p1 = p1
  p2 = p2
  p3 = p3
  a = a
  b = b
  NoItem = NoItem
  AnyThread = AnyThread
  Producers <- MCProducers
  Item <- MCItem
  Capacity = 2
  MaxClaims = 4
SPECIFICATION FairSpec
INVARIANTS
  RingInv
  NoDataRace
  HeadIsNeverStuck
PROPERTIES
  DropsOnlyWhenFull
  HeadOnlyAdvances
  ImplementsQueue
  EveryClaimIsDelivered

\* The journal over several windows, with the cron job, a crash and a restart, and
\* a forced rotation, which opens a window's file ahead of its time.
CONSTANTS
  yes = yes
  no = no
  other = other
  Token <- MCJournalTokens
  Kinds <- MCJournalKinds
  MaxTokens = 1
  IndexRange = 2
  RingCapacity = 2
  Rotation = 2
  MinAge = 4
  NoFile = NoFile
  Readers = {}
  MaxTicks = 2
  MaxTime = 6
  MaxCrashes = 1
  MaxFailures = 1
  MaxForced = 1
SPECIFICATION Spec
INVARIANTS
  OpenSegmentIsNotSealed
  BufferedOnePeriodAtMost
  ShutdownLosesNothing
PROPERTIES
  ImplementsLog

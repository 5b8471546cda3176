\* The live book and the shutdown, in one instant: three tokens, two slots,
\* three ticks, one forced rotation, and a thread that reads.
CONSTANTS
  yes = yes
  no = no
  other = other
  Token <- MCBookTokens
  Kinds <- MCBookKinds
  MaxTokens = 2
  IndexRange = 4
  RingCapacity = 2
  Rotation = 2
  MinAge = 3
  NoFile = NoFile
  Readers <- MCReaders
  MaxTicks = 3
  MaxTime = 0
  MaxCrashes = 0
  MaxFailures = 0
  MaxForced = 1
SPECIFICATION FairSpec
INVARIANTS
  OneSlotPerToken
  ReaderSeesCountedTicks
PROPERTIES
  ShutdownCompletes
  ShutdownOnlyAdvances

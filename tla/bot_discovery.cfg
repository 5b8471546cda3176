\* Pages of two markets, read by two workers in batches of two pages and one;
\* five markets at the start, the fourth perhaps without a question or a
\* conditionId, a sixth is created.
SPECIFICATION Spec
CONSTANTS
  Eligible = {3, 6}
  Malformed = {4}
  Anonymous = {4}
  PAGE_SIZE = 2
  MAX_PAGES = 3
  N_SCAN_WORKERS = 2
  Initial = 5
  MaxMarkets = 6
  MaxClosed = 1
  MaxWorkerErrors = 1
  MaxTailErrors = 1
  MaxDrops = 1
INVARIANTS
  ScanMissesFailedPagesOnly
  OffsetPassesNoMarket
  TrackedMarketsAreSubscribedOnce
  LiveConnectionHasAllTokens
PROPERTY AppendedMarketsAreFound
CHECK_DEADLOCK FALSE

\* No request fails and no market closes.
SPECIFICATION Spec
CONSTANTS
  Eligible = {2, 3, 4}
  Malformed = {}
  Anonymous = {}
  PAGE_SIZE = 2
  MAX_PAGES = 3
  N_SCAN_WORKERS = 2
  Initial = 3
  MaxMarkets = 4
  MaxClosed = 0
  MaxWorkerErrors = 0
  MaxTailErrors = 0
  MaxDrops = 0
PROPERTY NewMarketsAreFound
CHECK_DEADLOCK FALSE

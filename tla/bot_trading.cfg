\* Two markets, two positions, and a capital that the second overdraws.
CONSTANTS
  m1 = m1
  m2 = m2
  Market <- MCMarket
  Quote <- MCQuote
  Threshold = 4
  ExitThresh = 8
  MaxEntryAsk = 3
  BuyFee <- MCFee
  SellFee <- MCFee
  Capital = 8
  MaxPart = 2
  MaxShares = 2
  MaxBuys = 2
SPECIFICATION FairSpec
INVARIANTS
  MoneyBalances
  SharesBalance
  PendingSellsMatch
  CapitalFloor
PROPERTIES
  ExpiredPositionsClose

SPECIFICATION Spec
CONSTANTS
  Dsts = {d1}
  Markets = {m1}
  Token = tok
  Underlying <- MCUnderlying
  TransferWindow = 1
  MaxSlippage = 1
  SlippagePrecision = 2
  Amounts = {1, 2}
  MinSizes = {0, 1}
  MaxSizes = {0, 3}
  MaxTime = 5
  MaxSends = 3
  MarketFunds = 6
  StrayFunds = 1
INVARIANTS TypeOK SlidingBound OnlyEverclearStrands
CHECK_DEADLOCK FALSE

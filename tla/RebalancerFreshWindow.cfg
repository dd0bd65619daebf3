SPECIFICATION Spec
CONSTANTS
  Dsts = {d1}
  Markets = {m1}
  Token = tok
  Underlying <- MCUnderlying
  TransferWindow = 1
  MaxSlippage = 1
  SlippagePrecision = 2
  Amounts = {1, 2}
  MinSizes = {0}
  MaxSizes = {0, 3}
  MaxTime = 5
  MaxSends = 3
  MarketFunds = 6
  StrayFunds = 0
INVARIANT FreshWindowAccepts
CHECK_DEADLOCK FALSE

SPECIFICATION RewardsSpec
CONSTANTS
  u1 = u1
  u2 = u2
  Users = {u1, u2}
  Zero = Zero
  Models <- MCModels
  ReserveFactors = {}
  MaxRates = {0}
  FirstMaxRate = 0
  Scale = 10
  InitialRate = 10
  SetAside = 1
  SupplyCap = 0
  BorrowCap = 0
  SeizeShare = 5
  MaxUint = 1000
  Amounts = {2}
  MinAmounts = {0}
  MaxCash = 4
  MaxTime = 2
  MaxCalls = 4
  DoubleScale = 12
  Speeds <- MCSpeeds
  Funds = {4}
SYMMETRY UsersAlike
INVARIANTS
  RewardsTypeOK
  RewardsCovered
  EarnedIsKept
PROPERTIES
  CallsKeepEarnings
CHECK_DEADLOCK FALSE

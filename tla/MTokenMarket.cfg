SPECIFICATION Spec
CONSTANTS
  u1 = u1
  u2 = u2
  Users = {u1, u2}
  Zero = Zero
  Models <- MCModels
  ReserveFactors = {3}
  MaxRates = {0, 6}
  FirstMaxRate = 6
  Scale = 10
  InitialRate = 9
  SetAside = 2
  SupplyCap = 12
  BorrowCap = 11
  SeizeShare = 5
  MaxUint = 1000
  Amounts = {2, 5}
  MaxCash = 12
  MaxTime = 2
  MaxCalls = 4
  MinAmounts = {0, 3}
SYMMETRY UsersAlike
INVARIANTS
  TypeOK
  SupplyIsHeld
  StaysComputable
  DebtsNearBook
PROPERTIES
  RateFallsByRounding
  OthersKeepDebts
CHECK_DEADLOCK FALSE

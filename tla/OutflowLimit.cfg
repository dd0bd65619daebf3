SPECIFICATION Spec
CONSTANTS
  Markets = {m1}
  Amounts = {1, 3}
  Prices = {0, 1, 2}
  UsdScale = 2
  Limits = {0, 2, 3}
  Windows = {1, 2}
  FirstWindow = 1
  MaxTime = 4
  MaxCalls = 3
  MaxResets = 1
INVARIANTS TypeOK SlidingOutflowBound LimitReopens
CHECK_DEADLOCK FALSE

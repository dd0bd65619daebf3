SPECIFICATION Spec
CONSTANTS
  Accounts = {a1, a2}
  Markets = {col, dbt}
  Collateral = col
  Debt = dbt
  Scale = 4
  CloseFactor = 2
  SeizeShare = 1
  Incentive <- MCIncentive
  Factors <- MCFactors
  FewFactors = {3}
  Prices <- MCPrices
  FewPrices = {0, 16}
  InitialRate <- MCInitialRate
  Rates <- MCRates
  FewRates = {4, 6}
  Pauses <- MCPauses
  Winding = {dbt}
  Amounts = {1, 2}
  MaxTokens <- MCMaxTokens
  MaxDebt <- MCMaxDebt
SYMMETRY MCSymmetry
INVARIANTS TypeOK AssetsMatchMembership DebtsAreCounted
PROPERTIES CallsLeaveAtMostDust LiquidationsHelp
CHECK_DEADLOCK FALSE

SPECIFICATION FairSpec
CONSTANTS
  Users = {u1}
  Forwarders = {seq}
  Owner = owner
  Guardians = {}
  ExtChains = {c1}
  HostChain = linea
  Market = mkt
  OtherMarket = other
  Markets = {mkt, other}
  Amounts = {1, 2}
  MaxAcc = 3
  MaxCash = 0
  MaxJournals = 9
  MaxSlippage = 0
  SlippagePrecision = 100000
  ProofTargets <- MCProofTargetsHost
  ProofFlags = {FALSE}
  AdminOps = {"pause", "outflow", "chains", "hostWhitelist"}
  PausableOps = {"Mint"}
  HasOtherProof = FALSE
  OtherJournals <- MCOtherJournals
  OutflowLimits = {0, 1}
  FirstMint = 2
  ModelledRefusals = {"BorrowRate"}
  MaxTransit = 0
INVARIANT SelfServiceCredit
PROPERTY DepositEventuallyCredited
CHECK_DEADLOCK FALSE

SPECIFICATION FairSpec
CONSTANTS
  Users = {u1}
  Forwarders = {seq}
  Owner = owner
  Guardians = {}
  ExtChains = {c1}
  HostChain = linea
  Market = mkt
  OtherMarket = other
  Markets = {mkt, other}
  Amounts = {1}
  MaxAcc = 1
  MaxCash = 1
  MaxJournals = 9
  MaxSlippage = 0
  SlippagePrecision = 100000
  ProofTargets <- MCProofTargets
  ProofFlags = {FALSE}
  AdminOps = {"pause", "blacklist", "whitelist", "hostBlacklist"}
  PausableOps = {"AmountOutHere"}
  HasOtherProof = FALSE
  OtherJournals <- MCOtherJournals
  OutflowLimits = {0}
  FirstMint = 1
  ModelledRefusals = {}
  MaxTransit = 1
INVARIANT SelfServicePayout
PROPERTY WithdrawalEventuallyPaid
CHECK_DEADLOCK FALSE

SPECIFICATION Spec
CONSTANTS
  Users = {u1}
  Forwarders = {seq}
  Owner = owner
  Guardians = {}
  ExtChains = {c1}
  HostChain = linea
  Market = mkt
  OtherMarket = other
  Markets = {mkt, other}
  Amounts = {1, 2}
  MaxAcc = 2
  MaxCash = 1
  MaxJournals = 2
  MaxSlippage = 1
  SlippagePrecision = 2
  ProofTargets <- MCProofTargets
  ProofFlags = {FALSE}
  AdminOps = {"expiry", "callers"}
  PausableOps = {}
  HasOtherProof = TRUE
  OtherJournals <- MCOtherJournals
  OutflowLimits = {0}
  FirstMint = 1
  ModelledRefusals = {}
  MaxTransit = 2
INVARIANT Conservation
PROPERTIES DepositsImplementLedger WithdrawalsImplementLedger
CHECK_DEADLOCK FALSE

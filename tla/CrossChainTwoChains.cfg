SPECIFICATION Spec
CONSTANTS
  Users = {u1}
  Forwarders = {seq}
  Owner = owner
  Guardians = {}
  ExtChains = {c1, c2}
  HostChain = linea
  Market = mkt
  OtherMarket = other
  Markets = {mkt, other}
  Amounts = {1}
  MaxAcc = 2
  MaxCash = 1
  MaxJournals = 3
  MaxSlippage = 0
  SlippagePrecision = 100000
  ProofTargets <- MCProofTargetsAny
  ProofFlags = {FALSE}
  AdminOps = {}
  PausableOps = {}
  HasOtherProof = TRUE
  OtherJournals <- MCOtherJournals
  OutflowLimits = {0}
  FirstMint = 1
  ModelledRefusals = {}
  MaxTransit = 0
INVARIANTS TypeOK JournalsNeverAhead NoDoubleCredit NoDoublePayout
CHECK_DEADLOCK FALSE

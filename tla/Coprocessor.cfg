SPECIFICATION Spec
CONSTANTS
  Live <- MCLive
  ReorgLimit = 2
  StartNumber <- MCStartNumber
  MaxNumber <- MCMaxNumber
  StartEthereum = 4
  MaxEthereum = 5
  StartLinea = 4
  MaxLinea = 5
  StartOpstack = 2
  MaxOpstack = 3
  MaxForks = 1
  PortalChains <- MCPortalChains
  InitialGames <- MCInitialGames
  ProofMaturityDelay = 2
  MaturitySlack = 2
  Requests <- MCRequests
INVARIANTS TypeOK ProvenBlockStays JournalNamesItsChain InclusionRestsOnEthereum HonestInputsAccepted
CHECK_DEADLOCK FALSE

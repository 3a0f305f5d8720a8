SPECIFICATION FairSpec
CONSTANTS
  Issuers = {i1}
  Gist = gist
  States = {s1, s2}
  GenesisLen = 3
  InitHead = 2
  MaxHead = 5
  ReorgDepth = 0
  TxPerBlock = 1
  StatesPerRequest = 2
  DisableFiltration = TRUE
  IssuerID = {i1}
  StartFromBlock = 2
  BlockWindow = 1
  MaxBlocks = 1
  Modulus = 64
  PeerTrees = {gist}
  FaultKinds = {"head", "filter", "query"}
  MaxFaults = 1
  MaxCrashes = 1
  None = None
INVARIANTS NoEventSkipped BlocksRelayed
PROPERTIES CatchesUp EveryRootReachesCore
CHECK_DEADLOCK FALSE

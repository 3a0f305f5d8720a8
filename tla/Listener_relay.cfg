SPECIFICATION Spec
CONSTANTS
  Issuers = {i1, i2}
  Gist = gist
  States = {s1, s2}
  GenesisLen = 3
  InitHead = 2
  MaxHead = 5
  ReorgDepth = 1
  TxPerBlock = 1
  StatesPerRequest = 2
  DisableFiltration = FALSE
  IssuerID = {i1}
  StartFromBlock = 2
  BlockWindow = 1
  MaxBlocks = 1
  Modulus = 64
  PeerTrees = {}
  FaultKinds = {"head", "filter", "decode", "query"}
  MaxFaults = 1
  MaxCrashes = 0
  None = None
SYMMETRY Symmetry
INVARIANTS GistsRelayed StatesRelayed StateAfterGist
CHECK_DEADLOCK FALSE

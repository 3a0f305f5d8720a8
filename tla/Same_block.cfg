SPECIFICATION Spec
CONSTANTS
  Issuers = {i1, i2}
  Gist = gist
  States = {s1, s2}
  GenesisLen = 3
  InitHead = 2
  MaxHead = 4
  ReorgDepth = 0
  TxPerBlock = 2
  StatesPerRequest = 2
  DisableFiltration = TRUE
  IssuerID = {i1}
  StartFromBlock = 2
  BlockWindow = 1
  MaxBlocks = 1
  Modulus = 64
  PeerTrees = {}
  FaultKinds = {}
  MaxFaults = 1
  MaxCrashes = 0
  None = None
SYMMETRY Symmetry
INVARIANT GistsRelayed
CHECK_DEADLOCK FALSE

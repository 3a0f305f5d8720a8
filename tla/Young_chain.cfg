SPECIFICATION Spec
CONSTANTS
  Issuers = {i1}
  Gist = gist
  States = {s1, s2}
  GenesisLen = 3
  InitHead = 0
  MaxHead = 4
  ReorgDepth = 2
  TxPerBlock = 1
  StatesPerRequest = 2
  DisableFiltration = TRUE
  IssuerID = {i1}
  StartFromBlock = 1
  BlockWindow = 2
  MaxBlocks = 1
  Modulus = 64
  PeerTrees = {}
  FaultKinds = {}
  MaxFaults = 1
  MaxCrashes = 0
  None = None
SYMMETRY Symmetry
INVARIANT HandledAreFinal
CHECK_DEADLOCK FALSE

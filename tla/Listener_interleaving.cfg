SPECIFICATION Spec
CONSTANTS
  Issuers = {i1, i2}
  Gist = gist
  States = {s1}
  GenesisLen = 3
  InitHead = 2
  MaxHead = 5
  ReorgDepth = 1
  TxPerBlock = 2
  StatesPerRequest = 2
  DisableFiltration = FALSE
  IssuerID = {i1}
  StartFromBlock = 0
  BlockWindow = 1
  MaxBlocks = 1
  Modulus = 64
  PeerTrees = {gist}
  FaultKinds = {"head", "filter", "lookup", "query", "broadcast"}
  MaxFaults = 2
  MaxCrashes = 1
  None = None
INVARIANTS TypeOK OperationsAreFinal HandledAreFinal LostOnlyBehindUnsupported NoFork
PROPERTIES NoRefetch ImplementsRelay
CHECK_DEADLOCK FALSE

SPECIFICATION OracleSpec
CONSTANTS
  Issuers = {i1}
  Gist = gist
  States = {s1}
  GenesisLen = 1
  InitHead = 1
  MaxHead = 4
  ReorgDepth = 1
  TxPerBlock = 1
  FaultKinds = {"list", "read", "query", "cast"}
  MaxFaults = 1
  MaxOps = 1
  MaxRevotes = 1
  None = None
INVARIANT SaversAreConfirmed
PROPERTY ReportsAreVoted
CHECK_DEADLOCK FALSE

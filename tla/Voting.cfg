SPECIFICATION FairSpec
CONSTANTS
  Issuers = {i1}
  Gist = gist
  States = {s1, s2}
  GenesisLen = 1
  InitHead = 1
  MaxHead = 3
  ReorgDepth = 1
  TxPerBlock = 1
  FaultKinds = {"list", "read", "query", "cast"}
  MaxFaults = 1
  MaxOps = 1
  MaxRevotes = 1
  None = None
INVARIANTS TypeOK YesIsTrue NoIsTrue
PROPERTY OwedIsVoted
CHECK_DEADLOCK FALSE

SPECIFICATION FairSpec
CONSTANTS
  Issuers = {i1}
  Gist = gist
  States = {s1, s2, s3, s4}
  GenesisLen = 1
  InitHead = 1
  MaxHead = 4
  ReorgDepth = 1
  TxPerBlock = 2
  StatesPerRequest = 2
  Failed = Failed
INVARIANTS TypeOK AsIfAtOnce FoundIsThere PagesInBounds MissesOnlyTheOldest
PROPERTY SearchesEnd
CHECK_DEADLOCK FALSE

CONSTANTS
  MaxVersions = 3
  MaxReadErrors = 1
  MaxKills = 1
SPECIFICATION Spec
INVARIANTS
  TypeOK
  MemoChainCurrent
  ReturnsRecentChain
  MemoConsistent

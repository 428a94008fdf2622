CONSTANTS
  d1 = d1
  d2 = d2
  k1 = k1
  k2 = k2
  own = own
  any = any
  Domains <- OneDomain
  Commands = {}
  Connects <- OneTask
  Targets <- OneTarget
  Own = own
  Registered <- OwnOnly
  None = None
  NoEntry = NoEntry
  MaxVersions = 2
  MaxAtOnce = 1
  MaxFailures = 0
  MaxUnsaved = 0
  MaxSameMs = 0
  MaxEdits = 0
  MaxRestarts = 0
  MaxRenewals = 1
  MaxTasks = 4
  MaxTotal = 0
SPECIFICATION Spec
INVARIANT PairsValidated

CONSTANTS
  d1 = d1
  d2 = d2
  k1 = k1
  k2 = k2
  own = own
  any = any
  Domains <- TwoDomains
  Commands <- OtherTask
  Connects <- OneTask
  Targets <- TwoTargets
  Own = own
  Registered <- AnyOrBoth
  None = None
  NoEntry = NoEntry
  MaxVersions = 2
  MaxAtOnce = 2
  MaxFailures = 1
  MaxUnsaved = 1
  MaxSameMs = 1
  MaxEdits = 1
  MaxRestarts = 1
  MaxRenewals = 1
  MaxTasks = 2
  MaxTotal = 1
SPECIFICATION Spec
CHECK_DEADLOCK FALSE
SYMMETRY Symmetry
INVARIANTS TypeOK MarkerTold SuccessMeansInstalled NoSecretLeft SuccessOnRecord

CONSTANTS
  t1 = t1
  t2 = t2
  now = now
  Targets <- TwoTargets
  Sweep = Sweep
  Immediate <- OnePass
  None = None
  MaxVersions = 2
  MaxCommands = 2
  MaxFaults = 1
CHECK_DEADLOCK FALSE
SPECIFICATION FairSpec
INVARIANTS TypeOK SkipIsSafe
PROPERTIES Distributed

CONSTANTS
  d1 = d1
  d2 = d2
  t1 = t1
  t2 = t2
  h1 = h1
  h2 = h2
  Domains <- TwoDomains
  Targets <- OneTarget
  AgentTargets <- OneTarget
  Wide <- LastDomain
  Handlers <- OneHandler
  Loop = Loop
  None = None
  Attached = Attached
  Managed = Managed
  MaxVersions = 2
  MaxCommands = 0
  MaxRestarts = 1
  MaxCrashes = 0
  MaxFaults = 1
  MaxOutOfBand = 1
SPECIFICATION FairSpec
PROPERTIES DueCertHandled

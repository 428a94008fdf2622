CONSTANTS
  d1 = d1
  d2 = d2
  t1 = t1
  t2 = t2
  h1 = h1
  h2 = h2
  Domains <- OneDomain
  Targets <- OneTarget
  AgentTargets <- OneTarget
  Wide = {}
  Handlers <- TwoHandlers
  Loop = Loop
  None = None
  Attached = Attached
  Managed = Managed
  MaxVersions = 2
  MaxCommands = 2
  MaxRestarts = 0
  MaxCrashes = 0
  MaxFaults = 0
  MaxOutOfBand = 0
SPECIFICATION FairSpec
PROPERTIES CommandAnswered DueCertHandled

CONSTANTS
  d1 = d1
  d2 = d2
  t1 = t1
  t2 = t2
  h1 = h1
  h2 = h2
  Domains <- TwoDomains
  Targets <- OneTarget
  AgentTargets <- OneTarget
  Wide <- TwoDomains
  Handlers <- OneHandler
  Loop = Loop
  None = None
  Attached = Attached
  Managed = Managed
  MaxVersions = 2
  MaxCommands = 1
  MaxRestarts = 0
  MaxCrashes = 0
  MaxFaults = 1
  MaxOutOfBand = 0
SPECIFICATION Spec
SYMMETRY DomainSymmetry
INVARIANTS PromiseKept SomebodyWillSave
PROPERTIES RegistrySpec

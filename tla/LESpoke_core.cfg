CONSTANTS
  d1 = d1
  d2 = d2
  t1 = t1
  t2 = t2
  h1 = h1
  h2 = h2
  Domains <- OneDomain
  Targets <- OneTarget
  AgentTargets <- OneTarget
  Wide <- OneDomain
  Handlers <- TwoHandlers
  Loop = Loop
  None = None
  Attached = Attached
  Managed = Managed
  MaxVersions = 2
  MaxCommands = 2
  MaxRestarts = 1
  MaxCrashes = 1
  MaxFaults = 1
  MaxOutOfBand = 0
SPECIFICATION Spec
SYMMETRY HandlerSymmetry
INVARIANTS TypeOK PromiseKept SomebodyWillSave
PROPERTIES RegistrySpec MaterialAdvances

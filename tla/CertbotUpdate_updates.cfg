CONSTANTS
  rfc2136 = rfc2136
  hetzner = hetzner
  h1 = h1
  h2 = h2
  Providers <- BundledProviders
  Bundled <- BundledProviders
  Handlers <- OneHandler
  Loop = Loop
  Orphan = Orphan
  None = None
  MaxRestarts = 1
  MaxCrashes = 1
  MaxFailures = 1
SPECIFICATION FairSpec
INVARIANTS TypeOK
PROPERTIES EnsuredIfBuilt CertbotComesBack

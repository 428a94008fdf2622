CONSTANTS
  rfc2136 = rfc2136
  hetzner = hetzner
  h1 = h1
  h2 = h2
  Providers <- SomeProviders
  Bundled <- BundledProviders
  Handlers <- OneHandler
  Loop = Loop
  Orphan = Orphan
  None = None
  MaxRestarts = 0
  MaxCrashes = 0
  MaxFailures = 0
SPECIFICATION Spec
PROPERTIES PluginForActiveCertbot

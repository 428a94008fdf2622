CONSTANTS
  t1 = t1
  t2 = t2
  f1 = f1
  f2 = f2
  n1 = n1
  n2 = n2
  a = a
  b = b
  d1 = d1
  h1 = h1
  h2 = h2
  Tenants <- TwoTenants
  FileOf <- OwnFiles
  Names <- TwoNames
  Values <- TwoAccounts
  Blank = Blank
  Corrupt = Corrupt
  None = None
  Domains <- OneDomain
  Hosts <- OneHosts
  Handlers <- TwoHandlers
  MaxRuns = 2
  MaxCommands = 3
  MaxFaults = 1
SPECIFICATION Spec
SYMMETRY Interchangeable
CHECK_DEADLOCK FALSE
INVARIANT HookUsesOwnLogin

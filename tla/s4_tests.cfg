SPECIFICATION FairS4Spec
CONSTANTS
  r1 = r1
  p1 = p1
  p2 = p2
  p3 = p3
  g1 = g1
  c1 = c1
  dns1 = dns1
  None = None
  Site1 = site1
  Site2 = site2
  Names <- MCNames
  Prefix <- MCPrefix
  Roots <- MCRoots
  Pids <- MCPids
  Instances <- MCInstances
  MaxAttempts = 1
  ExecMayFail = FALSE
  AnyPid = FALSE
  Statics <- MCStatics
  SignalPoints = {"between_calls", "in_call", "unassigned", "forked", "teardown"}
  Memcacheds <- MCMemcacheds
  Rogerses <- MCRogerses
  Chronoses <- MCChronoses
  Dnsmasq = dns1
CHECK_DEADLOCK FALSE
INVARIANTS
  NoOrphans
  ServersKeepTheirFiles
  NoTestWaitsForTheDead
  FilesGone
PROPERTY SuiteEnds

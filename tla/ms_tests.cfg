SPECIFICATION FairSuiteSpec
CONSTANTS
  r1 = r1
  p1 = p1
  p2 = p2
  p3 = p3
  p4 = p4
  p5 = p5
  m1 = m1
  g1 = g1
  dns = dns
  None = None
  Roots <- MCRoots
  Instances <- MCInstances
  Pids <- MCPids5
  MaxAttempts = 1
  AnyPid = FALSE
  Statics = {"dbs", "dnsmasq"}
  ExecMayFail = FALSE
  Memcacheds <- MCMemcached
  Rogerses <- MCRogers
  Dnsmasq = dns
  Scenarios = {"NoFailures", "MemcachedFails", "MemcachedRestarts", "RogersFails", "RogersRestarts"}
  NumRounds = 1
  NumTests = 2
  SignalPoints = {"between_calls", "in_call", "unassigned", "forked", "teardown"}
CHECK_DEADLOCK FALSE
INVARIANTS
  FixtureTypeOK
  TestsLeaveAllStarted
  NoOrphans
  FilesGone
PROPERTIES
  UsesProcessInstance
  SuiteEnds

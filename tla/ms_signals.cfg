SPECIFICATION SuiteSpec
CONSTANTS
  r1 = r1
  p1 = p1
  p2 = p2
  p3 = p3
  p4 = p4
  p5 = p5
  m1 = m1
  g1 = g1
  dns = dns
  None = None
  Roots <- MCRoots
  Instances <- MCInstances
  Pids <- MCPids3
  MaxAttempts = 1
  AnyPid = FALSE
  Statics = {"dbs", "dnsmasq"}
  ExecMayFail = FALSE
  Memcacheds <- MCMemcached
  Rogerses <- MCRogers
  Dnsmasq = dns
  Scenarios = {"NoFailures"}
  NumRounds = 1
  NumTests = 1
  SignalPoints = {"forked", "teardown"}
CHECK_DEADLOCK FALSE
INVARIANT HandlerKillsServers

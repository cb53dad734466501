SPECIFICATION Spec
CONSTANTS
  r1 = r1
  r2 = r2
  p1 = p1
  p2 = p2
  p3 = p3
  mc = mc
  ch = ch
  none = none
  Roots <- MCTwoRoots
  Instances <- MCOneInstance
  Pids <- MCPidsTwoRoots
  None = none
  MaxAttempts = 1
  AnyPid = TRUE
  ExecMayFail = FALSE
CHECK_DEADLOCK FALSE
PROPERTY WaitReportsOwnStart

SPECIFICATION Spec
CONSTANTS
  r1 = r1
  r2 = r2
  p1 = p1
  p2 = p2
  p3 = p3
  mc = mc
  ch = ch
  none = none
  Roots <- MCOneRoot
  Instances <- MCInstances
  Pids <- MCPids2
  None = none
  MaxAttempts = 1
  AnyPid = TRUE
  ExecMayFail = TRUE
CHECK_DEADLOCK FALSE
SYMMETRY MCSymmetry2
INVARIANTS
  NoLostProcess
  SignalsOwnChildren
  OneProcessPerInstance

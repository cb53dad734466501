SPECIFICATION FairSpec
CONSTANTS
  r1 = r1
  r2 = r2
  p1 = p1
  p2 = p2
  p3 = p3
  mc = mc
  ch = ch
  none = none
  Roots <- MCOneRoot
  Instances <- MCInstances
  Pids <- MCPids3
  None = none
  MaxAttempts = 2
  AnyPid = TRUE
  ExecMayFail = FALSE
CHECK_DEADLOCK FALSE
INVARIANTS
  TypeOK
  NoLostProcess
  SignalsOwnChildren
  OneProcessPerInstance
PROPERTIES
  WaitFindsOwnProcess
  CallsReturn

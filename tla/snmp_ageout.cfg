SPECIFICATION Spec
CONSTANTS
  Tests = {"AddCountsAgeOut"}
  Starts <- MCStarts
CHECK_DEADLOCK FALSE
INVARIANT AgeOutPasses

SPECIFICATION Spec
CONSTANTS
  Tests = {"LatencyCalculations", "LatencyScopeCalculations", "SuccessFailCountTable", "SingleCountByNodeTypeTable", "SuccessFailCountByRequestTypeTable", "SingleIPZeroCount", "SingleIP", "MultipleIPs", "StringBasedEventStats", "CounterTimePeriods", "ContinuousAccumulatorTable", "CxCounterTable", "RefcountIP", "RefcountDeleteIP", "RemoveIP", "AddCountsAgeOut"}
  Starts <- MCStarts
CHECK_DEADLOCK FALSE
INVARIANTS
  TypeOK
  StartDoesNotMatter
  OnlyLateStartsFail
PROPERTY JumpLandsOnPeriodStart

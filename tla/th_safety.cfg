SPECIFICATION FairSpec
CONSTANTS
  t1 = t1
  t2 = t2
  t3 = t3
  Threads <- MCThreads3
  NumKeys = 2
  NumIncr = 2
  MaxErrors = 2
  UninitCas = {0, 3}
CHECK_DEADLOCK FALSE
INVARIANTS
  TypeOK
  NoLostIncrement
  NeverOvercounts
  TestPasses
PROPERTIES
  ImplementsCounters
  ThreadsJoin

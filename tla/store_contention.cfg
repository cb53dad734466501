SPECIFICATION Spec
CONSTANTS
  Tests = {"AddKillCASDelete", "Larger.AddKillGetSet"}
  Rounds = 1
  Stores = {"correct"}
CHECK_DEADLOCK FALSE
PROPERTY ContentionAfterRead

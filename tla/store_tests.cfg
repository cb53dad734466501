SPECIFICATION Spec
CONSTANTS
  Tests = {"AddGet", "AddGetTwoKeys", "AddGetExpire", "AddSetSetDataContentionSet", "AddSetCASDeleteDataContentionCASDelete", "AddAddDataContention", "AddDelete", "Delete", "AddDeleteAdd", "AddDeleteSetDataContention", "ConnectUsingIpAddress", "BadDomainName", "DomainAndPort", "KillAddGet", "AddKillGet", "AddKillGetExpire", "AddKillSetSetDataContentionSet", "AddDeleteKill", "AddKillCASDelete", "Larger.AddGet", "Larger.AddKillGet", "Larger.AddKillGetSet"}
  Rounds = 2
  Stores = {"correct", "contention_stored"}
CHECK_DEADLOCK FALSE
INVARIANTS
  TypeOK
  FailsOnlyIfOvertaken
  WrongStoreNoticed
PROPERTY ContentionIfPrimaryKilled

CONSTANTS
  NFiles = 2
  MaxNow = 3
  Minute = 2
  Retention = 2
  Zone = 0
  NQueries = 2
  MaxFiles = 1
  MaxLag = 1
  MaxCommands = 3
SPECIFICATION FairSpec
INVARIANTS NothingLost CommittedIsStored
PROPERTIES StopEndsApp QueriesCatchUp
CHECK_DEADLOCK FALSE

CONSTANTS
  MaxRestarts = 1
  QueueSize = 2
  PipeSize = 1
  MaxLines = 2
SPECIFICATION FairSpec
INVARIANTS OrderPerChild LinesConserved CompleteWhenJoined
PROPERTIES StopEndsRun DeadChildNoticed PipeDrains
CHECK_DEADLOCK FALSE

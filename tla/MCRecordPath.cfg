CONSTANTS
  Lines <- SampleLines
  ReplayRows <- SampleRows
  Gaps = {1}
  RowBytes = 1
  RotateTicks = 3
  RotateBytes = 2
  TicksPerSecond = 2
  MaxClock = 3
  MaxRows = 3
SPECIFICATION Spec
 
PROPERTY FilesAreOneLog
CHECK_DEADLOCK FALSE

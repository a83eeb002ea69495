CONSTANTS
  BufferSize = 2
  MaxBackoff = 4
  MaxLines = 4
SPECIFICATION Spec
INVARIANT NoUncountedLoss

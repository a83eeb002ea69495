CONSTANTS
  BufferSize = 2
  MaxBackoff = 4
  MaxLines = 5
SPECIFICATION FairSpec
INVARIANTS ConnectedMeansDrained BufferIsNewest LinesConserved
PROPERTIES OneLossPerBreak ImplementsSink EventuallyDrained

CONSTANTS
  r1 = r1
  r2 = r2
  r3 = r3
  r4 = r4
  k1 = k1
  k2 = k2
  Records = {r1, r2, r3, r4}
  Keys = {k1, k2}
  WindowOf <- FourWindows
  KeyOf <- FourKeys
  MaxRowsPerBatch = 2
  MomentsKeep = 1
  FmKeep = 1
  MaxLives = 2
SPECIFICATION FairSpec
INVARIANTS FmNeverOver MomentsOncePerLife
PROPERTIES StoredBeforeExpiry FmShrinksOnlyWhenLost RecordsCommitted
CHECK_DEADLOCK FALSE

CONSTANTS
  Sources = {s1}
  Warmup = 3
  WarnMult = 3
  CriticalMult = 6
  MinPps = 2
  AlphaNum = 1
  AlphaDen = 2
  MaxPorts = 1
  MaxIps = 1
  Cooldown = 2
  MinPackets = 2
  MaxWindow = 2
  PpsValues = {2}
  Rows <- LoudRows
  MaxNow = 0
  MaxLives = 1
SPECIFICATION FairSpec
PROPERTY NewestAlwaysReached
CHECK_DEADLOCK FALSE

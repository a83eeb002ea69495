CONSTANTS
  Sources = {s1}
  Warmup = 3
  WarnMult = 3
  CriticalMult = 6
  MinPps = 2
  AlphaNum = 1
  AlphaDen = 2
  MaxPorts = 1
  MaxIps = 1
  Cooldown = 1
  MinPackets = 2
  MaxWindow = 3
  PpsValues = {2, 6}
  Rows <- LoudRows
  MaxNow = 1
  MaxLives = 2
SPECIFICATION FairSpec
INVARIANTS CooldownRespected AlertsAtomic OncePerWindow
PROPERTY NewestReached
CHECK_DEADLOCK FALSE

CONSTANTS
  i1 = i1
  i2 = i2
  i3 = i3
  p1 = p1
  WindowN = 10
  DgimRows = 2
  DgimBatch = 3
  MaxTime = 14
  SampleK = 2
  Lengths = {1, 3}
  MaxRows = 2
  MaxBatch = 3
  MaxSeen = 6
  HalfLives = {1, 2}
  KeyTypes = {"dst_ip", "dst_port"}
  KeyCounts <- TwoBatches
  MaxKeys = 1
  Epsilon = 64
  MaxTraffic = 4
  Steps = {0, 2, 4}
  MaxClock = 8
  Destinations = {i1, i2, i3}
  AmsBatch = 2
  AmsSeen = 5
  Nodes = {i1, i2, i3}
  Weights = {1, 2}
  MaxEdges = 3
  TopNs = {2, 3}
  Alphas <- Dampings
  Tol <- OneInTen
  MaxIter = 3
SPECIFICATION Spec
INVARIANTS DgimGuarantees
           ReservoirUnbiased ScoresBounded
           AmsUnbiased RanksConverge
CHECK_DEADLOCK FALSE

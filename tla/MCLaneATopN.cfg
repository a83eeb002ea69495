SPECIFICATION Spec
CONSTANTS
  Queries = {"port_counts"}
  Flows <- MCFlows
  Filters = {"tcp_only"}
  WindowLen = 1
  Watermark = 1
  TopNPorts = 1
  MaxEdges = 2
  MaxTime = 2
  Records = 3
  MaxRestarts = 1
  NoPort = NoPort
  None = None
INVARIANT TopNKept
CHECK_DEADLOCK FALSE

SPECIFICATION Spec
CONSTANTS
  Queries = {"filter_counts", "port_counts"}
  Flows <- MCFlows
  Filters = {"tcp_only", "dns_traffic"}
  WindowLen = 1
  Watermark = 1
  TopNPorts = 1
  MaxEdges = 2
  MaxTime = 2
  Records = 3
  MaxRestarts = 1
  NoPort = NoPort
  None = None
INVARIANTS NeverOver OnTimeCounted LeadersStored
PROPERTIES ImplementsView
CHECK_DEADLOCK FALSE

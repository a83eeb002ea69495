------------------------------ MODULE MCLaneA ------------------------------
(* LaneA with three flows: one for two filters, one for one, one for none,  *)
(* the last without a port.                                                 *)
EXTENDS LaneA

MCFlows ==
  {[proto |-> "TCP",  src |-> "a", dst |-> "b", port |-> 53,     large |-> FALSE],
   [proto |-> "TCP",  src |-> "a", dst |-> "c", port |-> 80,     large |-> FALSE],
   [proto |-> "ICMP", src |-> "c", dst |-> "a", port |-> NoPort, large |-> FALSE]}
=============================================================================

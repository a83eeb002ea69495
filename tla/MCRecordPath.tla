---------------------------- MODULE MCRecordPath ----------------------------
(* RecordPath with a few tshark lines of each kind, in and out of bounds.   *)
EXTENDS RecordPath

Blank == [f \in RawFields |-> None]

Tcp == [Blank EXCEPT !.epoch = <<"epoch", 1999>>, !.ip4_src = <<"ip", 1>>,
          !.ip4_dst = <<"ip", 2>>, !.tcp_src = <<"int", 0>>, !.tcp_dst = <<"int", 65535>>,
          !.ip_proto = <<"int", 6>>, !.len = <<"int", 1>>, !.eth_src = <<"MAC", 1>>,
          !.tcp_flags = <<"hex", 2>>, !.delta = <<"float", 0>>]

Udp6 == [Blank EXCEPT !.epoch = <<"epoch", 2000>>, !.ip6_src = <<"IP", 3>>,
           !.ip6_dst = <<"ip", 4>>, !.udp_src = <<"int", 53>>, !.ip6_nxt = <<"int", 17>>,
           !.len = <<"int", 65535>>]

\* An ICMP error, which carries the ports of the datagram it is about.
Icmp == [Tcp EXCEPT !.ip_proto = <<"int", 1>>, !.tcp_src = <<"int", 99999>>]

SampleLines ==
  {Tcp, Udp6, Icmp, Blank, [f \in RawFields \ {"delta"} |-> Tcp[f]],
   [Tcp EXCEPT !.len = <<"int", 0>>], [Tcp EXCEPT !.len = <<"int", 65536>>],
   [Tcp EXCEPT !.len = None], [Tcp EXCEPT !.tcp_dst = <<"int", 65536>>],
   [Tcp EXCEPT !.tcp_src = <<"word", 0>>], [Tcp EXCEPT !.ip4_src = None],
   [Tcp EXCEPT !.ip4_dst = <<"word", 0>>], [Tcp EXCEPT !.epoch = <<"word", 0>>],
   [Tcp EXCEPT !.ip_proto = <<"word", 0>>], [Tcp EXCEPT !.delta = <<"float", -1>>],
   [Tcp EXCEPT !.eth_dst = <<"word", 0>>], [Tcp EXCEPT !.tcp_flags = <<"word", 0>>]}

\* Rows of a file that was not written by the capture.
SampleRows ==
  {[RecordOf(Tcp) EXCEPT !.src_mac = <<"MAC", 1>>, !.src_port = <<"int", 1>>],
   [RecordOf(Udp6) EXCEPT !.timestamp = <<"s", 2>>, !.dst_port = <<"int", 2147483647>>],
   [RecordOf(Icmp) EXCEPT !.timestamp = <<"word", 0>>],
   [RecordOf(Icmp) EXCEPT !.protocol = ""]}
=============================================================================

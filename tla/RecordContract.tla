--------------------------- MODULE RecordContract ---------------------------
(***************************************************************************)
(* What the three validators of a traffic record do: the parser of tshark  *)
(* lines (capture/parser.py), the contract (contracts/record_schema.py)    *)
(* and the cleaning in Spark (streaming/common/cleaning.py).               *)
(*                                                                         *)
(* The text of a field is <<kind, value>>: "int" the decimal text of an    *)
(* integer of 32 bits (a wider one is out of every bound: a "word"),       *)
(* "float" one with a point, "epoch" seconds with a fraction (the value    *)
(* counts microseconds), "ms" and "s" a timestamp with and without         *)
(* milliseconds, "ip" and "mac" canonical text of an address, "IP" and     *)
(* "MAC" another spelling of it, "hex" flags, "word" anything else.  The   *)
(* empty field is None, as it is for the contract, whose parse_line and    *)
(* format_row are therefore identities on these texts.                     *)
(***************************************************************************)
EXTENDS Integers, Sequences, FiniteSetsExt

Kinds == {"int", "float", "epoch", "ms", "s", "ip", "IP", "mac", "MAC", "hex", "word"}

None == <<"none", 0>>

\* The largest port and the greatest length, in all three.
MaxWord == 65535

Kind(x) == x[1]
Num(x) == x[2]

RawFields ==
  {"epoch", "ip4_src", "ip4_dst", "ip6_src", "ip6_dst", "tcp_src", "tcp_dst", "udp_src",
   "udp_dst", "ip_proto", "ip6_nxt", "len", "eth_src", "eth_dst", "tcp_flags", "delta"}

\* Python's int(x), float(x) and ip_address(x) accept the text.
IsInt(x) == Kind(x) = "int"
IsFloat(x) == Kind(x) \in {"int", "float"}
IsAddress(x) == Kind(x) \in {"ip", "IP"}

Either(a, b) == IF a # None THEN a ELSE b

-----------------------------------------------------------------------------
(* capture/parser.py                                                       *)

Source(raw) == Either(raw.ip4_src, raw.ip6_src)
Destination(raw) == Either(raw.ip4_dst, raw.ip6_dst)

ProtocolNumber(raw) == Either(raw.ip_proto, raw.ip6_nxt)

Protocol(raw) ==
  CASE ProtocolNumber(raw) = <<"int", 6>> -> "TCP"
    [] ProtocolNumber(raw) = <<"int", 17>> -> "UDP"
    [] ProtocolNumber(raw) \in {<<"int", 1>>, <<"int", 58>>} -> "ICMP"
    [] OTHER -> "OTHER"

\* The ports of the transport header; other protocols have none.
Ports(raw) ==
  CASE Protocol(raw) = "TCP" -> <<raw.tcp_src, raw.tcp_dst>>
    [] Protocol(raw) = "UDP" -> <<raw.udp_src, raw.udp_dst>>
    [] OTHER -> <<None, None>>

PortOk(x) == x = None \/ (IsInt(x) /\ Num(x) \in 0..MaxWord)

LengthOk(x) == IsInt(x) /\ Num(x) \in 1..MaxWord

\* Milliseconds are cut off, not rounded.
Timestamp(epoch) == <<"ms", Num(epoch) \div 1000>>

\* str(ip_address(x)) and x.lower()
Canonical(x) == IF Kind(x) = "IP" THEN <<"ip", Num(x)>> ELSE x
Lower(x) == IF Kind(x) = "MAC" THEN <<"mac", Num(x)>> ELSE x

RecordOf(raw) ==
  [timestamp |-> Timestamp(raw.epoch),
   src_ip |-> Canonical(Source(raw)), dst_ip |-> Canonical(Destination(raw)),
   src_port |-> Ports(raw)[1], dst_port |-> Ports(raw)[2],
   protocol |-> Protocol(raw), packet_length |-> raw.len,
   src_mac |-> Lower(raw.eth_src), dst_mac |-> Lower(raw.eth_dst),
   tcp_flags |-> raw.tcp_flags, iat_ms |-> raw.delta]

-----------------------------------------------------------------------------
(* contracts/record_schema.py                                              *)

MacOk(x) == x = None \/ Kind(x) \in {"mac", "MAC"}

ValidRow(row) ==
  /\ Kind(row.timestamp) = "ms"
  /\ IsAddress(row.src_ip) /\ IsAddress(row.dst_ip)
  /\ PortOk(row.src_port) /\ PortOk(row.dst_port)
  /\ row.protocol \in {"TCP", "UDP", "ICMP", "OTHER"}
  /\ LengthOk(row.packet_length)
  /\ MacOk(row.src_mac) /\ MacOk(row.dst_mac)
  /\ row.tcp_flags = None \/ Kind(row.tcp_flags) = "hex"
  /\ row.iat_ms = None \/ (IsFloat(row.iat_ms) /\ Num(row.iat_ms) >= 0)

\* The checks of the parser in their order; the first that fails gives the reason.
Checks(raw) ==
  <<<<"NON_IP", ProtocolNumber(raw) # None>>,
    <<"BAD_IP", IsAddress(Source(raw)) /\ IsAddress(Destination(raw))>>,
    <<"BAD_TIMESTAMP", Kind(raw.epoch) = "epoch">>,
    <<"BAD_LENGTH", LengthOk(raw.len)>>,
    <<"VALIDATION", IsInt(ProtocolNumber(raw))>>,
    <<"BAD_PORT", PortOk(Ports(raw)[1]) /\ PortOk(Ports(raw)[2])>>,
    <<"VALIDATION", raw.delta = None \/ (IsFloat(raw.delta) /\ Num(raw.delta) >= 0)>>,
    <<"VALIDATION", ValidRow(RecordOf(raw))>>>>

Failing(raw) == {i \in DOMAIN Checks(raw) : ~Checks(raw)[i][2]}

\* A line has its columns unless tshark was cut off while it printed it.
ParseLine(line) ==
  IF DOMAIN line # RawFields THEN "WRONG_COLUMNS"
  ELSE IF Failing(line) = {} THEN "RECORD" ELSE Checks(line)[Min(Failing(line))][1]

-----------------------------------------------------------------------------
(* streaming/common: what Spark makes of a row of a CSV file.  A condition *)
(* is "true", "false" or "null".                                           *)

Null == <<"null", 0>>

\* A column read with the integer type of the schema: text of no 32-bit integer
\* becomes null.
SparkInt(x) == IF IsInt(x) THEN x ELSE Null

Holds(p) == IF p THEN "true" ELSE "false"

Between(x, low, high) == IF x = Null THEN "null" ELSE Holds(Num(x) \in low..high)

Or(p, q) == IF "true" \in {p, q} THEN "true" ELSE IF "null" \in {p, q} THEN "null" ELSE "false"

And(ps) == IF "false" \in ps THEN "false" ELSE IF "null" \in ps THEN "null" ELSE "true"

\* Variant: port 0 is no port.
PortConditionFromOne(x) == Or(Holds(x = Null), Between(x, 1, MaxWord))

PortCondition(x) == Or(Holds(x = Null), Between(x, 0, MaxWord))

\* is_valid; the protocol of a row may be missing, the other texts too.
IsValid(row) ==
  And({Holds(Kind(row.timestamp) \in {"ms", "s"}),
       Holds(row.src_ip # None), Holds(row.dst_ip # None),
       Holds(SparkInt(row.packet_length) # Null),
       Between(SparkInt(row.packet_length), 1, MaxWord),
       IF row.protocol = "" THEN "null" ELSE Holds(row.protocol \in {"TCP", "UDP", "ICMP", "OTHER"}),
       PortCondition(SparkInt(row.src_port)), PortCondition(SparkInt(row.dst_port))})

\* split_valid keeps what is true here, and what is true under negation there.
SplitValid(rows) ==
  <<{r \in rows : IsValid(r) = "true"}, {r \in rows : IsValid(r) = "false"}>>
=============================================================================

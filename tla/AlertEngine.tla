---------------------------- MODULE AlertEngine ----------------------------
(***************************************************************************)
(* The alert rules of linkanalysis/alerts.py (class AlertEngine) as        *)
(* operators on an engine state: the EWMA baseline of the packet rate with *)
(* the number of windows in it, and the time of the last alert of every    *)
(* (type, source).  A baseline is defined once count > 0.  Rates and their *)
(* mean are whole numbers (of any unit), the mean rounded down.            *)
(***************************************************************************)
EXTENDS Integers

CONSTANTS Sources,       \* source addresses
          Warmup,        \* warmup_windows
          WarnMult, CriticalMult,
          MinPps,
          AlphaNum, AlphaDen,   \* ewma_alpha = AlphaNum / AlphaDen
          MaxPorts,      \* max_distinct_dst_ports
          MaxIps,        \* max_distinct_dst_ips
          Cooldown,      \* cooldown_seconds
          MinPackets     \* min_window_packets

ASSUME RatesAssumption ==
  /\ MinPps \in Nat \ {0} /\ Warmup \in Nat
  /\ WarnMult \in Nat \ {0} /\ CriticalMult \in Nat /\ WarnMult <= CriticalMult
  /\ AlphaDen \in Nat \ {0} /\ AlphaNum \in 0..AlphaDen
ASSUME LimitsAssumption ==
  /\ MaxPorts \in Nat /\ MaxIps \in Nat /\ MinPackets \in Nat \ {0}
  /\ Cooldown \in Nat \ {0}
ASSUME GlobalAssumption == "global" \notin Sources

SpikeKey == <<"TRAFFIC_SPIKE", "global">>
PortKey(src) == <<"UNUSUAL_PORT_ACTIVITY", src>>
FanoutKey(src) == <<"HIGH_FANOUT", src>>
Keys == {SpikeKey} \union {PortKey(s) : s \in Sources} \union {FanoutKey(s) : s \in Sources}

Never == -1

NewEngine == [baseline |-> 0, count |-> 0, cooldowns |-> [k \in Keys |-> Never]]

\* A row of source_stats; a source without a row has no packets.
Row == [packets : Nat, ports : Nat, ips : Nat]

InCooldown(e, k, now) ==
  e.cooldowns[k] # Never /\ now - e.cooldowns[k] < Cooldown

Ewma(old, pps) == (AlphaNum * pps + (AlphaDen - AlphaNum) * old) \div AlphaDen

\* Windows below MinPps leave the baseline alone, every other one enters it,
\* whether or not it raises an alert.
Observe(e, pps) ==
  IF pps < MinPps THEN e
  ELSE IF e.count = 0 THEN [e EXCEPT !.baseline = pps, !.count = 1]
  ELSE [e EXCEPT !.baseline = Ewma(@, pps), !.count = @ + 1]

\* The rate is compared with the baseline of the windows before it.
Spikes(e, pps) ==
  /\ pps >= MinPps /\ e.count > 0 /\ e.count + 1 >= Warmup
  /\ pps >= WarnMult * e.baseline

Severity(e, pps) == IF pps >= CriticalMult * e.baseline THEN "CRITICAL" ELSE "WARN"

RaisedKeys(e, pps, rows, now) ==
  {k \in Keys :
     /\ ~InCooldown(e, k, now)
     /\ \/ k = SpikeKey /\ Spikes(e, pps)
        \/ \E s \in Sources :
             /\ rows[s].packets >= MinPackets
             /\ \/ k = PortKey(s) /\ rows[s].ports > MaxPorts
                \/ k = FanoutKey(s) /\ rows[s].ips > MaxIps}

\* The alert of a key.  The baseline stored with a spike already contains the
\* rate that raised it.
AlertOf(k, e, window, pps, rows, now) ==
  LET spike == k = SpikeKey
      value == CASE spike -> pps
                 [] k[1] = "UNUSUAL_PORT_ACTIVITY" -> rows[k[2]].ports
                 [] OTHER -> rows[k[2]].ips
      limit == IF k[1] = "UNUSUAL_PORT_ACTIVITY" THEN MaxPorts ELSE MaxIps
  IN [key |-> k, ts |-> window, at |-> now, value |-> value,
      severity |-> IF spike THEN Severity(e, pps) ELSE "WARN",
      baseline |-> IF spike THEN Observe(e, pps).baseline ELSE limit]

\* evaluate_window: the alerts of a window and the engine after it.
AlertsOf(e, window, pps, rows, now) ==
  {AlertOf(k, e, window, pps, rows, now) : k \in RaisedKeys(e, pps, rows, now)}

\* Variant: an alert does not start its cooldown.
AfterWindowNoCooldown(e, pps, rows, now) == Observe(e, pps)

AfterWindow(e, pps, rows, now) ==
  LET raised == RaisedKeys(e, pps, rows, now)
  IN [Observe(e, pps) EXCEPT
        !.cooldowns = [k \in Keys |-> IF k \in raised THEN now ELSE @[k]]]
=============================================================================

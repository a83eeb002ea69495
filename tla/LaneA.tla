------------------------------- MODULE LaneA -------------------------------
(***************************************************************************)
(* The windowed queries of Lane A (streaming/queries/): every query reads  *)
(* the same log of cleaned records in batches of its own, counts them per  *)
(* tumbling window and group behind its own watermark, and upserts the     *)
(* rows a batch changed into its table of the serving store.  A query dies *)
(* when its upsert raises; the driver may be restarted at any time, and a  *)
(* planned batch then runs again.                                          *)
(*                                                                         *)
(* Spark (the offset log, the state store, the watermark) is external and  *)
(* modelled as the queries use it.                                         *)
(***************************************************************************)
EXTENDS Integers, Sequences, FiniteSets, FiniteSetsExt, Functions

CONSTANTS Queries,        \* the queries that run
          Flows,          \* what a record may be: [proto, src, dst, port, large]
          Filters,        \* the filters configured, of the default ones
          WindowLen, Watermark,
          TopNPorts, MaxEdges,
          MaxTime, Records, MaxRestarts,  \* bounds of the model
          NoPort, None

QueryNames == {"window_metrics", "protocol_counts", "port_counts", "filter_counts",
               "distinct_counts", "moments", "ip_edges", "source_stats"}

DefaultFilters == {"tcp_only", "udp_only", "web_traffic", "dns_traffic", "large_packets"}

ASSUME LaneAAssumption ==
  /\ Queries \subseteq QueryNames /\ Filters \subseteq DefaultFilters
  /\ WindowLen \in Nat \ {0} /\ Watermark \in Nat
  /\ TopNPorts \in Nat \ {0} /\ MaxEdges \in Nat \ {0}
  /\ MaxTime \in Nat /\ Records \in Nat /\ MaxRestarts \in Nat
  /\ None \notin Nat

VARIABLES
  log,        \* the cleaned records in the order of the input files
  pc,         \* what each query is at
  planned,    \* offset log: the end of the batch in hand, or None
  committed,  \* commit log: how many records of the log are done
  watermark,  \* the watermark the next batch runs with
  agg,        \* state store: counts by <<window start, group>>
  table,      \* the serving table of each query
  restarts,
  counted     \* history: the records that are in the rows of each query

vars == <<log, pc, planned, committed, watermark, agg, table, restarts, counted>>

-----------------------------------------------------------------------------
(* What a query computes.                                                  *)

\* build_port_counts drops records without a port before the watermark.
Reads(q, f) == q = "port_counts" => f.port # NoPort

\* The expression of a filter; a missing port matches none.
Matches(name, f) ==
  CASE name = "tcp_only"      -> f.proto = "TCP"
    [] name = "udp_only"      -> f.proto = "UDP"
    [] name = "web_traffic"   -> f.port \in {80, 443}
    [] name = "dns_traffic"   -> f.port = 53
    [] name = "large_packets" -> f.large

\* Three queries have one row per window.
WholeWindow == {"window_metrics", "distinct_counts", "moments"}

GroupsOf(q, f) ==
  CASE q \in WholeWindow     -> {"all"}
    [] q = "protocol_counts" -> {f.proto}
    [] q = "port_counts"     -> {f.port} \ {NoPort}
    [] q = "filter_counts"   -> {name \in Filters : Matches(name, f)}
    [] q = "ip_edges"        -> {<<f.src, f.dst>>}
    [] q = "source_stats"    -> {f.src}

\* Two queries bound the rows of a window that one batch may write.
Limited == {"port_counts", "ip_edges"}
Limit(q) == IF q = "port_counts" THEN TopNPorts ELSE MaxEdges

WindowStart(t) == (t \div WindowLen) * WindowLen
WindowEnd(t) == WindowStart(t) + WindowLen

KeysOf(q, i) == {WindowStart(log[i].time)} \X GroupsOf(q, log[i].flow)

\* The records from..to of the log that the query reads.
Read(q, from, to) == {i \in from + 1 .. to : Reads(q, log[i].flow)}

\* Spark drops a record whose window has ended at the watermark.
OnTime(i, w) == WindowEnd(log[i].time) > w

Count(q, positions, k) == Cardinality({i \in positions : k \in KeysOf(q, i)})
AtZero(f, k) == IF k \in DOMAIN f THEN f[k] ELSE 0

Batch(q) == {i \in Read(q, committed[q], planned[q]) : OnTime(i, watermark[q])}

\* The rows a batch changes: filter_counts has one per filter in every window the
\* batch touches, with zeros for filters that match nothing.
Changed(q) ==
  IF q = "filter_counts"
  THEN {WindowStart(log[i].time) : i \in Batch(q)} \X Filters
  ELSE UNION {KeysOf(q, i) : i \in Batch(q)}

\* Update mode: a row carries the count of its window so far.
BatchRows(q) == [k \in Changed(q) |-> AtZero(agg[q], k) + Count(q, Batch(q), k)]

\* The state after the batch; windows the watermark has passed are dropped.
NewAgg(q) ==
  [k \in {j \in DOMAIN agg[q] \union Changed(q) : j[1] + WindowLen > watermark[q]} |->
     AtZero(agg[q], k) + Count(q, Batch(q), k)]

\* Variant: the delay is left out of withWatermark.
WatermarkUndelayed(times) == Max(times)

\* withWatermark: how far behind the newest event it stays.
WatermarkAfter(times) == Max(times) - Watermark

NewWatermark(q) ==
  LET times == {log[i].time : i \in Read(q, committed[q], planned[q])}
  IN  IF times = {} THEN watermark[q]
      ELSE Max({watermark[q], WatermarkAfter(times)})

\* Variant: the rows are ranked from the smallest up.
OutranksUpward(q, rows, x, y) == rows[x] < rows[y]

\* port_counts ranks by packets, then bytes, then port; ip_edges by bytes, and
\* leaves ties in the order of the collected rows.  All records have the same
\* length here, so that bytes rank as packets do.
Outranks(q, rows, x, y) ==
  \/ rows[x] > rows[y]
  \/ q = "port_counts" /\ rows[x] = rows[y] /\ x[2] < y[2]

\* What is written: all rows, or a choice of the first rows of each window.
TopRows(q, rows) ==
  IF q \notin Limited THEN {DOMAIN rows} ELSE
  {S \in SUBSET DOMAIN rows :
     \A w \in {k[1] : k \in DOMAIN rows} :
       LET all == {k \in DOMAIN rows : k[1] = w}
           in  == {k \in S : k[1] = w}
       IN /\ Cardinality(in) = Min({Limit(q), Cardinality(all)})
          /\ \A x \in in, y \in all \ in : ~Outranks(q, rows, y, x)}

\* Variant: the upsert adds to the stored row.
UpsertedAdding(stored, rows) ==
  [k \in DOMAIN stored \union DOMAIN rows |-> AtZero(stored, k) + AtZero(rows, k)]

\* upsert: INSERT .. ON CONFLICT DO UPDATE, in one transaction.
Upserted(stored, rows) ==
  [k \in DOMAIN stored \union DOMAIN rows |->
     IF k \in DOMAIN rows THEN rows[k] ELSE stored[k]]

-----------------------------------------------------------------------------
Init ==
  /\ log \in [1..Records -> [time : 0..MaxTime, flow : Flows]]
  /\ pc = [q \in Queries |-> "idle"]
  /\ planned = [q \in Queries |-> None]
  /\ committed = [q \in Queries |-> 0]
  /\ watermark = [q \in Queries |-> 0]
  /\ agg = [q \in Queries |-> <<>>]
  /\ table = [q \in Queries |-> <<>>]
  /\ restarts = 0
  /\ counted = [q \in Queries |-> {}]

\* The trigger fires: the batch takes the next files there are.
Plan(q) ==
  /\ pc[q] = "idle"
  /\ \E end \in committed[q] + 1 .. Records : planned' = [planned EXCEPT ![q] = end]
  /\ pc' = [pc EXCEPT ![q] = "planned"]
  /\ UNCHANGED <<log, committed, watermark, agg, table, restarts, counted>>

\* foreachBatch: the changed rows, cut to the limit, are upserted.
Write(q) ==
  /\ pc[q] = "planned"
  /\ \E S \in TopRows(q, BatchRows(q)) :
       table' = [table EXCEPT ![q] = Upserted(@, Restrict(BatchRows(q), S))]
  /\ counted' = [counted EXCEPT ![q] = @ \union Batch(q)]
  /\ pc' = [pc EXCEPT ![q] = "written"]
  /\ UNCHANGED <<log, planned, committed, watermark, agg, restarts>>

\* Variant: the rows are not upserted in one transaction.
WriteFailsHalfway(q) ==
  /\ pc[q] = "planned" /\ DOMAIN BatchRows(q) # {}
  /\ pc' = [pc EXCEPT ![q] = "failed"]
  /\ \E S \in SUBSET DOMAIN BatchRows(q) :
       table' = [table EXCEPT ![q] = Upserted(@, Restrict(BatchRows(q), S))]
  /\ UNCHANGED <<log, planned, committed, watermark, agg, restarts, counted>>

\* The upsert raises: the transaction is rolled back and the query terminates.
WriteFails(q) ==
  /\ pc[q] = "planned" /\ DOMAIN BatchRows(q) # {}
  /\ pc' = [pc EXCEPT ![q] = "failed"]
  /\ UNCHANGED <<log, planned, committed, watermark, agg, table, restarts, counted>>

Commit(q) ==
  /\ pc[q] = "written"
  /\ committed' = [committed EXCEPT ![q] = planned[q]]
  /\ agg' = [agg EXCEPT ![q] = NewAgg(q)]
  /\ watermark' = [watermark EXCEPT ![q] = NewWatermark(q)]
  /\ planned' = [planned EXCEPT ![q] = None]
  /\ pc' = [pc EXCEPT ![q] = "idle"]
  /\ UNCHANGED <<log, table, restarts, counted>>

\* The driver dies or is stopped, and is started again: every query goes on
\* from its checkpoint, a planned batch first.
Restart ==
  /\ restarts < MaxRestarts
  /\ restarts' = restarts + 1
  /\ pc' = [q \in Queries |-> IF planned[q] = None THEN "idle" ELSE "planned"]
  /\ UNCHANGED <<log, planned, committed, watermark, agg, table, counted>>

Next == (\E q \in Queries : Plan(q) \/ Write(q) \/ WriteFails(q) \/ Commit(q)) \/ Restart

Spec == Init /\ [][Next]_vars

-----------------------------------------------------------------------------
(* Properties.                                                             *)

Keys == UNION {KeysOf(q, i) : q \in Queries, i \in 1..Records}
Horizon(q) == IF planned[q] = None THEN committed[q] ELSE planned[q]

TypeOK ==
  /\ log \in [1..Records -> [time : 0..MaxTime, flow : Flows]]
  /\ pc \in [Queries -> {"idle", "planned", "written", "failed"}]
  /\ planned \in [Queries -> 1..Records \union {None}]
  /\ committed \in [Queries -> 0..Records]
  /\ watermark \in [Queries -> 0..MaxTime]
  /\ \A q \in Queries : \A k \in DOMAIN agg[q] :
       k[1] + WindowLen > 0 /\ agg[q][k] \in 0..Records
  /\ restarts \in 0..MaxRestarts
  /\ counted \in [Queries -> SUBSET (1..Records)]

\* No row counts a record twice or one that has not been read: a batch that was
\* written but not committed when the driver died leaves no trace when it runs
\* again.
NeverOver ==
  \A q \in Queries : \A k \in DOMAIN table[q] :
    table[q][k] <= Count(q, Read(q, 0, Horizon(q)), k)

\* A record that is within the watermark of all records before it is counted,
\* wherever the batches were cut and whatever was restarted (the two queries
\* that keep the top rows excepted).
Punctual(q, i) ==
  \A j \in Read(q, 0, i) : OnTime(i, log[j].time - Watermark)
OnTimeCounted ==
  \A q \in Queries \ Limited : pc[q] = "idle" =>
    \A i \in Read(q, 0, committed[q]) : \A k \in KeysOf(q, i) :
      Punctual(q, i) =>
        AtZero(table[q], k)
          >= Cardinality({j \in Read(q, 0, committed[q]) :
                            k \in KeysOf(q, j) /\ Punctual(q, j)})

\* The rows that lead their window, ties aside, are stored with their present
\* counts, although each batch ranks only the rows it changed.
LeadersStored ==
  \A q \in Queries : pc[q] = "idle" =>
    \A k \in DOMAIN agg[q] :
      LET ahead == {j \in DOMAIN agg[q] \ {k} : j[1] = k[1] /\ agg[q][j] >= agg[q][k]}
      IN  (q \in Limited => Cardinality(ahead) < Limit(q)) => AtZero(table[q], k) = agg[q][k]

\* A stored count never falls, across batches, failures and restarts.
RowsGrow ==
  [][\A q \in Queries : \A k \in DOMAIN table[q] :
       k \in DOMAIN table'[q] /\ table'[q][k] >= table[q][k]]_vars

\* Every row is the exact count of the records that are in the table at its time: a
\* batch that is written, not committed and run again after a crash changes nothing, a
\* record enters all rows of its groups at once, and no row mixes two states, whatever
\* fails between the upsert and the commit (the foreachBatch functions of queries/).
View == INSTANCE ExactlyOnceView
  WITH Views <- Queries, Selective <- Queries \intersect Limited, rows <- table,
       records <- [q \in Queries |-> [i \in 1..Records |-> KeysOf(q, i)]]

ImplementsView == View!Spec

\* docs/todo.md:682, "`port_counts` keeps only the top-N per window by packets".
TopNKept ==
  \A q \in Queries \intersect {"port_counts"} : \A k \in DOMAIN table[q] :
    Cardinality({j \in DOMAIN table[q] : j[1] = k[1]}) <= TopNPorts
=============================================================================

------------------------------- MODULE Dgim -------------------------------
(***************************************************************************)
(* Counting ones in a sliding window (class DGIM of                        *)
(* streaming/analytics/dgim.py) next to the exact window that              *)
(* CountingOnesAnalytic keeps for comparison.  The newest bucket comes     *)
(* first; ts is the position of the newest 1 of a bucket.                  *)
(***************************************************************************)
EXTENDS Integers, Sequences, SequencesExt

CONSTANTS WindowN,   \* window_n
          DgimRows,  \* max_rows_per_batch
          DgimBatch, \* bound on the rows of a batch
          MaxTime    \* bound on the length of the stream

ASSUME DgimAssumption ==
  /\ WindowN \in Nat \ {0} /\ DgimRows \in Nat \ {0}
  /\ DgimBatch \in Nat /\ MaxTime \in Nat

VARIABLES time,      \* current_time
          buckets,
          exact      \* exact_map: the last WindowN bits, oldest first

dgimVars == <<time, buckets, exact>>

Bucket == [ts : Nat, size : Nat]

DgimInit == time = 0 /\ buckets = <<>> /\ exact = <<>>

\* Buckets are taken from the end as long as they have expired.
Unexpired(bs, cutoff) ==
  SubSeq(bs, 1, Max({0} \union {i \in DOMAIN bs : bs[i].ts > cutoff}))

\* Variant: the merged bucket gets the older timestamp.
MergedOlder(b, c) == [ts |-> c.ts, size |-> 2 * b.size]

\* Two buckets of one size become one that ends where the newer of them ends.
Merged(b, c) == [ts |-> b.ts, size |-> 2 * b.size]

\* One round of the loop of _merge_buckets: i is the position of the first of three.
Round(w) ==
  LET bs == w.bs
      i == w.i
  IN IF i + 2 > Len(bs) THEN w
     ELSE IF bs[i].size = bs[i + 1].size /\ bs[i + 1].size = bs[i + 2].size
     THEN [bs |-> SubSeq(bs, 1, i) \o <<Merged(bs[i + 1], bs[i + 2])>>
                    \o SubSeq(bs, i + 3, Len(bs)),
           i |-> IF i = 1 THEN 1 ELSE i - 1]
     ELSE [w EXCEPT !.i = i + 1]

\* The loop.  A merge removes a bucket and goes back one place, any other round goes on
\* by one place, so that it has ended after 2 * Len(bs) rounds.
MergeBuckets(bs) ==
  LET walk[n \in 0 .. 2 * Len(bs)] ==
        IF n = 0 THEN [bs |-> bs, i |-> 1] ELSE Round(walk[n - 1])
  IN walk[2 * Len(bs)].bs

\* update(bit), at the position t of the bit.
Updated(bs, t, bit) ==
  LET live == Unexpired(bs, t - WindowN)
  IN IF bit = 1 THEN MergeBuckets(<<[ts |-> t, size |-> 1]>> \o live) ELSE live

\* One bit for the estimator and for the deque of maxlen WindowN.
Fed(s, bit) ==
  [time |-> s.time + 1,
   buckets |-> Updated(s.buckets, s.time + 1, bit),
   exact |-> Append(IF Len(s.exact) < WindowN THEN s.exact ELSE Tail(s.exact), bit)]

\* process_batch, by the bits of one predicate in the order of the event times: rows
\* above the cap are dropped, a batch that fails in the upsert has been fed all the same
\* (and is fed again when it is dispatched again).
CountBatch(bits) ==
  LET rows == IF Len(bits) < DgimRows THEN Len(bits) ELSE DgimRows
      fed[n \in 0..rows] ==
        IF n = 0 THEN [time |-> time, buckets |-> buckets, exact |-> exact]
        ELSE Fed(fed[n - 1], bits[n])
  IN /\ fed[rows].time <= MaxTime
     /\ time' = fed[rows].time /\ buckets' = fed[rows].buckets /\ exact' = fed[rows].exact

\* A new process starts from nothing: stream_app.py gives the plugin no state_dir, and
\* nothing calls restore().
DgimRestart == time' = 0 /\ buckets' = <<>> /\ exact' = <<>>

SumSizes(bs) ==
  LET sum[n \in 0..Len(bs)] == IF n = 0 THEN 0 ELSE sum[n - 1] + bs[n].size
  IN sum[Len(bs)]

\* Variant: the oldest bucket counts in full.
QueryFull(k) ==
  SumSizes(Unexpired(buckets, time - (IF k < WindowN THEN k ELSE WindowN)))

\* query(k): all buckets that end in the last k positions, half of the oldest.
Query(k) ==
  LET in == Unexpired(buckets, time - (IF k < WindowN THEN k ELSE WindowN))
  IN IF in = <<>> THEN 0 ELSE SumSizes(Front(in)) + Last(in).size \div 2

DgimNext ==
  \/ \E bits \in BoundedSeq({0, 1}, DgimBatch) : bits # <<>> /\ CountBatch(bits)
  \/ DgimRestart

DgimSpec == DgimInit /\ [][DgimNext]_dgimVars

-----------------------------------------------------------------------------
\* The ones among the last k positions.
Ones(k) == Cardinality({i \in DOMAIN exact : i > Len(exact) - k /\ exact[i] = 1})

Distance(a, b) == IF a < b THEN b - a ELSE a - b

\* A query is at most half of the exact count away from it, for every window and every
\* query length that contains more than a single 1.
HalfErrorAboveOne ==
  \A k \in 1..WindowN : Ones(k) > 1 => 2 * Distance(Query(k), Ones(k)) <= Ones(k)

\* No three buckets have one size, wherever they are in the list.
AtMostTwoOfASize ==
  \A i, j, l \in DOMAIN buckets : i < j /\ j < l =>
    ~(buckets[i].size = buckets[j].size /\ buckets[j].size = buckets[l].size)

\* What the class promises (dgim.py 6, 41-45, 81): an error of at most 50 % with at most
\* two buckets of every size.
DgimGuarantees == HalfErrorAboveOne /\ AtMostTwoOfASize
=============================================================================

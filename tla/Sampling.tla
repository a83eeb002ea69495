------------------------------ MODULE Sampling ------------------------------
(***************************************************************************)
(* The reservoir of streaming/analytics/sampling.py (Algorithm R) and the  *)
(* totals SamplingAnalytic compares it with.  Instead of one sample the    *)
(* model keeps all of them: outcomes[s] is the number of equally likely    *)
(* sequences of random draws after which sample_list is s.  The rows of    *)
(* sampling_compare are functions of this state; whether their upsert      *)
(* succeeds changes nothing in it.                                         *)
(***************************************************************************)
EXTENDS Integers, Sequences, SequencesExt

CONSTANTS SampleK,          \* k of the reservoir
          Lengths,          \* packet lengths
          MaxRows,          \* max_rows_per_batch
          MaxBatch,         \* bound on the rows of a batch
          MaxSeen           \* bound on the records sampled in one life

ASSUME SamplingAssumption ==
  /\ SampleK \in Nat \ {0} /\ MaxRows \in Nat \ {0}
  /\ Lengths \subseteq Nat \ {0} /\ MaxBatch \in Nat /\ MaxSeen \in Nat

VARIABLES seen,             \* n_seen
          outcomes,
          lenSum, lenCount  \* cumulative_len_sum, cumulative_len_count

samplingVars == <<seen, outcomes, lenSum, lenCount>>

NoSample == [s \in {<<>>} |-> 1]

SamplingInit == seen = 0 /\ outcomes = NoSample /\ lenSum = 0 /\ lenCount = 0

\* The sample s after the draw j.
Placed(s, j, x) == IF j < SampleK THEN [s EXCEPT ![j + 1] = x] ELSE s

\* All samples with their weights when x comes after n others and j is drawn from J.
Drawn(dist, J, x) ==
  [t \in {Placed(s, j, x) : s \in DOMAIN dist, j \in J} |->
     SumFunction([s \in DOMAIN dist |->
       dist[s] * Cardinality({j \in J : Placed(s, j, x) = t})])]

\* Variant: the draw leaves out the newest position.
OfferedShort(dist, n, x) ==
  IF n < SampleK
  THEN [t \in {Append(s, x) : s \in DOMAIN dist} |-> dist[Front(t)]]
  ELSE Drawn(dist, 0..(n - 1), x)

\* ReservoirSampler.add(x) with n_seen = n.
Offered(dist, n, x) ==
  IF n < SampleK
  THEN [t \in {Append(s, x) : s \in DOMAIN dist} |-> dist[Front(t)]]
  ELSE Drawn(dist, 0..n, x)

Total(lengths) == FoldSeq(+, 0, lengths)

\* process_batch on the lengths of a batch, of which max_rows are used.
SampleBatch(batch) ==
  LET rows == SubSeq(batch, 1, IF Len(batch) < MaxRows THEN Len(batch) ELSE MaxRows)
      dist[i \in 0..Len(rows)] ==
        IF i = 0 THEN outcomes ELSE Offered(dist[i - 1], seen + i - 1, rows[i])
  IN /\ seen + Len(rows) <= MaxSeen
     /\ rows # <<>>
     /\ lenSum' = lenSum + Total(rows) /\ lenCount' = lenCount + Len(rows)
     /\ outcomes' = dist[Len(rows)] /\ seen' = seen + Len(rows)

\* Nothing of this is persisted: a restarted process samples anew.
SamplingRestart ==
  /\ seen' = 0 /\ outcomes' = NoSample /\ lenSum' = 0 /\ lenCount' = 0

SamplingNext ==
  \/ \E batch \in BoundedSeq(Lengths, MaxBatch) : SampleBatch(batch)
  \/ SamplingRestart

SamplingSpec == SamplingInit /\ [][SamplingNext]_samplingVars

-----------------------------------------------------------------------------
\* Whatever the lengths and however they are cut into batches, the mean of the
\* reservoir equals on average the mean it is compared with: every record counted
\* in the totals has the same chance to be in the sample (sampling.py 49-60, 137).
ReservoirUnbiased ==
  lenCount > 0 =>
    LET size == IF seen < SampleK THEN seen ELSE SampleK
    IN /\ \A s \in DOMAIN outcomes : Len(s) = size
       /\ SumFunction([s \in DOMAIN outcomes |-> outcomes[s] * Total(s)]) * lenCount
            = SumFunction(outcomes) * size * lenSum
=============================================================================

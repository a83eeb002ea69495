------------------------------- MODULE Decay --------------------------------
(***************************************************************************)
(* The plugin decay (streaming/analytics/decay.py): per half-life one      *)
(* decaying counter of all traffic and, per key type, a table of decaying  *)
(* counters that drops small keys when it is over its limit.  A packet     *)
(* weighs Unit, a power of two that MaxClock cannot halve below 1, so that *)
(* scores are exact integers.  The rows written are functions of this      *)
(* state, which is also what the JSON file of the plugin holds.            *)
(***************************************************************************)
EXTENDS Integers, Sequences, SequencesExt

CONSTANTS HalfLives,    \* half_lives_s
          KeyTypes,     \* dst_ip and dst_port
          KeyCounts,    \* a batch: its rows, and per key type a function of counts
          MaxKeys,      \* max_keys
          Epsilon,      \* epsilon, in parts of Unit
          MaxTraffic,   \* bound on the score of all traffic, in packets
          Steps,        \* bound: what the clock may advance by
          MaxClock      \* bound on the clock

\* Two to the n.
TwoTo[n \in Nat] == IF n = 0 THEN 1 ELSE 2 * TwoTo[n - 1]

Unit == TwoTo[MaxClock]

ASSUME DecayAssumption ==
  /\ HalfLives \subseteq Nat \ {0} /\ MaxKeys \in Nat /\ Epsilon \in 1..(Unit \div 2)
  /\ MaxTraffic \in Nat /\ MaxClock \in Nat /\ Steps \subseteq Nat
  /\ \A d \in Steps, h \in HalfLives : d % h = 0
  /\ \A b \in KeyCounts : b.rows \in Nat \ {0}
  /\ \A b \in KeyCounts, y \in KeyTypes :
       /\ IsFiniteSet(DOMAIN b.counts[y]) /\ SumFunction(b.counts[y]) <= b.rows
       /\ \A k \in DOMAIN b.counts[y] : b.counts[y][k] \in Nat \ {0}

VARIABLES tick,         \* ctx.clock of the next batch
          traffic,      \* traffic_counters
          tables,       \* dst_ip_tables and dst_port_tables
          truth,        \* history: the same tables without pruning
          file          \* decay_state.json, with the history that belongs to it

decayVars == <<tick, traffic, tables, truth, file>>

Tables == HalfLives \X KeyTypes
NoTables == [x \in Tables |-> [k \in {} |-> 0]]
NoTraffic == [h \in HalfLives |-> [score |-> 0, last |-> 0]]

DecayInit ==
  /\ tick = 0 /\ traffic = NoTraffic /\ tables = NoTables /\ truth = NoTables
  /\ file = <<traffic, tables, truth>>

\* DecayingCounter.value
Value(c, h, t) == IF t > c.last THEN c.score \div TwoTo[(t - c.last) \div h] ELSE c.score

\* DecayingCounter.add
Raised(c, h, n, t) ==
  [score |-> Value(c, h, t) + n * Unit, last |-> IF t > c.last THEN t ELSE c.last]

KeyAdded(table, h, k, n, t) ==
  [x \in DOMAIN table \union {k} |->
     IF x # k THEN table[x]
     ELSE Raised(IF k \in DOMAIN table THEN table[k] ELSE [score |-> 0, last |-> t],
                 h, n, t)]

\* Variant: keys of less than one packet are dropped.
PrunedEarly(table, h, t) ==
  Restrict(table, {k \in DOMAIN table : Value(table[k], h, t) >= Unit})

\* DecayingKeyTable.prune
Pruned(table, h, t) ==
  Restrict(table, {k \in DOMAIN table : Value(table[k], h, t) >= Epsilon})

\* DecayingKeyTable.add
AddedPruning(table, h, k, n, t) ==
  LET grown == KeyAdded(table, h, k, n, t)
  IN IF Cardinality(DOMAIN grown) > MaxKeys THEN Pruned(grown, h, t) ELSE grown

\* The keys of a batch, most frequent first; the order of equal counts is Spark's.
Orders(counts) ==
  {s \in SetToSeqs(DOMAIN counts) :
     \A i, j \in DOMAIN s : i < j => counts[s[i]] >= counts[s[j]]}

\* A table after the keys of a batch were added to it, one by one.
Filled(table, h, keys, counts, t) ==
  LET filled[i \in 0..Len(keys)] ==
        IF i = 0 THEN table
        ELSE AddedPruning(filled[i - 1], h, keys[i], counts[keys[i]], t)
  IN filled[Len(keys)]

\* History: the same without a limit on the keys.
FilledUnlimited(table, h, keys, counts, t) ==
  LET filled[i \in 0..Len(keys)] ==
        IF i = 0 THEN table ELSE KeyAdded(filled[i - 1], h, keys[i], counts[keys[i]], t)
  IN filled[Len(keys)]

\* process_batch on a batch that is not empty.  The state is persisted at the end;
\* the upserts before that may raise, and writing the file may fail.
DecayBatch(b) ==
  /\ \A h \in HalfLives :
       Value(traffic[h], h, tick) + b.rows * Unit <= MaxTraffic * Unit
  /\ traffic' = [h \in HalfLives |-> Raised(traffic[h], h, b.rows, tick)]
  /\ \E order \in {o \in [KeyTypes -> UNION {Orders(b.counts[y]) : y \in KeyTypes}] :
                     \A y \in KeyTypes : o[y] \in Orders(b.counts[y])} :
       /\ tables' = [x \in Tables |->
                      Filled(tables[x], x[1], order[x[2]], b.counts[x[2]], tick)]
       /\ truth' = [x \in Tables |->
                     FilledUnlimited(truth[x], x[1], order[x[2]], b.counts[x[2]], tick)]
  /\ file' \in {file, <<traffic', tables', truth'>>}
  /\ UNCHANGED tick

DecayTick ==
  /\ \E d \in Steps \ {0} : tick + d <= MaxClock /\ tick' = tick + d
  /\ UNCHANGED <<traffic, tables, truth, file>>

\* Variant: only the tables are restored.
DecayRestartPartly ==
  /\ traffic' = NoTraffic /\ tables' = file[2] /\ truth' = file[3]
  /\ UNCHANGED <<tick, file>>

\* A new process restores what was persisted, if anything was.
DecayRestart ==
  /\ traffic' = file[1] /\ tables' = file[2] /\ truth' = file[3]
  /\ UNCHANGED <<tick, file>>

DecayNext == (\E b \in KeyCounts : DecayBatch(b)) \/ DecayTick \/ DecayRestart

DecaySpec == DecayInit /\ [][DecayNext]_decayVars

-----------------------------------------------------------------------------
Scored(table, h, k) == IF k \in DOMAIN table THEN Value(table[k], h, tick) ELSE 0

\* Pruning costs a key less than two epsilons of its score, however often it is
\* dropped and comes back, and never adds to it (decay.py 92-113).
PruningHarmless ==
  \A x \in Tables : \A k \in DOMAIN truth[x] :
    LET exact == Scored(truth[x], x[1], k)
        score == Scored(tables[x], x[1], k)
    IN score <= exact /\ exact < score + 2 * Epsilon

\* The keys of one table never score more together than all traffic does, also
\* after a restart from a file of any age.
KeysWithinTraffic ==
  \A x \in Tables :
    SumFunction([k \in DOMAIN tables[x] |-> Scored(tables[x], x[1], k)])
      <= Value(traffic[x[1]], x[1], tick)

\* Scores are bounded from both sides: pruning hardly lowers one, and nothing raises
\* one above what the traffic gives.
ScoresBounded == PruningHarmless /\ KeysWithinTraffic
=============================================================================

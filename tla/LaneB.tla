------------------------------- MODULE LaneB -------------------------------
(***************************************************************************)
(* Lane B of the streaming application: Spark calls the dispatcher of      *)
(* streaming/stream_app.py once per micro-batch and commits the batch when *)
(* it returns; a batch that was planned but not committed is dispatched    *)
(* again after a restart.  Two plugins are modelled, each with state per   *)
(* event-time window: moments (exact counts of destinations, persisted to  *)
(* a JSON file, restored on start) and fm (distinct sketches, in memory    *)
(* only, estimates upserted into distinct_counts).  A sketch is the set of *)
(* keys it has been given and its estimate the size of that set: adding a  *)
(* key again leaves the bitmaps as they are, and the estimate only grows.  *)
(***************************************************************************)
EXTENDS Integers, FiniteSetsExt, Functions

CONSTANTS Records,        \* the records of the input stream
          Keys,           \* destination addresses
          WindowOf, KeyOf,  \* the window and the destination of a record
          MaxRowsPerBatch,  \* max_rows_per_batch
          MomentsKeep,    \* windows kept by moments (60)
          FmKeep,         \* windows kept by fm (10)
          MaxLives        \* bound on the lives of the process

ASSUME RecordsAssumption ==
  /\ WindowOf \in [Records -> Nat \ {0}] /\ KeyOf \in [Records -> Keys]
  /\ IsFiniteSet(Keys)
ASSUME LimitsAssumption ==
  /\ MaxRowsPerBatch \in Nat \ {0} /\ MaxLives \in Nat \ {0}
  /\ MomentsKeep \in Nat \ {0} /\ FmKeep \in Nat \ {0}

Windows == {WindowOf[r] : r \in Records}
Plugins == {"moments", "fm"}

VARIABLES
  waiting,    \* records not in any batch yet
  planned,    \* Spark has written the current batch to its offset log
  batch,      \* the records of the current batch
  pc,         \* the dispatcher: "idle", "moments", "fm", "health", "commit", "dead"
  errors,     \* plugin_errors of this call
  momMem,     \* window_exact: counts per window and key, all zero for no entry
  momDisk,    \* moments_state.json
  momDb,      \* f2_exact of the moments table, 0 for NULL
  fmMem,      \* _window_sketches: {} for no entry
  fmDb,       \* dst_ips_fm of distinct_counts, 0 for NULL
  health,     \* the latest pipeline_health rows
  lost,       \* history: windows whose sketch was dropped, by expiry or a restart
  life,       \* history: lives of the process so far
  delivered,  \* history: records dispatched at least once
  committed   \* history: records of committed batches

control == <<waiting, planned, batch, delivered, committed, life>>
moments == <<momMem, momDisk, momDb>>
fm == <<fmMem, fmDb, lost>>
vars == <<control, pc, errors, moments, fm, health>>

NoCounts == [k \in Keys |-> 0]

Init ==
  /\ waiting = Records /\ planned = FALSE /\ batch = {} /\ pc = "idle"
  /\ errors = 0
  /\ momMem = [w \in Windows |-> NoCounts] /\ momDisk = momMem
  /\ momDb = [w \in Windows |-> 0]
  /\ fmMem = [w \in Windows |-> {}] /\ fmDb = [w \in Windows |-> 0]
  /\ lost = {}
  /\ health = [rows |-> 0, errors |-> 0]
  /\ life = 1 /\ delivered = {} /\ committed = {}

-----------------------------------------------------------------------------
\* Spark plans a batch of records that arrived, possibly none that is valid.
Plan ==
  /\ pc = "idle" /\ ~planned
  /\ \E b \in SUBSET waiting :
       IsFiniteSet(b) /\ batch' = b /\ waiting' = waiting \ b
  /\ planned' = TRUE /\ pc' = "moments"
  /\ delivered' = delivered \union batch'
  /\ errors' = 0
  /\ UNCHANGED <<committed, life, moments, fm, health>>

\* What limit(max_rows) leaves of a batch.
Capped(b) == kSubset(Min({MaxRowsPerBatch, Cardinality(b)}), b)

Oldest(S, n) == {w \in S : Cardinality({v \in S : v < w}) < n}

Evicted(S, keep) == Oldest(S, Cardinality(S) - keep)

Touched(rows) == {WindowOf[r] : r \in rows}

Added(counts, rows) ==
  [w \in Windows |-> [k \in Keys |->
     counts[w][k] + Cardinality({r \in rows : WindowOf[r] = w /\ KeyOf[r] = k})]]

Live(counts) == {w \in Windows : counts[w] # NoCounts}

ExactF2(counts) == FoldFunction(LAMBDA c, sum : sum + c * c, 0, counts)

\* BatchContext is built without a connection.
ContextHasConn == FALSE

\* moments: count, evict, look up every window of the batch, persist.  The lookup
\* raises when a window of the batch has just been evicted.  Writing the file may
\* fail, which is only logged.
CountRows(rows) ==
  LET counts == Added(momMem, rows)
      old == Evicted(Live(counts), MomentsKeep)
      kept == [w \in Windows |-> IF w \in old THEN NoCounts ELSE counts[w]]
  IN /\ momMem' = kept
     /\ IF Touched(rows) \intersect old # {}
        THEN errors' = errors + 1 /\ UNCHANGED <<momDisk, momDb>>
        ELSE /\ momDb' = [w \in Windows |-> IF ContextHasConn /\ w \in Touched(rows)
                                             THEN ExactF2(kept[w]) ELSE momDb[w]]
             /\ momDisk' \in {kept, momDisk}
             /\ UNCHANGED errors

\* Variant: a plugin that raised is called again.
RunMomentsRetried ==
  /\ pc = "moments"
  /\ \E rows \in Capped(batch) :
       IF rows = {} THEN UNCHANGED <<moments, errors>> ELSE CountRows(rows)
  /\ pc' = (IF errors' > errors THEN "moments" ELSE "fm")
  /\ UNCHANGED <<control, fm, health>>

RunMoments ==
  /\ pc = "moments" /\ pc' = "fm"
  /\ \E rows \in Capped(batch) :
       IF rows = {} THEN UNCHANGED <<moments, errors>> ELSE CountRows(rows)
  /\ UNCHANGED <<control, fm, health>>

\* Variant: a batch starts its sketches afresh.
SketchedAfresh(rows) ==
  [w \in Windows |-> IF w \in Touched(rows)
     THEN {KeyOf[r] : r \in {x \in rows : WindowOf[x] = w}} ELSE fmMem[w]]

Sketched(rows) ==
  [w \in Windows |-> fmMem[w] \union {KeyOf[r] : r \in {x \in rows : WindowOf[x] = w}}]

Estimate(sketch) == Cardinality(sketch)

Holding(sketches) == {w \in Windows : sketches[w] # {}}

Stored(sketches) ==
  [w \in Windows |-> IF sketches[w] # {} THEN Estimate(sketches[w]) ELSE fmDb[w]]

Expired(sketches) ==
  LET old == Evicted(Holding(sketches), FmKeep)
  IN [w \in Windows |-> IF w \in old THEN {} ELSE sketches[w]]

\* Variants: sketches expire whether or not the upsert succeeds; the table is
\* incremented by the records of the batch.
SketchExpiringFirst(rows) ==
  /\ fmMem' = Expired(Sketched(rows)) /\ UNCHANGED lost
  /\ \/ fmDb' = Stored(Sketched(rows)) /\ UNCHANGED errors
     \/ errors' = errors + 1 /\ UNCHANGED fmDb

StoreAdding(rows) ==
  /\ fmMem' = Expired(Sketched(rows)) /\ UNCHANGED lost
  /\ fmDb' = [w \in Windows |->
       fmDb[w] + Cardinality({r \in rows : WindowOf[r] = w})]
  /\ UNCHANGED errors

\* fm: sketch, upsert the estimates of every window held, then expire.  The upsert
\* raises when the database stays locked; the sketches are kept.
SketchRows(rows) ==
  \/ /\ fmDb' = Stored(Sketched(rows)) /\ fmMem' = Expired(Sketched(rows))
     /\ lost' = lost \union (Holding(Sketched(rows)) \ Holding(fmMem'))
     /\ UNCHANGED errors
  \/ /\ fmMem' = Sketched(rows)
     /\ errors' = errors + 1 /\ UNCHANGED <<fmDb, lost>>

RunFm ==
  /\ pc = "fm" /\ pc' = "health"
  /\ \E rows \in Capped(batch) :
       IF rows = {} THEN UNCHANGED <<fm, errors>> ELSE SketchRows(rows)
  /\ UNCHANGED <<control, moments, health>>

\* The health rows; the counter of slow batches only drives a warning.
WriteHealth ==
  /\ pc = "health" /\ pc' = "commit"
  /\ health' = [rows |-> Cardinality(batch), errors |-> errors]
  /\ UNCHANGED <<control, errors, moments, fm>>

\* Variant: when the upsert of the health rows fails, the sketches and the health rows
\* are written again, without limit.
HealthRetried ==
  /\ pc = "health" /\ pc' = "fm"
  /\ errors' = 0
  /\ UNCHANGED <<control, moments, fm, health>>

\* This upsert is outside every try ... except: its failure ends the query.
HealthFails ==
  /\ pc = "health" /\ pc' = "dead"
  /\ UNCHANGED <<control, errors, moments, fm, health>>

Commit ==
  /\ pc = "commit" /\ pc' = "idle"
  /\ planned' = FALSE /\ batch' = {} /\ committed' = committed \union batch
  /\ UNCHANGED <<waiting, delivered, life, errors, moments, fm, health>>

\* The process ends anywhere (a crash, or a stop that interrupts the batch) and is
\* started again: moments reads its file, fm starts empty, and a planned batch is
\* dispatched again.
Restart ==
  /\ life < MaxLives /\ life' = life + 1
  /\ pc' = (IF planned THEN "moments" ELSE "idle")
  /\ errors' = 0
  /\ momMem' = momDisk /\ fmMem' = [w \in Windows |-> {}]
  /\ lost' = lost \union Holding(fmMem)
  /\ UNCHANGED <<waiting, planned, batch, delivered, committed, momDisk, momDb, fmDb,
                 health>>

Dispatch == RunMoments \/ RunFm \/ WriteHealth \/ HealthFails \/ Commit

Next == Plan \/ Dispatch \/ Restart

Spec == Init /\ [][Next]_vars

\* The dispatcher's calls return, and the file source takes its files in order:
\* batches without a valid record may come in between, but they do not keep a
\* waiting record from being planned forever.
FairSpec ==
  Spec /\ WF_vars(Dispatch) /\ SF_vars(Plan /\ batch' # {})

-----------------------------------------------------------------------------
Counts == [Windows -> [Keys -> Nat]]

TypeOK ==
  /\ waiting \subseteq Records /\ batch \subseteq Records
  /\ delivered \subseteq Records /\ committed \subseteq Records
  /\ planned \in BOOLEAN
  /\ pc \in {"idle", "moments", "fm", "health", "commit", "dead"}
  /\ pc = "idle" <=> ~planned
  /\ errors \in 0..Cardinality(Plugins)
  /\ momMem \in Counts /\ momDisk \in Counts /\ momDb \in [Windows -> Nat]
  /\ lost \subseteq Windows
  /\ fmMem \in [Windows -> SUBSET Keys] /\ fmDb \in [Windows -> Nat]
  /\ health \in [rows : Nat, errors : Nat]
  /\ life \in 1..MaxLives

KeysIn(rows, w) == {KeyOf[r] : r \in {x \in rows : WindowOf[x] = w}}

\* However often a batch is replayed, the distinct estimate of a window never
\* counts a key it was not given or counts one twice (fm.py 242-262).
FmNeverOver ==
  \A w \in Windows : fmDb[w] <= Cardinality(KeysIn(delivered, w))

\* fm.py 252-280: a sketch is only dropped, short of a restart, with its final
\* estimate already in the table, also when the upserts before failed.
StoredBeforeExpiry ==
  [][\A w \in Windows :
       life' = life /\ fmMem[w] # {} /\ fmMem'[w] = {} =>
         fmDb'[w] >= Cardinality(fmMem[w])]_vars

\* fm.py 252-280: an estimate in the table only ever shrinks for a window whose sketch
\* was lost before, expired with late rows still to come or gone with a process.
FmShrinksOnlyWhenLost ==
  [][\A w \in Windows : fmDb'[w] < fmDb[w] => w \in lost]_vars

\* Every record is in a committed batch in the end, through any finite number of
\* restarts and however the plugins failed, unless the query has died.
RecordsCommitted == []<>(committed = Records \/ pc = "dead")

\* moments.py 341: the counters are saved before Spark commits the batch, so a batch
\* that is dispatched again after a crash counts again; but one life of the process
\* counts a record once, however plugins, upserts and saves failed before.
MomentsOncePerLife ==
  \A w \in Windows, k \in Keys :
    momMem[w][k] <= life * Cardinality({r \in delivered : WindowOf[r] = w /\ KeyOf[r] = k})
=============================================================================

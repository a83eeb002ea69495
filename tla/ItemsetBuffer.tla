--------------------------- MODULE ItemsetBuffer ---------------------------
(***************************************************************************)
(* The itemset plugin of Lane B (streaming/analytics/itemsets.py): a       *)
(* rolling buffer of baskets, one per source and one-second slice, mined   *)
(* every Every seconds with A-Priori and PCY, whose rows are upserted into *)
(* frequent_itemsets; the state file is written after a mining only.  The  *)
(* driver may crash anywhere and Spark then delivers the batch again.      *)
(***************************************************************************)
EXTENDS Itemsets, Functions

CONSTANTS Sources, Window, MaxBaskets, Every,
          SupportNum, SupportDen,          \* min_support as a ratio
          Hashes,                          \* the hash functions of PCY to consider
          Batches,                         \* Batches[t]: what a batch cut at t may hold
          MaxNow, MaxBatches, MaxCrashes,  \* bounds of the model
          None

Records == [src : Sources, slice : 0..MaxNow, item : Items]
Keys == Sources \X (0..MaxNow)
Algorithms == {"apriori", "pcy"}

ASSUME BufferAssumption ==
  /\ Window \in Nat \ {0} /\ MaxBaskets \in Nat \ {0} /\ Every \in Nat \ {0}
  /\ SupportNum \in Nat \ {0} /\ SupportDen \in Nat \ {0}
  /\ MaxNow \in Nat /\ MaxBatches \in Nat /\ MaxCrashes \in Nat
  /\ None \notin Int
ASSUME SourcesAssumption ==
  IsFiniteSet(Sources) /\ \A t \in 0..MaxNow : Batches[t] \subseteq SUBSET Records

VARIABLES
  now,        \* the clock, in seconds
  pc,         \* what the driver is at
  batch,      \* the records of the batch in hand
  buffer,     \* the baskets by <<source, slice>>
  lastRun,    \* last_run_time
  clock,      \* current_t of the batch in hand
  disk,       \* the state file: lastRun and buffer, or None
  table,      \* frequent_itemsets: <<window start, algorithm, itemset>> to count
  hash,       \* the pair hash
  absorbed,   \* history: every record that reached the buffer
  complete,   \* history: neither a crash nor the cap has dropped a basket
  batches, crashes

vars == <<now, pc, batch, buffer, lastRun, clock, disk, table, hash, absorbed,
          complete, batches, crashes>>

-----------------------------------------------------------------------------
(* The buffer.                                                             *)

KeyOf(r) == <<r.src, r.slice>>

\* make_baskets
Basketed(records) ==
  [k \in {KeyOf(r) : r \in records} |-> {r.item : r \in {q \in records : KeyOf(q) = k}}]

At(b, k) == IF k \in DOMAIN b THEN b[k] ELSE {}

\* Variant: a later batch replaces the basket of its key.
AddedOver(b, new) ==
  [k \in DOMAIN b \union DOMAIN new |-> IF k \in DOMAIN new THEN new[k] ELSE b[k]]

Added(b, new) == [k \in DOMAIN b \union DOMAIN new |-> At(b, k) \union At(new, k)]

\* Variant: the slice at the cutoff stays.
InWindowInclusive(b, t) == Restrict(b, {k \in DOMAIN b : k[2] >= t - Window})

InWindow(b, t) == Restrict(b, {k \in DOMAIN b : k[2] > t - Window})

Oldest(keys, n) ==
  {out \in SUBSET keys : /\ Cardinality(out) = n
                         /\ \A x \in out, y \in keys \ out : x[2] <= y[2]}

\* The cap removes the oldest baskets; among baskets of one slice the order of
\* the dictionary decides, which the model leaves open.
Capped(b) ==
  IF Cardinality(DOMAIN b) <= MaxBaskets THEN {b}
  ELSE {Restrict(b, DOMAIN b \ out) :
          out \in Oldest(DOMAIN b, Cardinality(DOMAIN b) - MaxBaskets)}

-----------------------------------------------------------------------------
(* Mining.                                                                 *)

Due(t) == lastRun = None \/ t - lastRun >= Every

Threshold(b) == MinSupportCount(SupportNum, SupportDen, Cardinality(DOMAIN b))

Mined(b, algorithm) ==
  IF algorithm = "apriori" THEN Apriori(b, Threshold(b)) ELSE Pcy(b, hash, Threshold(b))

\* The rows of one mining, keyed as the upsert keys them.
MinedRows(b, t) ==
  [k \in UNION {{<<t - Window, a, s>> : s \in DOMAIN Mined(b, a)} : a \in Algorithms} |->
     Mined(b, k[2])[k[3]]]

Upserted(rows, new) ==
  [k \in DOMAIN rows \union DOMAIN new |-> IF k \in DOMAIN new THEN new[k] ELSE rows[k]]

-----------------------------------------------------------------------------
Init ==
  /\ now = 0 /\ pc = "idle" /\ batch = {} /\ buffer = <<>> /\ lastRun = None
  /\ clock = 0 /\ disk = None /\ table = <<>> /\ hash \in Hashes
  /\ absorbed = {} /\ complete = TRUE /\ batches = 0 /\ crashes = 0

Tick ==
  /\ now < MaxNow
  /\ now' = now + 1
  /\ UNCHANGED <<pc, batch, buffer, lastRun, clock, disk, table, hash, absorbed,
                 complete, batches, crashes>>

\* Spark cuts a batch and logs its offsets.  A batch without rows returns
\* before it touches the plugin's state and is left out.
Plan ==
  /\ pc = "idle" /\ batches < MaxBatches
  /\ \E records \in Batches[now] : batch' = records
  /\ pc' = "planned" /\ batches' = batches + 1
  /\ UNCHANGED <<now, buffer, lastRun, clock, disk, table, hash, absorbed, complete, crashes>>

\* process_batch up to the mining: the baskets of the batch enter the buffer,
\* the old ones leave it.
Absorb ==
  /\ pc = "planned"
  /\ clock' = now
  /\ LET aged == InWindow(Added(buffer, Basketed(batch)), now) IN
     /\ buffer' \in Capped(aged)
     /\ complete' = (complete /\ Cardinality(DOMAIN aged) <= MaxBaskets)
  /\ absorbed' = absorbed \union batch
  /\ pc' = IF ~Due(now) THEN "done"
           ELSE IF buffer' = <<>> THEN "saving" ELSE "mining"
  /\ UNCHANGED <<now, batch, lastRun, disk, table, hash, batches, crashes>>

Publish ==
  /\ pc = "mining"
  /\ table' = Upserted(table, MinedRows(buffer, clock))
  /\ pc' = "saving"
  /\ UNCHANGED <<now, batch, buffer, lastRun, clock, disk, hash, absorbed, complete,
                 batches, crashes>>

\* The upsert raises: process_batch ends there and Lane B goes on to the next
\* plugin.
PublishFails ==
  /\ pc = "mining" /\ DOMAIN MinedRows(buffer, clock) # {}
  /\ pc' = "done"
  /\ UNCHANGED <<now, batch, buffer, lastRun, clock, disk, table, hash, absorbed,
                 complete, batches, crashes>>

\* Variant: last_run_time is left alone.
MarkRunForgotten == lastRun' = lastRun

MarkRun == lastRun' = clock

\* last_run_time is set and the state file replaced, or, if that fails, the old
\* file stays.
Save ==
  /\ pc = "saving"
  /\ MarkRun
  /\ disk' \in {[lastRun |-> lastRun', buffer |-> buffer], disk}
  /\ pc' = "done"
  /\ UNCHANGED <<now, batch, buffer, clock, table, hash, absorbed, complete, batches, crashes>>

Commit ==
  /\ pc = "done"
  /\ pc' = "idle" /\ batch' = {}
  /\ UNCHANGED <<now, buffer, lastRun, clock, disk, table, hash, absorbed, complete,
                 batches, crashes>>

\* The driver dies.  It is not back within the second.
Crash ==
  /\ pc # "down" /\ crashes < MaxCrashes /\ now < MaxNow
  /\ pc' = "down" /\ now' = now + 1
  /\ buffer' = <<>> /\ lastRun' = None
  /\ complete' = FALSE /\ crashes' = crashes + 1
  /\ UNCHANGED <<batch, clock, disk, table, hash, absorbed, batches>>

\* _restore_state, and the batch that was not committed is delivered again.
Restart ==
  /\ pc = "down"
  /\ IF disk = None THEN UNCHANGED <<buffer, lastRun>>
     ELSE buffer' = disk.buffer /\ lastRun' = disk.lastRun
  /\ pc' = IF batch = {} THEN "idle" ELSE "planned"
  /\ UNCHANGED <<now, batch, clock, disk, table, hash, absorbed, complete, batches, crashes>>

Next == \/ Tick \/ Plan \/ Absorb \/ Publish \/ PublishFails \/ Save \/ Commit
        \/ Crash \/ Restart

Spec == Init /\ [][Next]_vars

-----------------------------------------------------------------------------
(* Properties.                                                             *)

BufferOK(b) ==
  /\ IsFiniteSet(DOMAIN b) /\ DOMAIN b \subseteq Keys
  /\ \A k \in DOMAIN b : b[k] \in SUBSET Items

\* A published count is a positive number (max(1, ceil(..)), itemsets.py 167).
TypeOK ==
  /\ now \in 0..MaxNow /\ clock \in 0..now /\ batch \subseteq Records
  /\ pc \in {"idle", "planned", "mining", "saving", "done", "down"}
  /\ BufferOK(buffer) /\ lastRun \in 0..now \union {None}
  /\ disk = None \/ (BufferOK(disk.buffer) /\ disk.lastRun \in 0..now \union {None})
  /\ \A k \in DOMAIN table : k[2] \in Algorithms /\ table[k] \in Nat \ {0}
  /\ hash \in Hashes /\ absorbed \subseteq Records /\ complete \in BOOLEAN
  /\ batches \in 0..MaxBatches /\ crashes \in 0..MaxCrashes

\* No published support exceeds the number of baskets that really held the
\* itemset in its window: a batch replayed after a crash, on top of the restored
\* buffer, counts its baskets once.
RowsNeverOver ==
  LET truth == Basketed(absorbed) IN
  \A k \in DOMAIN table :
    table[k] <= Cardinality({b \in Holding(truth, k[3]) : b[2] > k[1]})

\* While neither a crash nor the cap has cost a basket, a mining publishes
\* exactly the frequent itemsets of the records of the window, whatever batches
\* they came in.
PublishedExact ==
  [][table' # table /\ complete =>
       LET truth == InWindow(Basketed(absorbed), clock)
           rows  == BruteForce(truth, Threshold(truth))
       IN \A a \in Algorithms :
            /\ {k[3] : k \in {j \in DOMAIN table' : j[1] = clock - Window /\ j[2] = a}}
                 = DOMAIN rows
            /\ \A s \in DOMAIN rows : table'[<<clock - Window, a, s>>] = rows[s]]_vars

\* A-Priori and PCY report the same itemsets with the same counts, at any time
\* and for any hash, the rows of earlier minings included.
AlgorithmsAgree ==
  \A k \in DOMAIN table : \A a \in Algorithms :
    /\ <<k[1], a, k[3]>> \in DOMAIN table
    /\ table[<<k[1], a, k[3]>>] = table[k]

\* A published row is never rewritten: no two minings, of one life or of two,
\* have the same window start.
RowsImmutable ==
  [][\A k \in DOMAIN table : k \in DOMAIN table' /\ table'[k] = table[k]]_vars
=============================================================================

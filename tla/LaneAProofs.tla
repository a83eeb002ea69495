---------------------------- MODULE LaneAProofs ----------------------------
(* The windowed queries implement the exactly-once view: for every log, any *)
(* set of queries, every watermark and limit, and through upserts that fail *)
(* and batches that run again.                                              *)
EXTENDS LaneA, FiniteSetTheorems, WellFoundedInduction, TLAPS

States == {"idle", "planned", "written", "failed"}

Types ==
  /\ log \in [1..Records -> [time : 0..MaxTime, flow : Flows]]
  /\ pc \in [Queries -> States]
  /\ planned \in [Queries -> 1..Records \union {None}]
  /\ committed \in [Queries -> 0..Records]
  /\ watermark \in [Queries -> Int]
  /\ agg = [q \in Queries |-> agg[q]]
  /\ table = [q \in Queries |-> table[q]]
  /\ counted \in [Queries -> SUBSET (1..Records)]

\* The counted records that are committed.
Done(q) == counted[q] \intersect 1..committed[q]

\* A batch in hand follows what is committed.
BatchAhead(q) ==
  /\ pc[q] = "idle" <=> planned[q] = None
  /\ planned[q] # None => committed[q] < planned[q]

\* Only committed records and those of the batch in hand are counted.
CountedSoFar(q) ==
  /\ Done(q) \subseteq Read(q, 0, committed[q])
  /\ counted[q] \subseteq Done(q) \union (IF planned[q] = None THEN {} ELSE Batch(q))
  /\ pc[q] = "written" => Batch(q) \subseteq counted[q]

\* A window the watermark has not passed.
LiveKey(k, w) == k[1] \in Int /\ k[1] + WindowLen > w

\* The state store holds the counts of the committed records, as far as a batch to
\* come may need them.
StateExact(q) ==
  \A k : LiveKey(k, watermark[q]) => AtZero(agg[q], k) = Count(q, Done(q), k)

RowsBehind(q) ==
  \A k \in DOMAIN table[q] :
    table[q][k] \in Nat /\ table[q][k] <= Count(q, counted[q], k)

QueryInv(q) == BatchAhead(q) /\ CountedSoFar(q) /\ StateExact(q) /\ RowsBehind(q)

IInv == Types /\ \A q \in Queries : QueryInv(q)

-----------------------------------------------------------------------------
(* Counting.                                                               *)

LEMMA CountFinite ==
  ASSUME NEW q, NEW S \in SUBSET (1..Records), NEW k
  PROVE  /\ IsFiniteSet({i \in S : k \in KeysOf(q, i)})
         /\ Count(q, S, k) \in Nat
<1>1. IsFiniteSet(1..Records) BY FS_Interval, LaneAAssumption
<1>2. {i \in S : k \in KeysOf(q, i)} \in SUBSET (1..Records) OBVIOUS
<1>3. IsFiniteSet({i \in S : k \in KeysOf(q, i)}) BY <1>1, <1>2, FS_Subset
<1>. QED BY <1>3, FS_CardinalityType DEF Count

LEMMA CountMonotone ==
  ASSUME NEW q, NEW S \in SUBSET (1..Records), NEW T \in SUBSET S, NEW k
  PROVE  Count(q, T, k) <= Count(q, S, k)
<1>1. {i \in T : k \in KeysOf(q, i)} \in SUBSET {i \in S : k \in KeysOf(q, i)} OBVIOUS
<1>. QED BY <1>1, CountFinite, FS_Subset DEF Count

LEMMA CountStrict ==
  ASSUME NEW q, NEW S \in SUBSET (1..Records), NEW T \in SUBSET S, NEW k,
         NEW i \in S \ T, k \in KeysOf(q, i)
  PROVE  Count(q, T, k) < Count(q, S, k)
<1>. DEFINE s == {j \in S : k \in KeysOf(q, j)}
            t == {j \in T : k \in KeysOf(q, j)}
<1>1. IsFiniteSet(s) BY CountFinite
<1>2. t \in SUBSET s /\ t # s OBVIOUS
<1>3. Count(q, T, k) = Cardinality(t) /\ Count(q, S, k) = Cardinality(s) BY DEF Count
<1>4. Count(q, T, k) \in Nat /\ Count(q, S, k) \in Nat BY CountFinite
<1>. HIDE DEF s, t
<1>5. Cardinality(t) <= Cardinality(s) /\ Cardinality(t) # Cardinality(s)
  BY <1>1, <1>2, FS_Subset
<1>. QED BY <1>3, <1>4, <1>5

LEMMA CountDisjoint ==
  ASSUME NEW q, NEW S \in SUBSET (1..Records), NEW T \in SUBSET (1..Records),
         S \intersect T = {}, NEW k
  PROVE  Count(q, S \union T, k) = Count(q, S, k) + Count(q, T, k)
<1>. DEFINE s == {j \in S : k \in KeysOf(q, j)}
            t == {j \in T : k \in KeysOf(q, j)}
<1>1. IsFiniteSet(s) /\ IsFiniteSet(t) BY CountFinite
<1>2. {j \in S \union T : k \in KeysOf(q, j)} = s \union t /\ s \intersect t = {} OBVIOUS
<1>3. /\ Count(q, S, k) = Cardinality(s) /\ Count(q, T, k) = Cardinality(t)
      /\ Count(q, S \union T, k) = Cardinality(s \union t)
  BY <1>2 DEF Count
<1>4. Count(q, S, k) \in Nat /\ Count(q, T, k) \in Nat BY CountFinite
<1>. HIDE DEF s, t
<1>5. Cardinality(s \union t) = Cardinality(s) + Cardinality(t) - 0
  BY <1>1, <1>2, FS_Union, FS_EmptySet
<1>. QED BY <1>3, <1>4, <1>5

LEMMA CountNone ==
  ASSUME NEW q, NEW S, NEW k, \A i \in S : k \notin KeysOf(q, i)
  PROVE  Count(q, S, k) = 0
<1>1. {i \in S : k \in KeysOf(q, i)} = {} OBVIOUS
<1>. QED BY <1>1, FS_EmptySet DEF Count

-----------------------------------------------------------------------------
(* The watermark.                                                          *)

LEMMA MaxOfBounded ==
  ASSUME NEW n \in Nat, NEW S \in SUBSET (0..n), S # {}
  PROVE  Max(S) \in S
<1>. DEFINE T == {n - x : x \in S}
<1>1. T \subseteq Nat /\ T # {} OBVIOUS
<1>2. PICK y \in T : \A z \in T : ~(<<z, y>> \in OpToRel(<, Nat))
  BY <1>1, WFMin, NatLessThanWellFounded
<1>3. \A z \in T : ~(z < y) BY <1>1, <1>2 DEF OpToRel
<1>4. PICK x \in S : y = n - x OBVIOUS
<1>5. \A z \in S : x >= z BY <1>3, <1>4
<1>6. \E m \in S : \A z \in S : m >= z BY <1>5
<1>. QED BY <1>6 DEF Max

LEMMA MaxOfTwo ==
  ASSUME NEW a \in Int, NEW b \in Int
  PROVE  Max({a, b}) \in Int /\ Max({a, b}) >= a
<1>1. \E m \in {a, b} : \A z \in {a, b} : m >= z OBVIOUS
<1>. QED BY <1>1 DEF Max

LEMMA ReadRange ==
  ASSUME NEW q, NEW from \in Nat, NEW to \in Nat, to <= Records
  PROVE  Read(q, from, to) \in SUBSET (1..Records)
BY LaneAAssumption DEF Read

LEMMA WatermarkGrows ==
  ASSUME Types, NEW q \in Queries, planned[q] # None
  PROVE  NewWatermark(q) \in Int /\ NewWatermark(q) >= watermark[q]
<1>. DEFINE times == {log[i].time : i \in Read(q, committed[q], planned[q])}
<1>1. /\ planned[q] \in 1..Records /\ committed[q] \in 0..Records /\ watermark[q] \in Int
      /\ Records \in Nat /\ MaxTime \in Nat /\ Watermark \in Nat
  BY LaneAAssumption DEF Types
<1>2. Read(q, committed[q], planned[q]) \in SUBSET (1..Records) BY <1>1, ReadRange
<1>3. times \in SUBSET (0..MaxTime) BY <1>2 DEF Types
<1>4. NewWatermark(q) = IF times = {} THEN watermark[q]
                        ELSE Max({watermark[q], WatermarkAfter(times)})
  BY DEF NewWatermark
<1>. HIDE DEF times
<1>5. CASE times = {} BY <1>1, <1>4, <1>5
<1>6. CASE times # {}
  <2>1. Max(times) \in Int
    <3>1. MaxTime \in Nat BY <1>1
    <3>2. Max(times) \in times BY <3>1, <1>3, <1>6, MaxOfBounded
    <3>3. times \subseteq Int BY <1>3
    <3>. QED BY <3>2, <3>3
  <2>2. WatermarkAfter(times) \in Int BY <1>1, <2>1 DEF WatermarkAfter
  <2>. QED BY <1>1, <1>4, <1>6, <2>2, MaxOfTwo
<1>. QED BY <1>5, <1>6

-----------------------------------------------------------------------------
(* The batch in hand.                                                      *)

LEMMA StartIsInt ==
  ASSUME Types, NEW i \in 1..Records
  PROVE  WindowStart(log[i].time) \in Int
<1>1. log[i].time \in Nat /\ WindowLen \in Nat \ {0} BY LaneAAssumption DEF Types
<1>2. log[i].time \div WindowLen \in Int BY <1>1
<1>. HIDE <1>1
<1>. QED BY <1>1, <1>2 DEF WindowStart

LEMMA BatchFacts ==
  ASSUME Types, NEW q \in Queries, planned[q] # None
  PROVE  /\ Batch(q) \in SUBSET (1..Records)
         /\ Batch(q) \subseteq Read(q, committed[q], planned[q])
         /\ \A i \in Batch(q) : i > committed[q] /\ i <= planned[q]
<1>1. planned[q] \in 1..Records /\ committed[q] \in 0..Records /\ Records \in Nat
  BY LaneAAssumption DEF Types
<1>2. Batch(q) \subseteq Read(q, committed[q], planned[q]) BY DEF Batch
<1>3. Read(q, committed[q], planned[q]) \in SUBSET (1..Records) BY <1>1, ReadRange
<1>4. \A i \in Read(q, committed[q], planned[q]) : i \in committed[q] + 1 .. planned[q]
  BY DEF Read
<1>. QED BY <1>1, <1>2, <1>3, <1>4

\* A row that a batch changes belongs to a window that is not closed, and all rows that
\* a record of the batch counts in are changed.
LEMMA ChangedFacts ==
  ASSUME Types, NEW q \in Queries, planned[q] # None
  PROVE  /\ \A i \in Batch(q) : KeysOf(q, i) \subseteq Changed(q)
         /\ \A k \in Changed(q) : LiveKey(k, watermark[q])
<1>1. Batch(q) \in SUBSET (1..Records) BY BatchFacts
<1>2. \A i \in Batch(q) : WindowStart(log[i].time) \in Int BY <1>1, StartIsInt
<1>3. \A i \in Batch(q) : WindowStart(log[i].time) + WindowLen > watermark[q]
  BY DEF Batch, OnTime, WindowEnd
<1>4. CASE q = "filter_counts"
  <2>1. Changed(q) = {WindowStart(log[i].time) : i \in Batch(q)} \X Filters
    BY <1>4 DEF Changed
  <2>2. \A i \in 1..Records : GroupsOf(q, log[i].flow) \subseteq Filters
    BY <1>4 DEF GroupsOf, WholeWindow
  <2>3. \A i \in Batch(q) : KeysOf(q, i) \subseteq Changed(q)
    BY <1>1, <2>1, <2>2 DEF KeysOf
  <2>4. \A k \in Changed(q) : \E i \in Batch(q) : k[1] = WindowStart(log[i].time)
    BY <2>1
  <2>. QED BY <1>2, <1>3, <2>3, <2>4 DEF LiveKey
<1>5. CASE q # "filter_counts"
  <2>1. Changed(q) = UNION {KeysOf(q, i) : i \in Batch(q)} BY <1>5 DEF Changed
  <2>2. \A k \in Changed(q) : \E i \in Batch(q) : k \in KeysOf(q, i) BY <2>1
  <2>3. \A k \in Changed(q) : \E i \in Batch(q) : k[1] = WindowStart(log[i].time)
    BY <2>2 DEF KeysOf
  <2>. QED BY <1>2, <1>3, <2>1, <2>3 DEF LiveKey
<1>. QED BY <1>4, <1>5

-----------------------------------------------------------------------------
(* The invariant.                                                          *)

LEMMA SameLog ==
  ASSUME log' = log
  PROVE  /\ \A q, i : KeysOf(q, i)' = KeysOf(q, i)
         /\ \A q, S, k : Count(q, S, k)' = Count(q, S, k)
         /\ \A q, from, to : Read(q, from, to)' = Read(q, from, to)
BY DEF KeysOf, Count, Read

LEMMA SameBatch ==
  ASSUME NEW q, log' = log, planned'[q] = planned[q], committed'[q] = committed[q],
         watermark'[q] = watermark[q]
  PROVE  Batch(q)' = Batch(q)
<1>1. Read(q, committed[q], planned[q])' = Read(q, committed[q], planned[q]) BY DEF Read
<1>2. \A i : OnTime(i, watermark[q])' = OnTime(i, watermark[q]) BY DEF OnTime
<1>. QED BY <1>1, <1>2 DEF Batch

\* A query that does not move keeps its invariant.
LEMMA Untouched ==
  ASSUME NEW q, QueryInv(q), log' = log,
         pc'[q] = pc[q], planned'[q] = planned[q], committed'[q] = committed[q],
         watermark'[q] = watermark[q], agg'[q] = agg[q], table'[q] = table[q],
         counted'[q] = counted[q]
  PROVE  QueryInv(q)'
<1>. USE DEF QueryInv
<1>1. Batch(q)' = Batch(q) BY SameBatch
<1>2. Done(q)' = Done(q) BY DEF Done
<1>3. BatchAhead(q)' BY DEF BatchAhead
<1>4. CountedSoFar(q)' BY <1>1, <1>2, SameLog DEF CountedSoFar
<1>5. StateExact(q)' BY <1>2, SameLog DEF StateExact, LiveKey
<1>6. RowsBehind(q)' BY SameLog DEF RowsBehind
<1>. QED BY <1>3, <1>4, <1>5, <1>6

LEMMA InitIInv == Init => IInv
<1>. SUFFICES ASSUME Init PROVE IInv
  OBVIOUS
<1>. USE DEF Init
<1>1. Types BY LaneAAssumption DEF Types, States
<1>2. ASSUME NEW q \in Queries PROVE QueryInv(q)
  <2>1. BatchAhead(q) BY DEF BatchAhead
  <2>2. Done(q) = {} BY DEF Done
  <2>3. CountedSoFar(q) BY <2>2 DEF CountedSoFar
  <2>4. \A k : Count(q, {}, k) = 0 BY CountNone
  <2>5. DOMAIN agg[q] = {} /\ DOMAIN table[q] = {} OBVIOUS
  <2>6. StateExact(q) BY <2>2, <2>4, <2>5 DEF StateExact, AtZero
  <2>7. RowsBehind(q) BY <2>5 DEF RowsBehind
  <2>. QED BY <2>1, <2>3, <2>6, <2>7 DEF QueryInv
<1>. QED BY <1>1, <1>2 DEF IInv

LEMMA PlanKeeps ==
  ASSUME IInv, NEW q \in Queries, Plan(q)
  PROVE  IInv'
<1>. USE DEF IInv
<1>1. PICK end \in committed[q] + 1 .. Records : planned' = [planned EXCEPT ![q] = end]
  BY DEF Plan
<1>2. /\ pc[q] = "idle" /\ pc' = [pc EXCEPT ![q] = "planned"]
      /\ UNCHANGED <<log, committed, watermark, agg, table, counted>>
  BY DEF Plan
<1>3. committed[q] \in 0..Records /\ Records \in Nat /\ None \notin Nat
  BY LaneAAssumption DEF Types
<1>4. Types' BY <1>1, <1>2, <1>3 DEF Types, States
<1>5. QueryInv(q)'
  <2>. USE DEF QueryInv
  <2>1. Done(q)' = Done(q) BY <1>2 DEF Done
  <2>2. planned'[q] = end /\ pc'[q] = "planned" BY <1>1, <1>2 DEF Types
  <2>3. BatchAhead(q)' BY <1>2, <1>3, <2>2 DEF BatchAhead
  <2>4. counted[q] \subseteq Done(q) BY <1>2 DEF CountedSoFar, BatchAhead
  <2>5. CountedSoFar(q)' BY <1>2, <2>1, <2>2, <2>4, SameLog DEF CountedSoFar
  <2>6. StateExact(q)' BY <1>2, <2>1, SameLog DEF StateExact, LiveKey
  <2>7. RowsBehind(q)' BY <1>2, SameLog DEF RowsBehind
  <2>. QED BY <2>3, <2>5, <2>6, <2>7
<1>6. ASSUME NEW p \in Queries, p # q PROVE QueryInv(p)'
  BY <1>1, <1>2, <1>6, Untouched DEF Types
<1>. QED BY <1>4, <1>5, <1>6

\* A row that is written carries the count of what is then in the table.
LEMMA RowsAreCounts ==
  ASSUME Types, NEW q \in Queries, QueryInv(q), planned[q] # None
  PROVE  /\ counted[q] \union Batch(q) = Done(q) \union Batch(q)
         /\ Done(q) \intersect Batch(q) = {}
         /\ Done(q) \in SUBSET (1..Records) /\ Batch(q) \in SUBSET (1..Records)
         /\ \A k \in Changed(q) :
              BatchRows(q)[k] = Count(q, counted[q] \union Batch(q), k)
<1>1. Batch(q) \in SUBSET (1..Records) /\ \A i \in Batch(q) : i > committed[q]
  BY BatchFacts
<1>2. Done(q) \in SUBSET (1..Records) /\ committed[q] \in Nat BY DEF Done, Types
<1>3. Done(q) \intersect Batch(q) = {} BY <1>1, <1>2 DEF Done
<1>4. counted[q] \union Batch(q) = Done(q) \union Batch(q)
  BY DEF QueryInv, CountedSoFar, Done
<1>5. ASSUME NEW k \in Changed(q)
      PROVE  BatchRows(q)[k] = Count(q, counted[q] \union Batch(q), k)
  <2>1. LiveKey(k, watermark[q]) BY ChangedFacts
  <2>2. AtZero(agg[q], k) = Count(q, Done(q), k) BY <2>1 DEF QueryInv, StateExact
  <2>3. BatchRows(q)[k] = AtZero(agg[q], k) + Count(q, Batch(q), k) BY DEF BatchRows
  <2>4. Count(q, Done(q) \union Batch(q), k) = Count(q, Done(q), k) + Count(q, Batch(q), k)
    BY <1>1, <1>2, <1>3, CountDisjoint
  <2>. QED BY <1>4, <2>2, <2>3, <2>4
<1>. QED BY <1>1, <1>2, <1>3, <1>4, <1>5

LEMMA TopRowsAreRows ==
  ASSUME NEW q, NEW rows, NEW S \in TopRows(q, rows)
  PROVE  /\ S \subseteq DOMAIN rows
         /\ q \notin Limited => S = DOMAIN rows
<1>1. CASE q \notin Limited
  <2>1. TopRows(q, rows) = {DOMAIN rows} BY <1>1 DEF TopRows
  <2>. QED BY <2>1
<1>2. CASE q \in Limited
  <2>1. TopRows(q, rows) \subseteq SUBSET DOMAIN rows BY <1>2 DEF TopRows
  <2>. QED BY <1>2, <2>1
<1>. QED BY <1>1, <1>2

\* The table after Write.
LEMMA Written ==
  ASSUME IInv, NEW q \in Queries, Write(q)
  PROVE  /\ planned[q] # None /\ pc[q] = "planned"
         /\ counted' = [counted EXCEPT ![q] = @ \union Batch(q)]
         /\ table' = [table EXCEPT ![q] = table'[q]]
         /\ table'[q] = [k \in DOMAIN table'[q] |-> table'[q][k]]
         /\ \E S \in SUBSET Changed(q) :
              /\ S \in TopRows(q, BatchRows(q))
              /\ q \notin Limited => S = Changed(q)
              /\ DOMAIN table'[q] = DOMAIN table[q] \union S
              /\ \A k \in S : table'[q][k] = Count(q, counted'[q], k)
              /\ \A k \in DOMAIN table[q] \ S : table'[q][k] = table[q][k]
<1>. USE DEF IInv
<1>1. /\ pc[q] = "planned"
      /\ counted' = [counted EXCEPT ![q] = @ \union Batch(q)]
  BY DEF Write
<1>2. planned[q] # None BY <1>1 DEF QueryInv, BatchAhead
<1>3. PICK S \in TopRows(q, BatchRows(q)) :
        table' = [table EXCEPT ![q] = Upserted(@, Restrict(BatchRows(q), S))]
  BY DEF Write
<1>4. DOMAIN BatchRows(q) = Changed(q) BY DEF BatchRows
<1>5. S \in SUBSET Changed(q) /\ (q \notin Limited => S = Changed(q))
  BY <1>4, TopRowsAreRows
<1>6. table = [p \in Queries |-> table[p]] BY DEF Types
<1>7. table'[q] = Upserted(table[q], Restrict(BatchRows(q), S)) BY <1>3, <1>6
<1>8. table' = [table EXCEPT ![q] = table'[q]] BY <1>3, <1>7
<1>12. table'[q] = [k \in DOMAIN table'[q] |-> table'[q][k]] BY <1>7 DEF Upserted
<1>9. /\ DOMAIN table'[q] = DOMAIN table[q] \union S
      /\ \A k \in S : table'[q][k] = BatchRows(q)[k]
      /\ \A k \in DOMAIN table[q] \ S : table'[q][k] = table[q][k]
  BY <1>7 DEF Upserted, Restrict
<1>10. counted'[q] = counted[q] \union Batch(q) BY <1>1 DEF Types
<1>11. \A k \in S : BatchRows(q)[k] = Count(q, counted'[q], k)
  BY <1>2, <1>5, <1>10, RowsAreCounts
<1>. QED BY <1>1, <1>2, <1>5, <1>8, <1>9, <1>11, <1>12

LEMMA WriteKeeps ==
  ASSUME IInv, NEW q \in Queries, Write(q)
  PROVE  IInv'
<1>. USE DEF IInv
<1>1. /\ pc' = [pc EXCEPT ![q] = "written"]
      /\ UNCHANGED <<log, planned, committed, watermark, agg>>
  BY DEF Write
<1>2. planned[q] # None /\ counted' = [counted EXCEPT ![q] = @ \union Batch(q)]
      /\ table' = [table EXCEPT ![q] = table'[q]]
  BY Written
<1>3. /\ counted[q] \union Batch(q) = Done(q) \union Batch(q)
      /\ Done(q) \intersect Batch(q) = {}
      /\ Done(q) \in SUBSET (1..Records) /\ Batch(q) \in SUBSET (1..Records)
  BY <1>2, RowsAreCounts
<1>4. Types'
  <2>1. table = [p \in Queries |-> table[p]] BY DEF Types
  <2>2. table' = [p \in Queries |-> table'[p]] BY <1>2, <2>1
  <2>. QED BY <1>1, <1>2, <1>3, <2>2 DEF Types, States
<1>5. counted'[q] = counted[q] \union Batch(q) BY <1>2 DEF Types
<1>6. QueryInv(q)'
  <2>. USE DEF QueryInv
  <2>1. pc'[q] = "written" BY <1>1 DEF Types
  <2>2. BatchAhead(q)' BY <1>1, <1>2, <2>1 DEF BatchAhead
  <2>3. Batch(q)' = Batch(q) BY <1>1, SameBatch
  <2>4. Done(q)' = Done(q)
    <3>1. \A i \in Batch(q) : i \notin 1..committed[q]
      <4>1. \A i \in Batch(q) : i > committed[q] BY <1>2, BatchFacts
      <4>2. committed[q] \in Nat BY DEF Types
      <4>. QED BY <1>3, <4>1, <4>2
    <3>. QED BY <1>1, <1>5, <3>1 DEF Done
  <2>5. CountedSoFar(q)' BY <1>1, <1>2, <1>3, <1>5, <2>3, <2>4, SameLog DEF CountedSoFar
  <2>6. StateExact(q)' BY <1>1, <2>4, SameLog DEF StateExact, LiveKey
  <2>7. RowsBehind(q)'
    <3>1. PICK S \in SUBSET Changed(q) :
              /\ DOMAIN table'[q] = DOMAIN table[q] \union S
              /\ \A k \in S : table'[q][k] = Count(q, counted'[q], k)
              /\ \A k \in DOMAIN table[q] \ S : table'[q][k] = table[q][k]
      BY Written
    <3>2. counted'[q] \in SUBSET (1..Records) /\ counted[q] \in SUBSET counted'[q]
      BY <1>3, <1>5
    <3>3. \A k : Count(q, counted'[q], k) \in Nat BY <3>2, CountFinite
    <3>4. \A k : /\ Count(q, counted[q], k) \in Nat
                 /\ Count(q, counted[q], k) <= Count(q, counted'[q], k)
      BY <3>2, CountFinite, CountMonotone
    <3>5. \A k \in DOMAIN table[q] :
            table[q][k] \in Nat /\ table[q][k] <= Count(q, counted[q], k)
      BY DEF RowsBehind
    <3>6. \A k \in DOMAIN table'[q] :
            table'[q][k] \in Nat /\ table'[q][k] <= Count(q, counted'[q], k)
      <4>1. SUFFICES ASSUME NEW k \in DOMAIN table'[q]
                     PROVE  table'[q][k] \in Nat /\ table'[q][k] <= Count(q, counted'[q], k)
        OBVIOUS
      <4>2. CASE k \in S BY <3>1, <3>3, <4>2
      <4>3. CASE k \notin S
        <5>1. k \in DOMAIN table[q] /\ table'[q][k] = table[q][k] BY <3>1, <4>1, <4>3
        <5>. QED BY <3>3, <3>4, <3>5, <5>1
      <4>. QED BY <4>2, <4>3
    <3>. QED BY <1>1, <3>6, SameLog DEF RowsBehind
  <2>. QED BY <2>2, <2>5, <2>6, <2>7
<1>7. ASSUME NEW p \in Queries, p # q PROVE QueryInv(p)'
  <2>1. table'[p] = table[p] BY <1>2, <1>7 DEF Types
  <2>2. pc'[p] = pc[p] /\ counted'[p] = counted[p] BY <1>1, <1>2, <1>7 DEF Types
  <2>. QED BY <1>1, <2>1, <2>2, Untouched
<1>. QED BY <1>4, <1>6, <1>7

LEMMA CommitKeeps ==
  ASSUME IInv, NEW q \in Queries, Commit(q)
  PROVE  IInv'
<1>. USE DEF IInv
<1>1. /\ pc[q] = "written"
      /\ committed' = [committed EXCEPT ![q] = planned[q]]
      /\ agg' = [agg EXCEPT ![q] = NewAgg(q)]
      /\ watermark' = [watermark EXCEPT ![q] = NewWatermark(q)]
      /\ planned' = [planned EXCEPT ![q] = None]
      /\ pc' = [pc EXCEPT ![q] = "idle"]
      /\ UNCHANGED <<log, table, counted>>
  BY DEF Commit
<1>2. planned[q] # None /\ committed[q] < planned[q]
  BY <1>1 DEF QueryInv, BatchAhead
<1>3. /\ planned[q] \in 1..Records /\ committed[q] \in 0..Records /\ watermark[q] \in Int
      /\ Records \in Nat
  BY <1>2, LaneAAssumption DEF Types
<1>4. NewWatermark(q) \in Int /\ NewWatermark(q) >= watermark[q] BY <1>2, WatermarkGrows
<1>5. /\ committed'[q] = planned[q] /\ planned'[q] = None /\ pc'[q] = "idle"
      /\ agg'[q] = NewAgg(q) /\ watermark'[q] = NewWatermark(q)
  BY <1>1 DEF Types
<1>6. Types'
  <2>1. agg' = [p \in Queries |-> agg'[p]] BY <1>1 DEF Types
  <2>2. pc' \in [Queries -> States] BY <1>1 DEF Types, States
  <2>3. committed' \in [Queries -> 0..Records] BY <1>1, <1>3 DEF Types
  <2>4. watermark' \in [Queries -> Int] BY <1>1, <1>4 DEF Types
  <2>5. planned' \in [Queries -> 1..Records \union {None}] BY <1>1 DEF Types
  <2>. QED BY <1>1, <2>1, <2>2, <2>3, <2>4, <2>5 DEF Types
<1>7. /\ counted[q] \union Batch(q) = Done(q) \union Batch(q)
      /\ Done(q) \intersect Batch(q) = {}
      /\ Done(q) \in SUBSET (1..Records) /\ Batch(q) \in SUBSET (1..Records)
      /\ \A k \in Changed(q) :
           BatchRows(q)[k] = Count(q, counted[q] \union Batch(q), k)
  BY <1>2, RowsAreCounts
<1>8. counted[q] = Done(q) \union Batch(q)
  BY <1>1, <1>7 DEF QueryInv, CountedSoFar
<1>9. /\ Batch(q) \subseteq Read(q, committed[q], planned[q])
      /\ \A i \in Batch(q) : i > committed[q] /\ i <= planned[q]
  BY <1>2, BatchFacts
<1>10. Done(q)' = counted[q]
  <2>1. \A i \in counted[q] : i \in 1..planned[q]
    <3>1. \A i \in Done(q) : i \in 1..committed[q] BY DEF Done
    <3>. QED BY <1>2, <1>3, <1>7, <1>8, <1>9, <3>1
  <2>. QED BY <1>1, <1>5, <2>1 DEF Done
<1>11. QueryInv(q)'
  <2>. USE DEF QueryInv
  <2>1. BatchAhead(q)' BY <1>5 DEF BatchAhead
  <2>2. counted[q] \subseteq Read(q, 0, planned[q])
    <3>1. Read(q, 0, committed[q]) \subseteq Read(q, 0, planned[q])
      BY <1>2, <1>3 DEF Read
    <3>2. Read(q, committed[q], planned[q]) \subseteq Read(q, 0, planned[q])
      BY <1>2, <1>3 DEF Read
    <3>. QED BY <1>8, <1>9, <3>1, <3>2 DEF CountedSoFar
  <2>3. Read(q, 0, committed[q])' = Read(q, 0, planned[q]) BY <1>1, <1>5 DEF Read
  <2>4. CountedSoFar(q)' BY <1>1, <1>5, <1>10, <2>2, <2>3 DEF CountedSoFar
  <2>5. StateExact(q)'
    <3>1. SUFFICES ASSUME NEW k, LiveKey(k, NewWatermark(q))
                   PROVE  AtZero(NewAgg(q), k) = Count(q, counted[q], k)
      BY <1>1, <1>5, <1>10, SameLog DEF StateExact, LiveKey, AtZero
    <3>2. LiveKey(k, watermark[q])
      <4>1. WindowLen \in Nat BY LaneAAssumption
      <4>. QED BY <1>3, <1>4, <3>1, <4>1 DEF LiveKey
    <3>3. AtZero(agg[q], k) = Count(q, Done(q), k) BY <3>2 DEF StateExact
    <3>4. Count(q, counted[q], k) = Count(q, Done(q), k) + Count(q, Batch(q), k)
      BY <1>7, <1>8, CountDisjoint
    <3>5. CASE k \in DOMAIN agg[q] \union Changed(q)
      <4>1. AtZero(NewAgg(q), k) = AtZero(agg[q], k) + Count(q, Batch(q), k)
        BY <3>2, <3>5 DEF NewAgg, AtZero, LiveKey
      <4>. QED BY <3>3, <3>4, <4>1
    <3>6. CASE k \notin DOMAIN agg[q] \union Changed(q)
      <4>1. AtZero(NewAgg(q), k) = 0 BY <3>6 DEF NewAgg, AtZero
      <4>2. AtZero(agg[q], k) = 0 BY <3>6 DEF AtZero
      <4>3. \A i \in Batch(q) : k \notin KeysOf(q, i) BY <1>2, <3>6, ChangedFacts
      <4>4. Count(q, Batch(q), k) = 0 BY <4>3, CountNone
      <4>. QED BY <3>3, <3>4, <4>1, <4>2, <4>4
    <3>. QED BY <3>5, <3>6
  <2>6. RowsBehind(q)' BY <1>1, SameLog DEF RowsBehind
  <2>. QED BY <2>1, <2>4, <2>5, <2>6
<1>12. ASSUME NEW p \in Queries, p # q PROVE QueryInv(p)'
  BY <1>1, <1>12, Untouched DEF Types
<1>. QED BY <1>6, <1>11, <1>12

\* A failed upsert and a restart only move the place a query is at.
LEMMA OnlyPcMoves ==
  ASSUME IInv, pc' \in [Queries -> States],
         UNCHANGED <<log, planned, committed, watermark, agg, table, counted>>,
         \A q \in Queries : /\ pc'[q] = "idle" <=> pc[q] = "idle"
                            /\ pc'[q] = "written" => pc[q] = "written"
  PROVE  IInv'
<1>. USE DEF IInv
<1>1. Types' BY DEF Types
<1>2. ASSUME NEW q \in Queries PROVE QueryInv(q)'
  <2>. USE DEF QueryInv
  <2>1. Batch(q)' = Batch(q) BY SameBatch
  <2>2. Done(q)' = Done(q) BY DEF Done
  <2>3. BatchAhead(q)' BY DEF BatchAhead
  <2>4. CountedSoFar(q)' BY <2>1, <2>2, SameLog DEF CountedSoFar
  <2>5. StateExact(q)' BY <2>2, SameLog DEF StateExact, LiveKey
  <2>6. RowsBehind(q)' BY SameLog DEF RowsBehind
  <2>. QED BY <2>3, <2>4, <2>5, <2>6
<1>. QED BY <1>1, <1>2

LEMMA NextIInv == IInv /\ [Next]_vars => IInv'
<1>. SUFFICES ASSUME IInv, [Next]_vars PROVE IInv'
  OBVIOUS
<1>1. ASSUME NEW q \in Queries, Plan(q) \/ Write(q) \/ WriteFails(q) \/ Commit(q)
      PROVE  IInv'
  <2>1. CASE WriteFails(q)
    <3>1. /\ pc[q] = "planned" /\ pc' = [pc EXCEPT ![q] = "failed"]
          /\ UNCHANGED <<log, planned, committed, watermark, agg, table, counted>>
      BY <2>1 DEF WriteFails
    <3>. QED BY <3>1, OnlyPcMoves DEF IInv, Types, States
  <2>. QED BY <1>1, <2>1, PlanKeeps, WriteKeeps, CommitKeeps
<1>2. CASE Restart
  <2>1. /\ pc' = [q \in Queries |-> IF planned[q] = None THEN "idle" ELSE "planned"]
        /\ UNCHANGED <<log, planned, committed, watermark, agg, table, counted>>
    BY <1>2 DEF Restart
  <2>2. \A q \in Queries : pc[q] = "idle" <=> planned[q] = None
    BY DEF IInv, QueryInv, BatchAhead
  <2>3. pc' \in [Queries -> States] BY <2>1 DEF States
  <2>. QED BY <2>1, <2>2, <2>3, OnlyPcMoves
<1>3. CASE UNCHANGED vars
  BY <1>3, OnlyPcMoves DEF vars, IInv, Types
<1>. QED BY <1>1, <1>2, <1>3 DEF Next

LEMMA Invariance == Spec => []IInv
BY InitIInv, NextIInv, PTL DEF Spec

-----------------------------------------------------------------------------
(* The theorems.                                                           *)

LEMMA TallyIsCount ==
  ASSUME NEW q \in Queries, NEW S \in SUBSET (1..Records), NEW k
  PROVE  View!Tally(q, S, k) = Count(q, S, k)
<1>1. {i \in S : k \in [p \in Queries |-> [j \in 1..Records |-> KeysOf(p, j)]][q][i]}
        = {i \in S : k \in KeysOf(q, i)}
  OBVIOUS
<1>2. View!Cardinality({i \in S : k \in KeysOf(q, i)})
        = Cardinality({i \in S : k \in KeysOf(q, i)})
  BY DEF View!Cardinality, Cardinality
<1>. QED BY <1>1, <1>2 DEF View!Tally, Count

LEMMA WriteRefines ==
  ASSUME IInv, NEW q \in Queries, Write(q)
  PROVE  View!Step
<1>. DEFINE new == counted'[q] \ counted[q]
            changed == {k \in DOMAIN table'[q] :
                          k \in DOMAIN table[q] => table'[q][k] # table[q][k]}
<1>. USE DEF IInv
<1>1. /\ planned[q] # None
      /\ counted' = [counted EXCEPT ![q] = @ \union Batch(q)]
      /\ table' = [table EXCEPT ![q] = table'[q]]
      /\ table'[q] = [k \in DOMAIN table'[q] |-> table'[q][k]]
  BY Written
<1>2. PICK S \in SUBSET Changed(q) :
        /\ q \notin Limited => S = Changed(q)
        /\ DOMAIN table'[q] = DOMAIN table[q] \union S
        /\ \A k \in S : table'[q][k] = Count(q, counted'[q], k)
        /\ \A k \in DOMAIN table[q] \ S : table'[q][k] = table[q][k]
  BY Written
<1>3. /\ counted'[q] = counted[q] \union Batch(q)
      /\ counted[q] \in SUBSET (1..Records) /\ counted'[q] \in SUBSET (1..Records)
  BY <1>1, BatchFacts DEF Types
<1>4. changed \subseteq S BY <1>2
<1>5. counted[q] \union new = counted'[q] /\ new \subseteq Batch(q) BY <1>3
<1>6. counted' = [counted EXCEPT ![q] = @ \union new] BY <1>1, <1>3 DEF Types
<1>7. \A k \in changed : table'[q][k] = View!Tally(q, counted[q] \union new, k)
  BY <1>2, <1>3, <1>4, <1>5, TallyIsCount
<1>8. table'[q] = [k \in DOMAIN table[q] \union changed |->
                     IF k \in changed THEN View!Tally(q, counted[q] \union new, k)
                     ELSE table[q][k]]
  <2>1. DOMAIN table'[q] = DOMAIN table[q] \union changed BY <1>2
  <2>2. \A k \in DOMAIN table'[q] \ changed : table'[q][k] = table[q][k] OBVIOUS
  <2>. QED BY <1>1, <1>7, <2>1, <2>2
<1>9. ASSUME q \notin Limited
      PROVE  \A i \in new : KeysOf(q, i) \subseteq changed
  <2>1. SUFFICES ASSUME NEW i \in new, NEW k \in KeysOf(q, i) PROVE k \in changed
    OBVIOUS
  <2>2. k \in S BY <1>1, <1>2, <1>5, <1>9, ChangedFacts
  <2>3. CASE k \in DOMAIN table[q]
    <3>1. table[q][k] \in Nat /\ table[q][k] <= Count(q, counted[q], k)
      BY <2>3 DEF QueryInv, RowsBehind
    <3>2. Count(q, counted[q], k) < Count(q, counted'[q], k)
      <4>1. i \in counted'[q] \ counted[q] /\ counted[q] \in SUBSET counted'[q] BY <1>3
      <4>. QED BY <1>3, <4>1, CountStrict
    <3>3. Count(q, counted[q], k) \in Nat /\ Count(q, counted'[q], k) \in Nat
      BY <1>3, CountFinite
    <3>4. table'[q][k] # table[q][k] BY <1>2, <2>2, <3>1, <3>2, <3>3
    <3>. QED BY <1>2, <2>2, <3>4
  <2>4. CASE k \notin DOMAIN table[q] BY <1>2, <2>2, <2>4
  <2>. QED BY <2>3, <2>4
<1>10. log' = log BY DEF Write
<1>11. UNCHANGED [p \in Queries |-> [i \in 1..Records |-> KeysOf(p, i)]]
  BY <1>10, SameLog
<1>12. table' = [table EXCEPT ![q] =
          [k \in DOMAIN @ \union changed |->
             IF k \in changed THEN View!Tally(q, counted[q] \union new, k) ELSE @[k]]]
  <2>1. table = [p \in Queries |-> table[p]] BY DEF Types
  <2>. HIDE DEF new, changed
  <2>. QED BY <1>1, <1>8, <2>1
<1>13. q \notin Queries \intersect Limited =>
         UNION {[p \in Queries |-> [j \in 1..Records |-> KeysOf(p, j)]][q][i] : i \in new}
           \subseteq changed
  <2>1. \A i \in new : [p \in Queries |-> [j \in 1..Records |-> KeysOf(p, j)]][q][i]
                         = KeysOf(q, i)
    BY <1>3
  <2>. HIDE DEF new, changed
  <2>. QED BY <1>9, <2>1
<1>14. View!Publish(q, new, changed)
  <2>. HIDE DEF new, changed
  <2>. QED BY <1>6, <1>12, <1>13 DEF View!Publish
<1>. QED BY <1>11, <1>14 DEF View!Step

LEMMA StepRefines ==
  ASSUME IInv, [Next]_vars
  PROVE  [View!Step]_(View!vars)
<1>1. CASE \E q \in Queries : Write(q) BY <1>1, WriteRefines
<1>2. CASE ~ \E q \in Queries : Write(q)
  <2>1. UNCHANGED <<log, counted, table>>
    BY <1>2 DEF Next, Plan, WriteFails, Commit, Restart, vars
  <2>2. UNCHANGED [p \in Queries |-> [i \in 1..Records |-> KeysOf(p, i)]]
    BY <2>1, SameLog
  <2>. QED BY <2>1, <2>2 DEF View!vars
<1>. QED BY <1>1, <1>2

\* Every windowed query implements the exactly-once view (the foreachBatch functions of
\* queries/): a batch that is written, not committed and run again after a crash changes
\* nothing, and a record enters all rows of its groups at once.
THEOREM Refinement == Spec => ImplementsView
<1>1. Init => View!Init
  BY DEF Init, View!Init
<1>2. IInv /\ [Next]_vars => [View!Step]_(View!vars)
  BY StepRefines
<1>. QED BY <1>1, <1>2, Invariance, PTL DEF Spec, ImplementsView, View!Spec

\* No row counts a record twice or one that has not been read (the foreachBatch
\* functions of queries/).
THEOREM CountsNeverOver == Spec => []NeverOver
<1>1. IInv => NeverOver
  <2>. SUFFICES ASSUME IInv, NEW q \in Queries, NEW k \in DOMAIN table[q]
                 PROVE  table[q][k] <= Count(q, Read(q, 0, Horizon(q)), k)
    BY DEF NeverOver
  <2>. USE DEF IInv
  <2>2. table[q][k] \in Nat /\ table[q][k] <= Count(q, counted[q], k)
    BY DEF QueryInv, RowsBehind
  <2>3. committed[q] \in 0..Records /\ Records \in Nat BY LaneAAssumption DEF Types
  <2>4. /\ Horizon(q) \in Nat /\ Horizon(q) <= Records
        /\ counted[q] \subseteq Read(q, 0, Horizon(q))
    <3>1. CASE planned[q] = None
      BY <2>3, <3>1 DEF Horizon, QueryInv, CountedSoFar
    <3>2. CASE planned[q] # None
      <4>1. planned[q] \in 1..Records /\ committed[q] < planned[q]
        BY <3>2 DEF Types, QueryInv, BatchAhead
      <4>2. Batch(q) \subseteq Read(q, committed[q], planned[q]) BY <3>2, BatchFacts
      <4>3. /\ Read(q, 0, committed[q]) \subseteq Read(q, 0, planned[q])
            /\ Read(q, committed[q], planned[q]) \subseteq Read(q, 0, planned[q])
        BY <2>3, <4>1 DEF Read
      <4>. QED BY <2>3, <3>2, <4>1, <4>2, <4>3 DEF Horizon, QueryInv, CountedSoFar
    <3>. QED BY <3>1, <3>2
  <2>5. Read(q, 0, Horizon(q)) \in SUBSET (1..Records) BY <2>4, ReadRange
  <2>6. Count(q, counted[q], k) <= Count(q, Read(q, 0, Horizon(q)), k)
    BY <2>4, <2>5, CountMonotone
  <2>7. /\ Count(q, counted[q], k) \in Nat
        /\ Count(q, Read(q, 0, Horizon(q)), k) \in Nat
    BY <2>4, <2>5, CountFinite
  <2>. QED BY <2>2, <2>6, <2>7
<1>. QED BY <1>1, Invariance, PTL

\* A stored count never falls, across batches, failures and restarts.
THEOREM RowsOnlyGrow == Spec => RowsGrow
<1>1. ASSUME IInv, [Next]_vars, NEW q \in Queries, NEW k \in DOMAIN table[q]
      PROVE  k \in DOMAIN table'[q] /\ table'[q][k] >= table[q][k]
  <2>. USE DEF IInv
  <2>1. table[q][k] \in Nat /\ table[q][k] <= Count(q, counted[q], k)
    BY <1>1 DEF QueryInv, RowsBehind
  <2>2. CASE Write(q)
    <3>1. PICK S \in SUBSET Changed(q) :
            /\ DOMAIN table'[q] = DOMAIN table[q] \union S
            /\ \A j \in S : table'[q][j] = Count(q, counted'[q], j)
            /\ \A j \in DOMAIN table[q] \ S : table'[q][j] = table[q][j]
      BY <1>1, <2>2, Written
    <3>2. /\ counted[q] \in SUBSET counted'[q] /\ counted'[q] \in SUBSET (1..Records)
      <4>1. planned[q] # None /\ counted' = [counted EXCEPT ![q] = @ \union Batch(q)]
        BY <1>1, <2>2, Written
      <4>2. Batch(q) \in SUBSET (1..Records) BY <1>1, <4>1, BatchFacts
      <4>. QED BY <1>1, <4>1, <4>2 DEF Types
    <3>3. /\ Count(q, counted[q], k) <= Count(q, counted'[q], k)
          /\ Count(q, counted[q], k) \in Nat /\ Count(q, counted'[q], k) \in Nat
      BY <3>2, CountMonotone, CountFinite
    <3>. QED BY <1>1, <2>1, <3>1, <3>3
  <2>3. CASE ~ Write(q)
    <3>1. table'[q] = table[q]
      <4>1. CASE \E p \in Queries : p # q /\ Write(p)
        <5>1. PICK p \in Queries : p # q /\ Write(p) BY <4>1
        <5>2. table' = [table EXCEPT ![p] = table'[p]] BY <1>1, <5>1, Written
        <5>. QED BY <1>1, <5>1, <5>2 DEF Types
      <4>2. CASE ~ \E p \in Queries : Write(p)
        BY <1>1, <4>2 DEF Next, Plan, WriteFails, Commit, Restart, vars
      <4>. QED BY <2>3, <4>1, <4>2
    <3>. QED BY <1>1, <2>1, <3>1
  <2>. QED BY <2>2, <2>3
<1>2. IInv /\ [Next]_vars =>
        [\A q \in Queries : \A k \in DOMAIN table[q] :
           k \in DOMAIN table'[q] /\ table'[q][k] >= table[q][k]]_vars
  BY <1>1
<1>. QED BY <1>2, Invariance, PTL DEF Spec, RowsGrow

-----------------------------------------------------------------------------
(* Punctual records are counted.                                           *)

\* The watermark is at the start, or a delay behind a record that was read.
WatermarkSeen(q) ==
  watermark[q] = 0 \/ \E j \in Read(q, 0, committed[q]) : watermark[q] = log[j].time - Watermark

PunctualIn(q) == \A i \in Read(q, 0, committed[q]) : Punctual(q, i) => i \in counted[q]

\* A query without a limit has the exact count in every row.
RowsExact(q) == q \notin Limited => \A k : AtZero(table[q], k) = Count(q, counted[q], k)

PunctualInv(q) == WatermarkSeen(q) /\ PunctualIn(q) /\ RowsExact(q)

LEMMA SamePunctual ==
  ASSUME log' = log
  PROVE  \A q, i : Punctual(q, i)' = Punctual(q, i)
BY DEF Punctual, Read, OnTime, WindowEnd, WindowStart

\* What Write and Commit do to the counted records.
LEMMA WriteCounts ==
  ASSUME IInv, NEW q \in Queries, Write(q)
  PROVE  /\ counted'[q] = counted[q] \union Batch(q)
         /\ counted'[q] = Done(q) \union Batch(q)
         /\ Done(q)' = Done(q)
<1>. USE DEF IInv
<1>1. /\ planned[q] # None /\ counted' = [counted EXCEPT ![q] = @ \union Batch(q)]
      /\ committed' = committed
  BY Written DEF Write
<1>2. counted'[q] = counted[q] \union Batch(q) BY <1>1 DEF Types
<1>3. \A i \in Batch(q) : i \notin 1..committed[q]
  <2>1. Batch(q) \in SUBSET (1..Records) /\ \A i \in Batch(q) : i > committed[q]
    BY <1>1, BatchFacts
  <2>2. committed[q] \in Nat BY DEF Types
  <2>. QED BY <2>1, <2>2
<1>4. Done(q)' = Done(q) BY <1>1, <1>2, <1>3 DEF Done
<1>. QED BY <1>1, <1>2, <1>4, RowsAreCounts

LEMMA CommitCounts ==
  ASSUME IInv, NEW q \in Queries, Commit(q)
  PROVE  /\ planned[q] # None /\ committed[q] < planned[q]
         /\ counted[q] = Done(q) \union Batch(q)
         /\ Done(q)' = counted[q] /\ counted' = counted
         /\ committed'[q] = planned[q] /\ planned'[q] = None /\ pc'[q] = "idle"
         /\ agg'[q] = NewAgg(q) /\ watermark'[q] = NewWatermark(q)
         /\ log' = log /\ table' = table
<1>. USE DEF IInv
<1>1. /\ pc[q] = "written"
      /\ committed' = [committed EXCEPT ![q] = planned[q]]
      /\ agg' = [agg EXCEPT ![q] = NewAgg(q)]
      /\ watermark' = [watermark EXCEPT ![q] = NewWatermark(q)]
      /\ planned' = [planned EXCEPT ![q] = None]
      /\ pc' = [pc EXCEPT ![q] = "idle"]
      /\ UNCHANGED <<log, table, counted>>
  BY DEF Commit
<1>2. planned[q] # None /\ committed[q] < planned[q]
  BY <1>1 DEF QueryInv, BatchAhead
<1>3. planned[q] \in 1..Records /\ committed[q] \in 0..Records /\ Records \in Nat
  BY <1>2, LaneAAssumption DEF Types
<1>4. /\ committed'[q] = planned[q] /\ planned'[q] = None /\ pc'[q] = "idle"
      /\ agg'[q] = NewAgg(q) /\ watermark'[q] = NewWatermark(q)
  BY <1>1 DEF Types
<1>5. counted[q] = Done(q) \union Batch(q)
  BY <1>1, <1>2, RowsAreCounts DEF QueryInv, CountedSoFar
<1>6. \A i \in counted[q] : i \in 1..planned[q]
  <2>1. \A i \in Done(q) : i \in 1..committed[q] BY DEF Done
  <2>2. \A i \in Batch(q) : i \in 1..Records /\ i <= planned[q] BY <1>2, BatchFacts
  <2>. QED BY <1>2, <1>3, <1>5, <2>1, <2>2
<1>7. Done(q)' = counted[q] BY <1>1, <1>4, <1>6 DEF Done
<1>. QED BY <1>1, <1>2, <1>4, <1>5, <1>7

LEMMA InitPunctual == Init => \A q \in Queries : PunctualInv(q)
<1>. SUFFICES ASSUME Init, NEW q \in Queries PROVE PunctualInv(q)
  OBVIOUS
<1>. USE DEF Init
<1>1. WatermarkSeen(q) BY DEF WatermarkSeen
<1>2. PunctualIn(q)
  <2>1. Read(q, 0, committed[q]) = {} BY DEF Read
  <2>. QED BY <2>1 DEF PunctualIn
<1>3. RowsExact(q)
  <2>1. \A k : Count(q, {}, k) = 0 BY CountNone
  <2>2. counted[q] = {} /\ DOMAIN table[q] = {} OBVIOUS
  <2>. QED BY <2>1, <2>2 DEF RowsExact, AtZero
<1>. QED BY <1>1, <1>2, <1>3 DEF PunctualInv

LEMMA WritePunctual ==
  ASSUME IInv, NEW q \in Queries, Write(q), PunctualInv(q)
  PROVE  PunctualInv(q)'
<1>. USE DEF IInv, PunctualInv
<1>1. UNCHANGED <<log, committed, watermark>> BY DEF Write
<1>2. counted'[q] = counted[q] \union Batch(q) BY WriteCounts
<1>3. WatermarkSeen(q)' BY <1>1, SameLog DEF WatermarkSeen
<1>4. PunctualIn(q)' BY <1>1, <1>2, SameLog, SamePunctual DEF PunctualIn
<1>5. ASSUME q \notin Limited, NEW k
      PROVE  AtZero(table'[q], k) = Count(q, counted'[q], k)
  <2>1. PICK S \in SUBSET Changed(q) :
          /\ q \notin Limited => S = Changed(q)
          /\ DOMAIN table'[q] = DOMAIN table[q] \union S
          /\ \A j \in S : table'[q][j] = Count(q, counted'[q], j)
          /\ \A j \in DOMAIN table[q] \ S : table'[q][j] = table[q][j]
    BY Written
  <2>2. CASE k \in Changed(q) BY <1>5, <2>1, <2>2 DEF AtZero
  <2>3. CASE k \notin Changed(q)
    <3>1. AtZero(table'[q], k) = AtZero(table[q], k) BY <1>5, <2>1, <2>3 DEF AtZero
    <3>2. planned[q] # None BY Written
    <3>3. \A i \in Batch(q) : k \notin KeysOf(q, i) BY <2>3, <3>2, ChangedFacts
    <3>4. {i \in counted'[q] : k \in KeysOf(q, i)} = {i \in counted[q] : k \in KeysOf(q, i)}
      BY <1>2, <3>3
    <3>5. Count(q, counted'[q], k) = Count(q, counted[q], k) BY <3>4 DEF Count
    <3>. QED BY <1>5, <3>1, <3>5 DEF RowsExact
  <2>. QED BY <2>2, <2>3
<1>6. RowsExact(q)' BY <1>1, <1>5, SameLog DEF RowsExact, AtZero
<1>. QED BY <1>3, <1>4, <1>6

\* The new watermark is the old one or that of a record of the batch.
LEMMA WatermarkFrom ==
  ASSUME Types, NEW q \in Queries, planned[q] # None
  PROVE  \/ NewWatermark(q) = watermark[q]
         \/ \E j \in Read(q, committed[q], planned[q]) :
              NewWatermark(q) = log[j].time - Watermark
<1>. DEFINE read == Read(q, committed[q], planned[q])
            times == {log[i].time : i \in read}
<1>1. /\ planned[q] \in 1..Records /\ committed[q] \in 0..Records /\ watermark[q] \in Int
      /\ Records \in Nat /\ MaxTime \in Nat /\ Watermark \in Nat
  BY LaneAAssumption DEF Types
<1>2. read \in SUBSET (1..Records) BY <1>1, ReadRange
<1>3. times \in SUBSET (0..MaxTime) BY <1>2 DEF Types
<1>4. NewWatermark(q) = IF times = {} THEN watermark[q]
                        ELSE Max({watermark[q], WatermarkAfter(times)})
  BY DEF NewWatermark
<1>5. CASE times = {} BY <1>4, <1>5
<1>6. CASE times # {}
  <2>1. Max(times) \in times BY <1>1, <1>3, <1>6, MaxOfBounded
  <2>2. PICK j \in read : Max(times) = log[j].time BY <2>1
  <2>3. WatermarkAfter(times) = log[j].time - Watermark BY <2>2 DEF WatermarkAfter
  <2>4. log[j].time \in Int BY <1>2 DEF Types
  <2>. HIDE DEF times, read
  <2>5. WatermarkAfter(times) \in Int BY <1>1, <2>3, <2>4
  <2>6. Max({watermark[q], WatermarkAfter(times)}) \in {watermark[q], WatermarkAfter(times)}
    <3>1. \A a, b \in Int : \E m \in {a, b} : \A z \in {a, b} : m >= z OBVIOUS
    <3>. QED BY <1>1, <2>5, <3>1 DEF Max
  <2>. QED BY <1>4, <1>6, <2>2, <2>3, <2>6 DEF read
<1>. QED BY <1>5, <1>6

\* A punctual record of the batch is not late.
LEMMA PunctualOnTime ==
  ASSUME IInv, NEW q \in Queries, planned[q] # None, WatermarkSeen(q),
         NEW i \in Read(q, committed[q], planned[q]), Punctual(q, i)
  PROVE  i \in Batch(q)
<1>. USE DEF IInv
<1>1. /\ planned[q] \in 1..Records /\ committed[q] \in 0..Records /\ Records \in Nat
      /\ WindowLen \in Nat \ {0}
  BY LaneAAssumption DEF Types
<1>2. i \in 1..Records /\ i > committed[q] BY <1>1 DEF Read
<1>3. OnTime(i, watermark[q])
  <2>1. CASE watermark[q] = 0
    <3>1. log[i].time \in Nat BY <1>2 DEF Types
    <3>2. WindowStart(log[i].time) >= 0 /\ WindowStart(log[i].time) \in Int
      <4>1. log[i].time \div WindowLen \in Nat BY <1>1, <3>1
      <4>. DEFINE d == log[i].time \div WindowLen
      <4>2. d \in Nat BY <4>1
      <4>. HIDE DEF d
      <4>3. d * WindowLen \in Nat BY <1>1, <4>2
      <4>. QED BY <4>3 DEF WindowStart, d
    <3>. QED BY <1>1, <2>1, <3>2 DEF OnTime, WindowEnd
  <2>2. CASE watermark[q] # 0
    <3>1. PICK j \in Read(q, 0, committed[q]) : watermark[q] = log[j].time - Watermark
      BY <2>2 DEF WatermarkSeen
    <3>2. j \in Read(q, 0, i) BY <1>1, <1>2, <3>1 DEF Read
    <3>. QED BY <3>1, <3>2 DEF Punctual
  <2>. QED BY <2>1, <2>2
<1>. QED BY <1>3 DEF Batch

LEMMA CommitPunctual ==
  ASSUME IInv, NEW q \in Queries, Commit(q), PunctualInv(q)
  PROVE  PunctualInv(q)'
<1>. USE DEF IInv, PunctualInv
<1>1. /\ planned[q] # None /\ committed[q] < planned[q]
      /\ counted[q] = Done(q) \union Batch(q) /\ counted' = counted
      /\ committed'[q] = planned[q] /\ watermark'[q] = NewWatermark(q)
      /\ log' = log /\ table' = table
  BY CommitCounts
<1>2. planned[q] \in 1..Records /\ committed[q] \in 0..Records /\ Records \in Nat
  BY <1>1, LaneAAssumption DEF Types
<1>3. \A i : i \in Read(q, 0, planned[q]) <=>
               i \in Read(q, 0, committed[q]) \/ i \in Read(q, committed[q], planned[q])
  BY <1>1, <1>2 DEF Read
<1>4. Read(q, 0, committed[q])' = Read(q, 0, planned[q]) BY <1>1 DEF Read
<1>5. WatermarkSeen(q)'
  <2>1. NewWatermark(q) = 0 \/ \E j \in Read(q, 0, planned[q]) :
                                  NewWatermark(q) = log[j].time - Watermark
    BY <1>1, <1>3, WatermarkFrom DEF WatermarkSeen
  <2>. QED BY <1>1, <1>4, <2>1 DEF WatermarkSeen
<1>6. \A i \in Read(q, 0, planned[q]) : Punctual(q, i) => i \in counted[q]
  BY <1>1, <1>3, PunctualOnTime DEF PunctualIn
<1>7. PunctualIn(q)' BY <1>1, <1>4, <1>6, SamePunctual DEF PunctualIn
<1>8. RowsExact(q)' BY <1>1, SameLog DEF RowsExact
<1>. QED BY <1>5, <1>7, <1>8

\* A query that counts and commits nothing keeps it.
LEMMA IdlePunctual ==
  ASSUME NEW q, PunctualInv(q), log' = log, committed'[q] = committed[q],
         watermark'[q] = watermark[q], table'[q] = table[q], counted'[q] = counted[q]
  PROVE  PunctualInv(q)'
<1>. USE DEF PunctualInv
<1>1. Read(q, 0, committed[q])' = Read(q, 0, committed[q]) BY DEF Read
<1>2. WatermarkSeen(q)' BY <1>1 DEF WatermarkSeen
<1>3. PunctualIn(q)' BY <1>1, SamePunctual DEF PunctualIn
<1>4. RowsExact(q)' BY SameLog DEF RowsExact
<1>. QED BY <1>2, <1>3, <1>4

\* What a step leaves alone of a query that neither writes nor commits.
LEMMA StepFrame ==
  ASSUME IInv, [Next]_vars, NEW q \in Queries, ~ Write(q), ~ Commit(q)
  PROVE  /\ log' = log /\ committed'[q] = committed[q] /\ watermark'[q] = watermark[q]
         /\ agg'[q] = agg[q] /\ table'[q] = table[q] /\ counted'[q] = counted[q]
         /\ \/ planned'[q] = planned[q] /\ (pc'[q] = "written" => pc[q] = "written")
            \/ planned[q] = None /\ pc'[q] = "planned"
<1>. USE DEF IInv, Types
<1>1. CASE \E p \in Queries : Plan(p)
  <2>1. PICK p \in Queries : Plan(p) BY <1>1
  <2>2. CASE p = q
    <3>1. planned[q] = None BY <2>1, <2>2 DEF Plan, QueryInv, BatchAhead
    <3>. QED BY <2>1, <2>2, <3>1 DEF Plan
  <2>3. CASE p # q BY <2>1, <2>3 DEF Plan
  <2>. QED BY <2>2, <2>3
<1>2. CASE \E p \in Queries : Write(p)
  <2>1. PICK p \in Queries : Write(p) BY <1>2
  <2>2. p # q BY <2>1
  <2>3. /\ counted' = [counted EXCEPT ![p] = @ \union Batch(p)]
        /\ table' = [table EXCEPT ![p] = table'[p]]
    BY <2>1, Written
  <2>4. table'[q] = table[q] BY <2>2, <2>3
  <2>. QED BY <2>1, <2>2, <2>3, <2>4 DEF Write
<1>3. CASE \E p \in Queries : WriteFails(p) BY <1>3 DEF WriteFails
<1>4. CASE \E p \in Queries : Commit(p)
  <2>1. PICK p \in Queries : Commit(p) BY <1>4
  <2>2. p # q BY <2>1
  <2>. QED BY <2>1, <2>2 DEF Commit
<1>5. CASE Restart BY <1>5 DEF Restart
<1>6. CASE UNCHANGED vars BY <1>6 DEF vars
<1>. QED BY <1>1, <1>2, <1>3, <1>4, <1>5, <1>6 DEF Next

LEMMA NextPunctual ==
  IInv /\ (\A q \in Queries : PunctualInv(q)) /\ [Next]_vars
    => (\A q \in Queries : PunctualInv(q))'
<1>. SUFFICES ASSUME IInv, \A q \in Queries : PunctualInv(q), [Next]_vars, NEW q \in Queries
              PROVE  PunctualInv(q)'
  OBVIOUS
<1>1. CASE Write(q) BY <1>1, WritePunctual
<1>2. CASE Commit(q) BY <1>2, CommitPunctual
<1>3. CASE ~ Write(q) /\ ~ Commit(q) BY <1>3, StepFrame, IdlePunctual
<1>. QED BY <1>1, <1>2, <1>3

\* A record within the watermark of all records before it is counted in every row of its
\* groups, wherever the batches were cut and whatever failed or was restarted (withWatermark
\* and the foreachBatch functions of queries/).
THEOREM OnTimeRecordsCounted == Spec => []OnTimeCounted
<1>1. IInv /\ (\A q \in Queries : PunctualInv(q)) => OnTimeCounted
  <2>. SUFFICES ASSUME IInv, \A q \in Queries : PunctualInv(q),
                       NEW q \in Queries \ Limited, NEW k
                PROVE  AtZero(table[q], k)
                         >= Cardinality({j \in Read(q, 0, committed[q]) :
                                           k \in KeysOf(q, j) /\ Punctual(q, j)})
    BY DEF OnTimeCounted
  <2>. DEFINE due == {j \in Read(q, 0, committed[q]) : k \in KeysOf(q, j) /\ Punctual(q, j)}
              has == {j \in counted[q] : k \in KeysOf(q, j)}
  <2>1. due \subseteq has BY DEF PunctualInv, PunctualIn
  <2>2. counted[q] \in SUBSET (1..Records) BY DEF IInv, Types
  <2>3. IsFiniteSet(has) /\ Count(q, counted[q], k) \in Nat BY <2>2, CountFinite
  <2>4. Count(q, counted[q], k) = Cardinality(has) BY DEF Count
  <2>5. AtZero(table[q], k) = Count(q, counted[q], k) BY DEF PunctualInv, RowsExact
  <2>. HIDE DEF due, has
  <2>6. IsFiniteSet(due) /\ Cardinality(due) <= Cardinality(has) BY <2>1, <2>3, FS_Subset
  <2>7. Cardinality(due) \in Nat BY <2>6, FS_CardinalityType
  <2>8. AtZero(table[q], k) >= Cardinality(due) BY <2>3, <2>4, <2>5, <2>6, <2>7
  <2>. QED BY <2>8 DEF due
<1>2. Spec => [](\A q \in Queries : PunctualInv(q))
  BY InitPunctual, NextPunctual, Invariance, PTL DEF Spec
<1>. QED BY <1>1, <1>2, Invariance, PTL

-----------------------------------------------------------------------------
(* The leading rows are stored.                                            *)

\* The rows of a's window of k that are not behind k.
Ahead(a, k) == {j \in DOMAIN a \ {k} : j[1] = k[1] /\ a[j] >= a[k]}
Leads(q, a, k) == q \in Limited => Cardinality(Ahead(a, k)) < Limit(q)

\* Each row of the state store counts the committed records, also in a window that the
\* watermark has passed since.
StateCounts(q) ==
  /\ IsFiniteSet(DOMAIN agg[q])
  /\ \A k \in DOMAIN agg[q] : k[1] \in Int /\ agg[q][k] = Count(q, Done(q), k)

\* The leaders of the state a are in the table, those in the set without excepted.
LeadersIn(q, a, without) ==
  \A k \in DOMAIN a \ without : Leads(q, a, k) => AtZero(table[q], k) = a[k]

\* The batch in hand may already have rewritten a row that it changes; once it is
\* written, the leaders are those of the state that it is about to commit.
LeadersInv(q) ==
  /\ StateCounts(q)
  /\ LeadersIn(q, agg[q], IF planned[q] = None THEN {} ELSE Changed(q))
  /\ pc[q] = "written" => LeadersIn(q, NewAgg(q), {})

LEMMA ImageFinite ==
  ASSUME NEW S, IsFiniteSet(S), NEW f, DOMAIN f = S
  PROVE  IsFiniteSet({f[x] : x \in S})
<1>. DEFINE T == {f[x] : x \in S}
            g == [x \in S |-> f[x]]
<1>1. g \in Surjection(S, T) BY DEF Surjection
<1>. HIDE DEF T, g
<1>2. IsFiniteSet(T) BY <1>1, FS_Surjection
<1>. QED BY <1>2 DEF T

LEMMA ChangedFinite ==
  ASSUME Types, NEW q \in Queries, planned[q] # None
  PROVE  IsFiniteSet(Changed(q))
<1>1. IsFiniteSet(Batch(q))
  <2>1. Batch(q) \in SUBSET (1..Records) BY BatchFacts
  <2>2. IsFiniteSet(1..Records) BY FS_Interval, LaneAAssumption
  <2>. QED BY <2>1, <2>2, FS_Subset
<1>2. IsFiniteSet(Filters)
  <2>1. IsFiniteSet({"tcp_only"} \union {"udp_only"} \union {"web_traffic"}
                      \union {"dns_traffic"} \union {"large_packets"})
    BY FS_Singleton, FS_Union
  <2>2. DefaultFilters = {"tcp_only"} \union {"udp_only"} \union {"web_traffic"}
                           \union {"dns_traffic"} \union {"large_packets"}
    BY DEF DefaultFilters
  <2>. QED BY <2>1, <2>2, FS_Subset, LaneAAssumption
<1>3. CASE q = "filter_counts"
  <2>. DEFINE starts == {WindowStart(log[i].time) : i \in Batch(q)}
              start == [i \in Batch(q) |-> WindowStart(log[i].time)]
  <2>1. IsFiniteSet(starts)
    <3>1. starts = {start[i] : i \in Batch(q)} /\ DOMAIN start = Batch(q) OBVIOUS
    <3>. HIDE DEF start
    <3>. QED BY <1>1, <3>1, ImageFinite
  <2>. HIDE DEF starts
  <2>2. IsFiniteSet(starts \X Filters) BY <1>2, <2>1, FS_Product
  <2>. QED BY <1>3, <2>2 DEF Changed, starts
<1>4. CASE q # "filter_counts"
  <2>. DEFINE rows == {KeysOf(q, i) : i \in Batch(q)}
              keys == [i \in Batch(q) |-> KeysOf(q, i)]
  <2>1. IsFiniteSet(rows)
    <3>1. rows = {keys[i] : i \in Batch(q)} /\ DOMAIN keys = Batch(q) OBVIOUS
    <3>. HIDE DEF keys
    <3>. QED BY <1>1, <3>1, ImageFinite
  <2>2. ASSUME NEW i \in Batch(q) PROVE IsFiniteSet(KeysOf(q, i))
    <3>. DEFINE start == {WindowStart(log[i].time)}
                groups == GroupsOf(q, log[i].flow)
    <3>1. IsFiniteSet(start) BY FS_Singleton
    <3>2. IsFiniteSet(groups)
      <4>1. q \in QueryNames BY LaneAAssumption
      <4>2. groups = {} \/ \E x : groups = {x}
        BY <4>1, <1>4 DEF QueryNames, GroupsOf, WholeWindow
      <4>. HIDE DEF groups
      <4>. QED BY <4>2, FS_Singleton, FS_EmptySet
    <3>. HIDE DEF start, groups
    <3>3. IsFiniteSet(start \X groups) BY <3>1, <3>2, FS_Product
    <3>. QED BY <3>3 DEF KeysOf, start, groups
  <2>3. \A K \in rows : IsFiniteSet(K) BY <2>2
  <2>. HIDE DEF rows
  <2>4. IsFiniteSet(UNION rows) BY <2>1, <2>3, FS_UNION
  <2>. QED BY <1>4, <2>4 DEF Changed, rows
<1>. QED BY <1>3, <1>4

\* The state that the batch in hand is about to commit.
LEMMA NewState ==
  ASSUME IInv, NEW q \in Queries, planned[q] # None, StateCounts(q)
  PROVE  /\ IsFiniteSet(DOMAIN NewAgg(q))
         /\ Changed(q) \subseteq DOMAIN NewAgg(q)
         /\ \A k \in DOMAIN NewAgg(q) :
              /\ k[1] \in Int /\ k[1] + WindowLen > watermark[q]
              /\ NewAgg(q)[k] = Count(q, Done(q) \union Batch(q), k)
              /\ k \notin Changed(q) => k \in DOMAIN agg[q] /\ NewAgg(q)[k] = agg[q][k]
         /\ \A k \in DOMAIN agg[q] :
              k[1] + WindowLen > watermark[q] => k \in DOMAIN NewAgg(q)
<1>. USE DEF IInv
<1>0. DOMAIN NewAgg(q)
        = {j \in DOMAIN agg[q] \union Changed(q) : j[1] + WindowLen > watermark[q]}
  BY DEF NewAgg
<1>1. IsFiniteSet(DOMAIN NewAgg(q))
  <2>1. IsFiniteSet(DOMAIN agg[q] \union Changed(q))
    BY ChangedFinite, FS_Union DEF StateCounts
  <2>2. DOMAIN NewAgg(q) \subseteq DOMAIN agg[q] \union Changed(q) BY <1>0
  <2>. QED BY <2>1, <2>2, FS_Subset
<1>2. \A k \in Changed(q) : k[1] \in Int /\ k[1] + WindowLen > watermark[q]
  BY ChangedFacts DEF LiveKey
<1>3. Changed(q) \subseteq DOMAIN NewAgg(q) BY <1>0, <1>2
<1>4. ASSUME NEW k \in DOMAIN NewAgg(q)
      PROVE  /\ k[1] \in Int /\ k[1] + WindowLen > watermark[q]
             /\ NewAgg(q)[k] = Count(q, Done(q) \union Batch(q), k)
             /\ k \notin Changed(q) => k \in DOMAIN agg[q] /\ NewAgg(q)[k] = agg[q][k]
  <2>1. k[1] \in Int /\ k[1] + WindowLen > watermark[q] BY <1>0, <1>2 DEF StateCounts
  <2>2. NewAgg(q)[k] = AtZero(agg[q], k) + Count(q, Batch(q), k) BY <1>0 DEF NewAgg
  <2>3. AtZero(agg[q], k) = Count(q, Done(q), k)
    BY <2>1 DEF QueryInv, StateExact, LiveKey
  <2>4. Count(q, Done(q) \union Batch(q), k) = Count(q, Done(q), k) + Count(q, Batch(q), k)
    <3>1. /\ Done(q) \intersect Batch(q) = {}
          /\ Done(q) \in SUBSET (1..Records) /\ Batch(q) \in SUBSET (1..Records)
      BY RowsAreCounts
    <3>. QED BY <3>1, CountDisjoint
  <2>5. ASSUME k \notin Changed(q)
        PROVE  k \in DOMAIN agg[q] /\ NewAgg(q)[k] = agg[q][k]
    <3>1. k \in DOMAIN agg[q] BY <1>0, <2>5
    <3>2. Count(q, Batch(q), k) = 0 BY <2>5, ChangedFacts, CountNone
    <3>3. Count(q, Done(q), k) \in Nat BY RowsAreCounts, CountFinite
    <3>. QED BY <2>2, <2>3, <3>1, <3>2, <3>3 DEF AtZero
  <2>. QED BY <2>1, <2>2, <2>3, <2>4, <2>5
<1>5. \A k \in DOMAIN agg[q] : k[1] + WindowLen > watermark[q] => k \in DOMAIN NewAgg(q)
  BY <1>0
<1>. QED BY <1>1, <1>3, <1>4, <1>5

\* A row that leads after the batch and that the batch does not change led before it.
LEMMA LedBefore ==
  ASSUME IInv, NEW q \in Queries, planned[q] # None, StateCounts(q),
         NEW k \in DOMAIN NewAgg(q), k \notin Changed(q), Leads(q, NewAgg(q), k)
  PROVE  Leads(q, agg[q], k)
<1>. SUFFICES ASSUME q \in Limited
              PROVE  Cardinality(Ahead(agg[q], k)) < Limit(q)
  BY DEF Leads
<1>. USE DEF IInv
<1>1. /\ IsFiniteSet(DOMAIN NewAgg(q))
      /\ k[1] \in Int /\ k[1] + WindowLen > watermark[q]
      /\ k \in DOMAIN agg[q] /\ NewAgg(q)[k] = agg[q][k]
      /\ \A j \in DOMAIN NewAgg(q) : NewAgg(q)[j] = Count(q, Done(q) \union Batch(q), j)
      /\ \A j \in DOMAIN agg[q] : j[1] + WindowLen > watermark[q] => j \in DOMAIN NewAgg(q)
  BY NewState
<1>2. Done(q) \in SUBSET (1..Records) /\ Batch(q) \in SUBSET (1..Records) BY RowsAreCounts
<1>3. ASSUME NEW j \in Ahead(agg[q], k) PROVE j \in Ahead(NewAgg(q), k)
  <2>1. j \in DOMAIN agg[q] /\ j # k /\ j[1] = k[1] /\ agg[q][j] >= agg[q][k]
    BY DEF Ahead
  <2>2. j \in DOMAIN NewAgg(q) BY <1>1, <2>1
  <2>3. NewAgg(q)[j] = Count(q, Done(q) \union Batch(q), j) BY <1>1, <2>2
  <2>4. agg[q][j] = Count(q, Done(q), j) /\ agg[q][k] = Count(q, Done(q), k)
    BY <1>1, <2>1 DEF StateCounts
  <2>5. Count(q, Done(q), j) <= Count(q, Done(q) \union Batch(q), j)
    BY <1>2, CountMonotone
  <2>6. /\ Count(q, Done(q), j) \in Nat /\ Count(q, Done(q), k) \in Nat
        /\ Count(q, Done(q) \union Batch(q), j) \in Nat
    BY <1>2, CountFinite
  <2>7. NewAgg(q)[j] >= NewAgg(q)[k] BY <1>1, <2>1, <2>3, <2>4, <2>5, <2>6
  <2>. QED BY <2>1, <2>2, <2>7 DEF Ahead
<1>4. IsFiniteSet(Ahead(NewAgg(q), k)) BY <1>1, FS_Subset DEF Ahead
<1>5. /\ IsFiniteSet(Ahead(agg[q], k))
      /\ Cardinality(Ahead(agg[q], k)) <= Cardinality(Ahead(NewAgg(q), k))
  BY <1>3, <1>4, FS_Subset
<1>6. Cardinality(Ahead(NewAgg(q), k)) < Limit(q) BY DEF Leads
<1>7. Cardinality(Ahead(NewAgg(q), k)) \in Nat /\ Cardinality(Ahead(agg[q], k)) \in Nat
  BY <1>4, <1>5, FS_CardinalityType
<1>8. Limit(q) \in Nat BY LaneAAssumption DEF Limit
<1>. QED BY <1>5, <1>6, <1>7, <1>8

\* The choice of rows that is written has the changed rows that lead.
LEMMA LeaderChosen ==
  ASSUME IInv, NEW q \in Queries, planned[q] # None, StateCounts(q),
         NEW S \in TopRows(q, BatchRows(q)), q \in Limited,
         NEW k \in Changed(q), Leads(q, NewAgg(q), k)
  PROVE  k \in S
<1>. USE DEF IInv
<1>. DEFINE rows == BatchRows(q)
            all == {j \in DOMAIN rows : j[1] = k[1]}
            in == {j \in S : j[1] = k[1]}
            n == Cardinality(Ahead(NewAgg(q), k))
<1>1. DOMAIN rows = Changed(q) BY DEF BatchRows
<1>2. /\ S \subseteq DOMAIN rows
      /\ Cardinality(in) = Min({Limit(q), Cardinality(all)})
      /\ \A x \in in, y \in all \ in : ~Outranks(q, rows, y, x)
  BY <1>1 DEF TopRows
<1>3. SUFFICES ASSUME k \notin S PROVE FALSE
  OBVIOUS
<1>4. k \in all \ in BY <1>1, <1>3
<1>5. IsFiniteSet(all) /\ IsFiniteSet(in) /\ in \subseteq all
  <2>1. in \subseteq all /\ all \subseteq Changed(q) BY <1>1, <1>2
  <2>. HIDE DEF in, all
  <2>. QED BY <2>1, ChangedFinite, FS_Subset
<1>6. /\ IsFiniteSet(DOMAIN NewAgg(q)) /\ Changed(q) \subseteq DOMAIN NewAgg(q)
      /\ \A j \in Changed(q) : NewAgg(q)[j] = Count(q, Done(q) \union Batch(q), j)
  BY NewState
<1>7. \A j \in Changed(q) : NewAgg(q)[j] \in Nat /\ rows[j] = NewAgg(q)[j]
  <2>1. /\ counted[q] \union Batch(q) = Done(q) \union Batch(q)
        /\ Done(q) \union Batch(q) \in SUBSET (1..Records)
        /\ \A j \in Changed(q) : rows[j] = Count(q, counted[q] \union Batch(q), j)
    BY RowsAreCounts
  <2>. HIDE DEF rows
  <2>. QED BY <1>6, <2>1, CountFinite
<1>8. ASSUME NEW x \in in PROVE x \in Ahead(NewAgg(q), k)
  <2>1. x \in Changed(q) /\ x[1] = k[1] /\ x # k BY <1>1, <1>2, <1>3
  <2>2. ~ (rows[k] > rows[x]) BY <1>2, <1>4, <1>8 DEF Outranks
  <2>. HIDE DEF rows
  <2>3. NewAgg(q)[x] >= NewAgg(q)[k] BY <1>7, <2>1, <2>2
  <2>. QED BY <1>6, <2>1, <2>3 DEF Ahead
<1>9. n < Limit(q) BY DEF Leads
<1>10. IsFiniteSet(Ahead(NewAgg(q), k)) BY <1>6, FS_Subset DEF Ahead
<1>11. Cardinality(in) <= n /\ n \in Nat
  <2>1. in \subseteq Ahead(NewAgg(q), k) BY <1>8
  <2>. HIDE DEF in
  <2>. QED BY <1>10, <2>1, FS_Subset, FS_CardinalityType
<1>12. Cardinality(in) \in Nat /\ Cardinality(all) \in Nat /\ Limit(q) \in Nat
  <2>1. Limit(q) \in Nat BY LaneAAssumption DEF Limit
  <2>. HIDE DEF in, all
  <2>. QED BY <1>5, <2>1, FS_CardinalityType
<1>. HIDE DEF in, all, n, rows
<1>13. Cardinality(in) = Cardinality(all)
  <2>1. Min({Limit(q), Cardinality(all)}) \in {Limit(q), Cardinality(all)}
    <3>1. \A a, b \in Int : \E m \in {a, b} : \A z \in {a, b} : m <= z OBVIOUS
    <3>. QED BY <1>12, <3>1 DEF Min
  <2>. QED BY <1>2, <1>9, <1>11, <1>12, <2>1
<1>14. in = all BY <1>5, <1>13, FS_Subset
<1>. QED BY <1>4, <1>14

LEMMA InitLeaders == Init => \A q \in Queries : LeadersInv(q)
<1>. SUFFICES ASSUME Init, NEW q \in Queries PROVE LeadersInv(q)
  OBVIOUS
<1>1. agg[q] = <<>> /\ pc[q] = "idle" BY DEF Init
<1>2. DOMAIN agg[q] = {} BY <1>1
<1>3. StateCounts(q) BY <1>2, FS_EmptySet DEF StateCounts
<1>4. LeadersIn(q, agg[q], IF planned[q] = None THEN {} ELSE Changed(q))
  BY <1>2 DEF LeadersIn
<1>. QED BY <1>1, <1>3, <1>4 DEF LeadersInv

\* The state of a query, its batch and what the batch changes are not touched.
LEMMA SameState ==
  ASSUME NEW q, log' = log, planned'[q] = planned[q], committed'[q] = committed[q],
         watermark'[q] = watermark[q], agg'[q] = agg[q]
  PROVE  Changed(q)' = Changed(q) /\ NewAgg(q)' = NewAgg(q)
<1>1. Batch(q)' = Batch(q) BY SameBatch
<1>2. \A i : KeysOf(q, i)' = KeysOf(q, i) BY DEF KeysOf
<1>3. Changed(q)' = Changed(q)
  <2>1. CASE q = "filter_counts" BY <1>1, <2>1 DEF Changed, WindowStart
  <2>2. CASE q # "filter_counts" BY <1>1, <1>2, <2>2 DEF Changed
  <2>. QED BY <2>1, <2>2
<1>4. \A k : Count(q, Batch(q), k)' = Count(q, Batch(q), k) BY <1>1 DEF Count, KeysOf
<1>5. NewAgg(q)' = NewAgg(q) BY <1>3, <1>4 DEF NewAgg
<1>. QED BY <1>3, <1>5

LEMMA WriteLeaders ==
  ASSUME IInv, NEW q \in Queries, Write(q), LeadersInv(q)
  PROVE  LeadersInv(q)'
<1>. USE DEF IInv, LeadersInv
<1>1. UNCHANGED <<log, planned, committed, watermark, agg>> BY DEF Write
<1>2. planned[q] # None BY Written
<1>3. PICK S \in SUBSET Changed(q) :
        /\ S \in TopRows(q, BatchRows(q))
        /\ q \notin Limited => S = Changed(q)
        /\ DOMAIN table'[q] = DOMAIN table[q] \union S
        /\ \A j \in S : table'[q][j] = Count(q, counted'[q], j)
        /\ \A j \in DOMAIN table[q] \ S : table'[q][j] = table[q][j]
  BY Written
<1>4. Changed(q)' = Changed(q) /\ NewAgg(q)' = NewAgg(q) BY <1>1, SameState
<1>5. Done(q)' = Done(q) /\ counted'[q] = Done(q) \union Batch(q) BY WriteCounts
<1>6. StateCounts(q)' BY <1>1, <1>5, SameLog DEF StateCounts
<1>7. ASSUME NEW k \in DOMAIN agg[q] \ Changed(q), Leads(q, agg[q], k)
      PROVE  AtZero(table'[q], k) = agg[q][k]
  <2>1. AtZero(table'[q], k) = AtZero(table[q], k) BY <1>3 DEF AtZero
  <2>. QED BY <1>2, <1>7, <2>1 DEF LeadersIn
<1>8. LeadersIn(q, agg[q], IF planned[q] = None THEN {} ELSE Changed(q))'
  BY <1>1, <1>2, <1>4, <1>7 DEF LeadersIn, Leads, Ahead, AtZero
<1>9. ASSUME NEW k \in DOMAIN NewAgg(q), Leads(q, NewAgg(q), k)
      PROVE  AtZero(table'[q], k) = NewAgg(q)[k]
  <2>1. CASE k \in Changed(q)
    <3>1. k \in S BY <1>2, <1>3, <1>9, <2>1, LeaderChosen
    <3>2. NewAgg(q)[k] = Count(q, Done(q) \union Batch(q), k) BY <1>2, <1>9, NewState
    <3>. QED BY <1>3, <1>5, <3>1, <3>2 DEF AtZero
  <2>2. CASE k \notin Changed(q)
    <3>1. k \in DOMAIN agg[q] /\ NewAgg(q)[k] = agg[q][k] BY <1>2, <2>2, NewState
    <3>2. Leads(q, agg[q], k) BY <1>2, <1>9, <2>2, LedBefore
    <3>. QED BY <1>7, <2>2, <3>1, <3>2
  <2>. QED BY <2>1, <2>2
<1>10. LeadersIn(q, NewAgg(q), {})' BY <1>4, <1>9 DEF LeadersIn, Leads, Ahead, AtZero
<1>. QED BY <1>6, <1>8, <1>10

LEMMA CommitLeaders ==
  ASSUME IInv, NEW q \in Queries, Commit(q), LeadersInv(q)
  PROVE  LeadersInv(q)'
<1>. USE DEF IInv, LeadersInv
<1>1. /\ planned[q] # None /\ counted[q] = Done(q) \union Batch(q)
      /\ Done(q)' = counted[q]
      /\ planned'[q] = None /\ pc'[q] = "idle" /\ agg'[q] = NewAgg(q)
      /\ log' = log /\ table' = table
  BY CommitCounts
<1>2. pc[q] = "written" BY DEF Commit
<1>3. /\ IsFiniteSet(DOMAIN NewAgg(q))
      /\ \A k \in DOMAIN NewAgg(q) :
           k[1] \in Int /\ NewAgg(q)[k] = Count(q, Done(q) \union Batch(q), k)
  BY <1>1, NewState
<1>4. StateCounts(q)' BY <1>1, <1>3, SameLog DEF StateCounts
<1>5. LeadersIn(q, NewAgg(q), {}) BY <1>2
<1>6. LeadersIn(q, agg[q], IF planned[q] = None THEN {} ELSE Changed(q))'
  BY <1>1, <1>5 DEF LeadersIn, Leads, Ahead, AtZero
<1>. QED BY <1>1, <1>4, <1>6

\* A query that neither writes nor commits keeps its leaders.
LEMMA IdleLeaders ==
  ASSUME IInv, [Next]_vars, NEW q \in Queries, LeadersInv(q), ~ Write(q), ~ Commit(q)
  PROVE  LeadersInv(q)'
<1>. USE DEF LeadersInv
<1>1. /\ log' = log /\ committed'[q] = committed[q] /\ watermark'[q] = watermark[q]
      /\ agg'[q] = agg[q] /\ table'[q] = table[q] /\ counted'[q] = counted[q]
      /\ \/ planned'[q] = planned[q] /\ (pc'[q] = "written" => pc[q] = "written")
         \/ planned[q] = None /\ pc'[q] = "planned"
  BY StepFrame
<1>2. StateCounts(q)' BY <1>1, SameLog DEF StateCounts, Done
<1>3. CASE planned'[q] = planned[q] /\ (pc'[q] = "written" => pc[q] = "written")
  <2>1. Changed(q)' = Changed(q) /\ NewAgg(q)' = NewAgg(q) BY <1>1, <1>3, SameState
  <2>2. LeadersIn(q, agg[q], IF planned[q] = None THEN {} ELSE Changed(q))'
    BY <1>1, <1>3, <2>1 DEF LeadersIn, Leads, Ahead, AtZero
  <2>3. pc'[q] = "written" => LeadersIn(q, NewAgg(q), {})'
    BY <1>1, <1>3, <2>1 DEF LeadersIn, Leads, Ahead, AtZero
  <2>. QED BY <1>2, <2>2, <2>3
<1>4. CASE planned[q] = None /\ pc'[q] = "planned"
  <2>1. LeadersIn(q, agg[q], {}) BY <1>4
  <2>2. LeadersIn(q, agg[q], IF planned[q] = None THEN {} ELSE Changed(q))'
    BY <1>1, <2>1 DEF LeadersIn, Leads, Ahead, AtZero
  <2>. QED BY <1>2, <1>4, <2>2
<1>. QED BY <1>1, <1>3, <1>4

LEMMA NextLeaders ==
  IInv /\ (\A q \in Queries : LeadersInv(q)) /\ [Next]_vars
    => (\A q \in Queries : LeadersInv(q))'
<1>. SUFFICES ASSUME IInv, \A q \in Queries : LeadersInv(q), [Next]_vars, NEW q \in Queries
              PROVE  LeadersInv(q)'
  OBVIOUS
<1>1. CASE Write(q) BY <1>1, WriteLeaders
<1>2. CASE Commit(q) BY <1>2, CommitLeaders
<1>3. CASE ~ Write(q) /\ ~ Commit(q) BY <1>3, IdleLeaders
<1>. QED BY <1>1, <1>2, <1>3

\* Between batches the rows that lead their window are stored with their present counts,
\* although port_counts and ip_edges rank only the rows that a batch changes: a row that a
\* batch left alone and that leads now led before (start_port_counts of queries/counts.py,
\* start_edges of queries/edges.py).
THEOREM LeadingRowsStored == Spec => []LeadersStored
<1>1. IInv /\ (\A q \in Queries : LeadersInv(q)) => LeadersStored
  <2>. SUFFICES ASSUME IInv, \A q \in Queries : LeadersInv(q),
                       NEW q \in Queries, pc[q] = "idle", NEW k \in DOMAIN agg[q],
                       Leads(q, agg[q], k)
                PROVE  AtZero(table[q], k) = agg[q][k]
    BY DEF LeadersStored, Leads, Ahead
  <2>1. planned[q] = None BY DEF IInv, QueryInv, BatchAhead
  <2>. QED BY <2>1 DEF LeadersInv, LeadersIn
<1>2. Spec => [](\A q \in Queries : LeadersInv(q))
  BY InitLeaders, NextLeaders, Invariance, PTL DEF Spec
<1>. QED BY <1>1, <1>2, Invariance, PTL
=============================================================================

---------------------------- MODULE PluginProofs ----------------------------
(* Five analytics plugins and the link analysis.                           *)
(*                                                                         *)
(* The itemset plugin: A-Priori and PCY return what the brute-force count  *)
(* returns, for every list of baskets, every threshold and every hash      *)
(* function; so the published rows of both agree, never exceed the truth,  *)
(* are exact while no basket was lost, and are not rewritten, across       *)
(* crashes and replays.                                                    *)
(*                                                                         *)
(* Counting ones: the buckets of DGIM count the ones of the exact window,  *)
(* all but the oldest bucket without error, so that a query is at most     *)
(* half of the exact count away from it.                                   *)
(*                                                                         *)
(* Sampling and moments: summed over all sequences of random draws, the    *)
(* mean of the reservoir is the mean of the records counted beside it, and *)
(* an AMS estimator gives the exact second moment stored beside it.        *)
(*                                                                         *)
(* Decay: pruning costs a key less than two epsilons of its score, and the *)
(* keys of a table never score more together than all traffic does,        *)
(* although every score is rounded down by itself.                         *)
(*                                                                         *)
(* Link analysis: in every iteration the ranks are a distribution, and     *)
(* their change shrinks at least by the damping factor.                    *)
EXTENDS ItemsetBuffer, Dgim, Sampling, Ams, Decay, LinkGraph, FiniteSetTheorems,
        SequenceTheorems, WellFoundedInduction, TLAPS

-----------------------------------------------------------------------------
(* The algorithms.                                                         *)

LEMMA PairsMembers ==
  ASSUME NEW S, NEW p
  PROVE  p \in Pairs(S) <=> \E u, v \in S : u # v /\ p = {u, v}
<1>1. ASSUME p \in Pairs(S) PROVE \E u, v \in S : u # v /\ p = {u, v}
  <2>1. PICK x \in {y \in S \X S : y[1] # y[2]} : p = {x[1], x[2]}
    BY <1>1 DEF Pairs
  <2>. QED BY <2>1
<1>2. ASSUME NEW u \in S, NEW v \in S, u # v, p = {u, v} PROVE p \in Pairs(S)
  <2>1. <<u, v>> \in {y \in S \X S : y[1] # y[2]} BY <1>2
  <2>2. p = {<<u, v>>[1], <<u, v>>[2]} BY <1>2
  <2>. QED BY <2>1, <2>2 DEF Pairs
<1>. QED BY <1>1, <1>2

LEMMA PairsSubset ==
  ASSUME NEW S, NEW p \in Pairs(S)
  PROVE  p \subseteq S
BY PairsMembers

LEMMA PairsMonotone ==
  ASSUME NEW S, NEW T, S \subseteq T
  PROVE  Pairs(S) \subseteq Pairs(T)
BY PairsMembers

\* A pair drawn from T whose items all lie in S is a pair of S.
LEMMA PairsWithin ==
  ASSUME NEW S, NEW T, NEW p \in Pairs(T), p \subseteq S
  PROVE  p \in Pairs(S)
BY PairsMembers

LEMMA HoldingFinite ==
  ASSUME NEW baskets, IsFiniteSet(DOMAIN baskets), NEW s
  PROVE  IsFiniteSet(Holding(baskets, s)) /\ Support(baskets, s) \in Nat
<1>1. Holding(baskets, s) \subseteq DOMAIN baskets BY DEF Holding
<1>2. IsFiniteSet(Holding(baskets, s)) BY <1>1, FS_Subset
<1>. QED BY <1>2, FS_CardinalityType DEF Support

\* A smaller itemset has at least the support of a larger one.
LEMMA SupportAntitone ==
  ASSUME NEW baskets, IsFiniteSet(DOMAIN baskets), NEW s, NEW t, s \subseteq t
  PROVE  Support(baskets, t) <= Support(baskets, s)
<1>1. Holding(baskets, t) \subseteq Holding(baskets, s) BY DEF Holding
<1>. QED BY <1>1, HoldingFinite, FS_Subset DEF Support

\* The items of a frequent itemset are frequent.
LEMMA ItemsOfFrequent ==
  ASSUME NEW baskets, IsFiniteSet(DOMAIN baskets), NEW m \in Nat, NEW s \in SUBSET Items,
         Support(baskets, s) >= m
  PROVE  s \subseteq FrequentItems(baskets, m)
<1>. SUFFICES ASSUME NEW x \in s PROVE x \in FrequentItems(baskets, m)
  OBVIOUS
<1>1. x \in Items /\ {x} \subseteq s OBVIOUS
<1>2. Support(baskets, s) <= Support(baskets, {x}) BY <1>1, SupportAntitone
<1>3. Support(baskets, s) \in Nat /\ Support(baskets, {x}) \in Nat BY HoldingFinite
<1>4. Support(baskets, {x}) >= m BY <1>2, <1>3
<1>. QED BY <1>1, <1>4 DEF FrequentItems

\* Reducing the baskets to f1 does not change the count of a pair of f1.
LEMMA PairCountIsSupport ==
  ASSUME NEW baskets, NEW f1, NEW p, p \subseteq f1
  PROVE  PairCount(baskets, f1, p) = Support(baskets, p)
<1>1. {i \in DOMAIN baskets : p \subseteq baskets[i] \intersect f1} = Holding(baskets, p)
  BY DEF Holding
<1>. QED BY <1>1 DEF PairCount, Support

LEMMA PairsFinite == IsFiniteSet(Pairs(Items))
<1>1. Pairs(Items) \subseteq SUBSET Items BY PairsSubset
<1>. QED BY <1>1, ItemsAssumption, FS_SUBSET, FS_Subset

LEMMA BucketFinite ==
  ASSUME NEW baskets, IsFiniteSet(DOMAIN baskets), NEW h, NEW bucket
  PROVE  /\ IsFiniteSet(BucketEntries(baskets, h, bucket))
         /\ BucketCount(baskets, h, bucket) \in Nat
<1>1. IsFiniteSet(DOMAIN baskets) OBVIOUS
<1>2. IsFiniteSet(Pairs(Items)) BY PairsFinite
<1>. DEFINE D == DOMAIN baskets
            P == Pairs(Items)
<1>3. IsFiniteSet(D \X P)
  <2>1. IsFiniteSet(D) /\ IsFiniteSet(P) BY <1>1, <1>2
  <2>. HIDE DEF D, P
  <2>. QED BY <2>1, FS_Product
<1>4. BucketEntries(baskets, h, bucket) \subseteq D \X P
  BY DEF BucketEntries
<1>. QED BY <1>3, <1>4, FS_Subset, FS_CardinalityType DEF BucketCount

\* The bucket of a pair counts at least the baskets that hold the pair.
LEMMA BucketCountsPair ==
  ASSUME NEW baskets, IsFiniteSet(DOMAIN baskets), NEW p \in Pairs(Items), NEW h
  PROVE  Support(baskets, p) <= BucketCount(baskets, h, h[p])
<1>. DEFINE H == Holding(baskets, p)
            E == BucketEntries(baskets, h, h[p])
            f == [i \in H |-> <<i, p>>]
<1>1. IsFiniteSet(E) BY BucketFinite
<1>2. ASSUME NEW i \in H PROVE <<i, p>> \in E
  <2>. DEFINE e == <<i, p>>
  <2>1. i \in DOMAIN baskets /\ p \subseteq baskets[i] BY DEF Holding
  <2>2. e \in (DOMAIN baskets) \X Pairs(Items) BY <2>1
  <2>3. e[1] = i /\ e[2] = p OBVIOUS
  <2>4. e[2] \subseteq baskets[e[1]] BY <2>1, <2>3
  <2>5. h[e[2]] = h[p] BY <2>3
  <2>. HIDE DEF e
  <2>6. e \in E BY <2>2, <2>4, <2>5 DEF BucketEntries
  <2>. QED BY <2>6 DEF e
<1>3. f \in Injection(H, E)
  <2>1. f \in [H -> E] BY <1>2
  <2>2. \A i \in H : f[i] = <<i, p>> OBVIOUS
  <2>3. DOMAIN f = H OBVIOUS
  <2>. HIDE DEF f, H, E
  <2>4. IsInjective(f) BY <2>2, <2>3 DEF IsInjective
  <2>. QED BY <2>1, <2>4 DEF Injection
<1>4. Cardinality(H) <= Cardinality(E)
  <2>. HIDE DEF f, H, E
  <2>. QED BY <1>1, <1>3, FS_Injection
<1>. QED BY <1>4 DEF Support, BucketCount

\* What both algorithms come to: the frequent pairs and their supports.
LEMMA CountedIsBruteForce ==
  ASSUME NEW baskets, IsFiniteSet(DOMAIN baskets), NEW m \in Nat, NEW candidates,
         candidates \subseteq Pairs(FrequentItems(baskets, m)),
         \A p \in Pairs(Items) : Support(baskets, p) >= m => p \in candidates
  PROVE  Counted(baskets, FrequentItems(baskets, m),
           FrequentCandidates(baskets, candidates, FrequentItems(baskets, m), m))
           = BruteForce(baskets, m)
<1>. DEFINE f1 == FrequentItems(baskets, m)
            pairs == FrequentCandidates(baskets, candidates, f1, m)
            brute == {t \in Singletons(Items) \union Pairs(Items) :
                        Support(baskets, t) >= m}
<1>1. f1 \subseteq Items BY DEF FrequentItems
<1>2. \A p \in Pairs(f1) : PairCount(baskets, f1, p) = Support(baskets, p)
  BY PairsSubset, PairCountIsSupport
<1>3. pairs = {p \in Pairs(Items) : Support(baskets, p) >= m}
  <2>1. Pairs(f1) \subseteq Pairs(Items) BY <1>1, PairsMonotone
  <2>2. pairs \subseteq Pairs(f1) BY DEF FrequentCandidates
  <2>3. ASSUME NEW p \in pairs PROVE p \in Pairs(Items) /\ Support(baskets, p) >= m
    <3>1. p \in Pairs(f1) /\ PairCount(baskets, f1, p) >= m
      BY <2>2 DEF FrequentCandidates
    <3>. QED BY <3>1, <2>1, <1>2
  <2>4. ASSUME NEW p \in Pairs(Items), Support(baskets, p) >= m PROVE p \in pairs
    <3>1. p \in candidates BY <2>4
    <3>2. PairCount(baskets, f1, p) = Support(baskets, p) BY <3>1, <1>2
    <3>. QED BY <3>1, <3>2, <2>4 DEF FrequentCandidates
  <2>. QED BY <2>3, <2>4
<1>4. Singletons(f1) = {t \in Singletons(Items) : Support(baskets, t) >= m}
  BY DEF Singletons, FrequentItems
<1>5. Singletons(f1) \union pairs = brute BY <1>3, <1>4
<1>6. ASSUME NEW s \in brute
      PROVE  (IF s \in Singletons(f1) THEN Support(baskets, s)
              ELSE PairCount(baskets, f1, s)) = Support(baskets, s)
  <2>1. CASE s \in Singletons(f1) BY <2>1
  <2>2. CASE s \notin Singletons(f1)
    <3>1. s \in pairs BY <1>5, <2>2
    <3>2. s \in Pairs(f1) BY <3>1 DEF FrequentCandidates
    <3>. QED BY <3>2, <1>2, <2>2
  <2>. QED BY <2>1, <2>2
<1>7. Counted(baskets, f1, pairs)
        = [s \in brute |-> IF s \in Singletons(f1) THEN Support(baskets, s)
                           ELSE PairCount(baskets, f1, s)]
  BY <1>5 DEF Counted
<1>8. [s \in brute |-> IF s \in Singletons(f1) THEN Support(baskets, s)
                       ELSE PairCount(baskets, f1, s)]
        = [s \in brute |-> Support(baskets, s)]
  BY <1>6
<1>. QED BY <1>7, <1>8 DEF BruteForce

\* The pruning of A-Priori (itemsets.py 187-205) loses no frequent pair and
\* changes no count.
THEOREM AprioriExact ==
  ASSUME NEW baskets, IsFiniteSet(DOMAIN baskets), NEW m \in Nat
  PROVE  Apriori(baskets, m) = BruteForce(baskets, m)
<1>. DEFINE f1 == FrequentItems(baskets, m)
<1>1. ASSUME NEW p \in Pairs(Items), Support(baskets, p) >= m PROVE p \in Pairs(f1)
  <2>1. p \in SUBSET Items BY PairsSubset
  <2>2. p \subseteq f1 BY <1>1, <2>1, ItemsOfFrequent
  <2>. QED BY <2>2, PairsWithin
<1>. QED BY <1>1, CountedIsBruteForce DEF Apriori

\* The buckets of PCY (itemsets.py 229-277) lose no frequent pair, however the
\* hash function makes pairs collide.
THEOREM PcyExact ==
  ASSUME NEW baskets, IsFiniteSet(DOMAIN baskets), NEW m \in Nat, NEW h
  PROVE  Pcy(baskets, h, m) = BruteForce(baskets, m)
<1>. DEFINE f1 == FrequentItems(baskets, m)
            candidates == PcyCandidates(baskets, h, f1, m)
<1>1. candidates \subseteq Pairs(f1) BY DEF PcyCandidates
<1>2. ASSUME NEW p \in Pairs(Items), Support(baskets, p) >= m PROVE p \in candidates
  <2>1. p \in SUBSET Items BY PairsSubset
  <2>2. p \in Pairs(f1) BY <1>2, <2>1, ItemsOfFrequent, PairsWithin
  <2>3. Support(baskets, p) <= BucketCount(baskets, h, h[p]) BY BucketCountsPair
  <2>4. Support(baskets, p) \in Nat BY HoldingFinite
  <2>5. BucketCount(baskets, h, h[p]) \in Nat BY BucketFinite
  <2>6. BucketCount(baskets, h, h[p]) >= m BY <1>2, <2>3, <2>4, <2>5
  <2>. QED BY <2>2, <2>6 DEF PcyCandidates
<1>. QED BY <1>1, <1>2, CountedIsBruteForce DEF Pcy

-----------------------------------------------------------------------------
(* The rows of one mining.                                                 *)

LEMMA ThresholdNat ==
  ASSUME NEW b, IsFiniteSet(DOMAIN b)
  PROVE  Threshold(b) \in Nat
<1>. DEFINE n == Cardinality(DOMAIN b)
<1>1. n \in Nat BY FS_CardinalityType
<1>. HIDE DEF n
<1>2. SupportNum \in Nat /\ SupportDen \in Nat \ {0} BY BufferAssumption
<1>3. -SupportNum * n \in Int BY <1>1, <1>2
<1>4. (-SupportNum * n) \div SupportDen \in Int BY <1>2, <1>3
<1>5. MinSupportCount(SupportNum, SupportDen, n) \in Nat BY <1>4 DEF MinSupportCount
<1>. QED BY <1>5 DEF Threshold, n

\* What both algorithms mine from b.
LEMMA MinedIsBruteForce ==
  ASSUME NEW b, IsFiniteSet(DOMAIN b), NEW a \in Algorithms
  PROVE  Mined(b, a) = BruteForce(b, Threshold(b))
<1>. DEFINE m == Threshold(b)
<1>1. m \in Nat BY ThresholdNat
<1>. HIDE DEF m
<1>2. Apriori(b, m) = BruteForce(b, m) BY <1>1, AprioriExact
<1>3. Pcy(b, hash, m) = BruteForce(b, m) BY <1>1, PcyExact
<1>. QED BY <1>2, <1>3 DEF Mined, m

LEMMA MinedRowsKeys ==
  ASSUME NEW b, NEW t, NEW k
  PROVE  k \in DOMAIN MinedRows(b, t) <=>
           \E a \in Algorithms : \E s \in DOMAIN Mined(b, a) : k = <<t - Window, a, s>>
BY DEF MinedRows

LEMMA MinedRowsAgree ==
  ASSUME NEW b, IsFiniteSet(DOMAIN b), NEW t, NEW k \in DOMAIN MinedRows(b, t),
         NEW a \in Algorithms
  PROVE  /\ <<k[1], a, k[3]>> \in DOMAIN MinedRows(b, t)
         /\ MinedRows(b, t)[<<k[1], a, k[3]>>] = MinedRows(b, t)[k]
<1>0. PICK c \in Algorithms : \E s \in DOMAIN Mined(b, c) : k = <<t - Window, c, s>>
  BY MinedRowsKeys
<1>1. PICK s \in DOMAIN Mined(b, c) : k = <<t - Window, c, s>>
  BY <1>0
<1>2. Mined(b, a) = Mined(b, c) BY MinedIsBruteForce
<1>3. k[1] = t - Window /\ k[2] = c /\ k[3] = s BY <1>1
<1>. DEFINE j == <<k[1], a, k[3]>>
<1>4. j = <<t - Window, a, s>> BY <1>3
<1>5. j \in DOMAIN MinedRows(b, t)
  <2>1. s \in DOMAIN Mined(b, a) BY <1>2
  <2>. QED BY <2>1, <1>4, MinedRowsKeys
<1>6. MinedRows(b, t)[k] = Mined(b, c)[s] BY <1>3 DEF MinedRows
<1>7. j[2] = a /\ j[3] = s BY <1>4
<1>. HIDE DEF j
<1>8. MinedRows(b, t)[j] = Mined(b, a)[s] BY <1>5, <1>7 DEF MinedRows
<1>. QED BY <1>2, <1>5, <1>6, <1>8 DEF j

-----------------------------------------------------------------------------
(* The inductive invariant.                                                *)

\* The buffer and its saved copy hold finitely many baskets.
BuffersFinite ==
  /\ now \in 0..MaxNow /\ batch \subseteq Records
  /\ DOMAIN buffer \subseteq Keys
  /\ disk # None => DOMAIN disk.buffer \subseteq Keys

\* A row is keyed by window start, algorithm and itemset.
TableKeys ==
  \A k \in DOMAIN table : k[2] \in Algorithms /\ k = <<k[1], k[2], k[3]>>

\* A row's mining lies in an earlier second, or this life knows of it.
RowsPast ==
  /\ now \in Int /\ clock \in Int /\ clock <= now /\ lastRun \in Int \union {None}
  /\ disk # None => disk.lastRun \in Int \union {None}
  /\ pc = "down" => lastRun = None
  /\ \A k \in DOMAIN table :
       /\ k[1] \in Int
       /\ k[1] + Window <= clock
       /\ \/ k[1] + Window < now
          \/ lastRun # None /\ k[1] + Window <= lastRun
          \/ pc = "saving" /\ k[1] + Window = clock
       /\ pc = "mining" => k[1] + Window < clock

LEMMA KeysFinite == IsFiniteSet(Keys)
<1>1. IsFiniteSet(0..MaxNow) BY BufferAssumption, FS_Interval
<1>2. IsFiniteSet(Sources) BY SourcesAssumption
<1>. QED BY <1>1, <1>2, FS_Product DEF Keys

LEMMA BufferDomainFinite ==
  ASSUME BuffersFinite
  PROVE  IsFiniteSet(DOMAIN buffer)
BY KeysFinite, FS_Subset DEF BuffersFinite

LEMMA BasketedKeys ==
  ASSUME NEW records, records \subseteq Records
  PROVE  DOMAIN Basketed(records) \subseteq Keys
BY DEF Basketed, KeyOf, Records, Keys

LEMMA CappedKeys ==
  ASSUME NEW b, NEW c \in Capped(b)
  PROVE  DOMAIN c \subseteq DOMAIN b
<1>1. CASE Cardinality(DOMAIN b) <= MaxBaskets BY <1>1 DEF Capped
<1>2. CASE ~(Cardinality(DOMAIN b) <= MaxBaskets) BY <1>2 DEF Capped, Restrict
<1>. QED BY <1>1, <1>2

LEMMA InitFinite == Init => BuffersFinite
BY BufferAssumption DEF Init, BuffersFinite

LEMMA StepFinite == BuffersFinite /\ [Next]_vars => BuffersFinite'
<1>. SUFFICES ASSUME BuffersFinite, [Next]_vars PROVE BuffersFinite'
  OBVIOUS
<1>. USE DEF BuffersFinite
<1>1. CASE Tick BY <1>1, BufferAssumption DEF Tick
<1>2. CASE Plan BY <1>2, SourcesAssumption DEF Plan
<1>3. CASE Absorb
  <2>. DEFINE added == Added(buffer, Basketed(batch))
              aged == InWindow(added, now)
  <2>1. DOMAIN Basketed(batch) \subseteq Keys BY BasketedKeys
  <2>2. DOMAIN added \subseteq Keys BY <2>1 DEF Added
  <2>. HIDE DEF added
  <2>3. DOMAIN aged \subseteq Keys BY <2>2 DEF InWindow, Restrict
  <2>4. buffer' \in Capped(aged) BY <1>3 DEF Absorb, added
  <2>. HIDE DEF aged
  <2>5. DOMAIN buffer' \subseteq Keys BY <2>3, <2>4, CappedKeys
  <2>. QED BY <2>5, <1>3 DEF Absorb
<1>4. CASE Publish BY <1>4 DEF Publish
<1>5. CASE PublishFails BY <1>5 DEF PublishFails
<1>6. CASE Save
  <2>1. DOMAIN buffer' \subseteq Keys BY <1>6 DEF Save
  <2>2. disk' # None => DOMAIN (disk'.buffer) \subseteq Keys BY <1>6 DEF Save
  <2>. QED BY <2>1, <2>2, <1>6 DEF Save
<1>7. CASE Commit BY <1>7 DEF Commit
<1>8. CASE Crash BY <1>8, BufferAssumption DEF Crash
<1>9. CASE Restart BY <1>9 DEF Restart
<1>10. CASE UNCHANGED vars BY <1>10 DEF vars
<1>. QED BY <1>1, <1>2, <1>3, <1>4, <1>5, <1>6, <1>7, <1>8, <1>9, <1>10 DEF Next

-----------------------------------------------------------------------------
(* The two algorithms agree.                                               *)

LEMMA InitAgrees == Init => TableKeys /\ AlgorithmsAgree
BY DEF Init, TableKeys, AlgorithmsAgree

LEMMA StepAgrees ==
  BuffersFinite /\ TableKeys /\ AlgorithmsAgree /\ [Next]_vars
    => (TableKeys /\ AlgorithmsAgree)'
<1>. SUFFICES ASSUME BuffersFinite, TableKeys, AlgorithmsAgree, [Next]_vars
              PROVE  TableKeys' /\ AlgorithmsAgree'
  OBVIOUS
<1>1. CASE Publish
  <2>. DEFINE new == MinedRows(buffer, clock)
  <2>1. table' = Upserted(table, new) BY <1>1 DEF Publish
  <2>2. \A k \in DOMAIN new : \A a \in Algorithms :
          <<k[1], a, k[3]>> \in DOMAIN new /\ new[<<k[1], a, k[3]>>] = new[k]
    <3>1. IsFiniteSet(DOMAIN buffer) BY BufferDomainFinite
    <3>2. ASSUME NEW k \in DOMAIN new, NEW a \in Algorithms
          PROVE  <<k[1], a, k[3]>> \in DOMAIN new /\ new[<<k[1], a, k[3]>>] = new[k]
      BY <3>1, MinedRowsAgree
    <3>. QED BY <3>2
  <2>3. \A k \in DOMAIN new : k[2] \in Algorithms /\ k = <<k[1], k[2], k[3]>>
    BY MinedRowsKeys
  <2>. HIDE DEF new
  <2>4. DOMAIN table' = DOMAIN table \union DOMAIN new BY <2>1 DEF Upserted
  <2>5. \A k \in DOMAIN table' : table'[k] = IF k \in DOMAIN new THEN new[k] ELSE table[k]
    BY <2>1 DEF Upserted
  <2>6. \A k \in DOMAIN table' : k[2] \in Algorithms /\ k = <<k[1], k[2], k[3]>>
    BY <2>3, <2>4 DEF TableKeys
  <2>7. ASSUME NEW k \in DOMAIN table', NEW a \in Algorithms
        PROVE  <<k[1], a, k[3]>> \in DOMAIN table' /\ table'[<<k[1], a, k[3]>>] = table'[k]
    <3>. DEFINE j == <<k[1], a, k[3]>>
    <3>1. CASE k \in DOMAIN new BY <3>1, <2>2, <2>4, <2>5
    <3>2. CASE k \notin DOMAIN new
      <4>1. k \in DOMAIN table BY <3>2, <2>4
      <4>2. j \in DOMAIN table /\ table[j] = table[k] BY <4>1 DEF AlgorithmsAgree
      <4>3. j \notin DOMAIN new
        <5>1. j[1] = k[1] /\ j[3] = k[3] OBVIOUS
        <5>2. k[2] \in Algorithms /\ k = <<k[1], k[2], k[3]>> BY <2>6
        <5>. HIDE DEF j
        <5>3. j \in DOMAIN new => <<j[1], k[2], j[3]>> \in DOMAIN new BY <5>2, <2>2
        <5>. QED BY <5>1, <5>2, <5>3, <3>2
      <4>. HIDE DEF j
      <4>4. j \in DOMAIN table' /\ table'[j] = table'[k] BY <4>1, <4>2, <4>3, <3>2, <2>4, <2>5
      <4>. QED BY <4>4 DEF j
    <3>. QED BY <3>1, <3>2
  <2>. QED BY <2>6, <2>7 DEF TableKeys, AlgorithmsAgree
<1>2. CASE UNCHANGED table BY <1>2 DEF AlgorithmsAgree, TableKeys
<1>. QED BY <1>1, <1>2
       DEF Next, vars, Tick, Plan, Absorb, PublishFails, Save, Commit, Crash, Restart

\* In every state of every run the table holds the same itemsets with the same
\* counts under "apriori" and "pcy", for every hash, window, cap and schedule of
\* crashes.
THEOREM Agreement == Spec => []AlgorithmsAgree
<1>1. Init => BuffersFinite /\ TableKeys /\ AlgorithmsAgree BY InitFinite, InitAgrees
<1>2. BuffersFinite /\ TableKeys /\ AlgorithmsAgree /\ [Next]_vars
        => (BuffersFinite /\ TableKeys /\ AlgorithmsAgree)'
  BY StepFinite, StepAgrees
<1>. QED BY <1>1, <1>2, PTL DEF Spec

-----------------------------------------------------------------------------
(* Published rows stay.                                                    *)

LEMMA InitPast == Init => RowsPast
BY BufferAssumption DEF Init, RowsPast

LEMMA NewRowsWindow ==
  ASSUME NEW b, NEW t, NEW k \in DOMAIN MinedRows(b, t)
  PROVE  k[1] = t - Window
BY MinedRowsKeys

LEMMA StepPast == RowsPast /\ [Next]_vars => RowsPast'
<1>. SUFFICES ASSUME RowsPast, [Next]_vars PROVE RowsPast'
  OBVIOUS
<1>. USE DEF RowsPast
<1>0. Window \in Nat /\ Every \in Nat \ {0} /\ None \notin Int BY BufferAssumption
<1>1. CASE Tick BY <1>0, <1>1 DEF Tick
<1>2. CASE Plan BY <1>0, <1>2 DEF Plan
<1>3. CASE Absorb BY <1>0, <1>3 DEF Absorb, Due
<1>4. CASE Publish
  <2>. DEFINE new == MinedRows(buffer, clock)
  <2>1. table' = Upserted(table, new) BY <1>4 DEF Publish
  <2>2. \A k \in DOMAIN new : k[1] = clock - Window BY NewRowsWindow
  <2>. HIDE DEF new
  <2>3. DOMAIN table' = DOMAIN table \union DOMAIN new BY <2>1 DEF Upserted
  <2>4. pc = "mining" /\ pc' = "saving" /\ UNCHANGED <<now, clock, lastRun, disk>>
    BY <1>4 DEF Publish
  <2>5. \A k \in DOMAIN new : k[1] \in Int /\ k[1] + Window = clock BY <1>0, <2>2
  <2>. QED BY <1>0, <2>3, <2>4, <2>5
<1>5. CASE PublishFails BY <1>0, <1>5 DEF PublishFails
<1>6. CASE Save
  <2>1. pc = "saving" /\ pc' = "done" /\ lastRun' = clock /\ UNCHANGED <<now, clock, table>>
    BY <1>6 DEF Save, MarkRun
  <2>2. disk' # None => disk'.lastRun \in Int \union {None}
    <3>1. CASE disk' = disk BY <3>1
    <3>2. CASE disk' = [lastRun |-> lastRun', buffer |-> buffer] BY <3>2, <2>1
    <3>. QED BY <1>6, <3>1, <3>2 DEF Save
  <2>. QED BY <1>0, <2>1, <2>2
<1>7. CASE Commit BY <1>0, <1>7 DEF Commit
<1>8. CASE Crash BY <1>0, <1>8 DEF Crash
<1>9. CASE Restart
  <2>1. pc = "down" /\ pc' \in {"idle", "planned"} /\ UNCHANGED <<now, clock, table, disk>>
    BY <1>9 DEF Restart
  <2>2. lastRun' \in Int \union {None} BY <1>9 DEF Restart
  <2>3. \A k \in DOMAIN table : k[1] \in Int /\ k[1] + Window < now
    BY <1>0, <2>1
  <2>. QED BY <1>0, <2>1, <2>2, <2>3
<1>10. CASE UNCHANGED vars BY <1>10 DEF vars
<1>. QED BY <1>1, <1>2, <1>3, <1>4, <1>5, <1>6, <1>7, <1>8, <1>9, <1>10 DEF Next

\* No row of frequent_itemsets changes once it is written: every mining has a
\* window start of its own, also after a crash that lost last_run_time.
THEOREM RowsStay == Spec => RowsImmutable
<1>. DEFINE Kept == \A k \in DOMAIN table : k \in DOMAIN table' /\ table'[k] = table[k]
<1>1. RowsPast /\ [Next]_vars => Kept
  <2>. SUFFICES ASSUME RowsPast, [Next]_vars PROVE Kept
    OBVIOUS
  <2>1. CASE Publish
    <3>. DEFINE new == MinedRows(buffer, clock)
    <3>1. table' = Upserted(table, new) BY <2>1 DEF Publish
    <3>2. \A k \in DOMAIN new : k[1] = clock - Window BY NewRowsWindow
    <3>. HIDE DEF new
    <3>3. \A k \in DOMAIN table : k[1] \in Int /\ k[1] + Window < clock
      BY <2>1 DEF RowsPast, Publish
    <3>4. clock \in Int /\ Window \in Nat BY BufferAssumption DEF RowsPast
    <3>5. DOMAIN table \intersect DOMAIN new = {} BY <3>2, <3>3, <3>4
    <3>. QED BY <3>1, <3>5 DEF Upserted
  <2>2. CASE UNCHANGED table BY <2>2
  <2>. QED BY <2>1, <2>2
         DEF Next, vars, Tick, Plan, Absorb, PublishFails, Save, Commit, Crash, Restart
<1>2. RowsPast /\ [Next]_vars => [Kept]_vars BY <1>1
<1>. HIDE DEF Kept
<1>3. Spec => [][Kept]_vars BY <1>2, InitPast, StepPast, PTL DEF Spec
<1>. QED BY <1>3 DEF RowsImmutable, Kept

-----------------------------------------------------------------------------
(* No row counts a basket that did not exist.                              *)

\* The baskets of b are parts of the baskets of the given records.
PartOf(b, records) ==
  \A k \in DOMAIN b : k \in DOMAIN Basketed(records) /\ b[k] \subseteq Basketed(records)[k]

\* What a row with window start w may count of the itemset s.
Held(records, s, w) == {k \in Holding(Basketed(records), s) : k[2] > w}

\* The buffer, saved or not, holds nothing that was not absorbed, and at a mining nothing
\* that is not in the window.
BuffersSound ==
  /\ absorbed \subseteq Records
  /\ PartOf(buffer, absorbed) /\ (disk # None => PartOf(disk.buffer, absorbed))
  /\ pc = "mining" => \A k \in DOMAIN buffer : k[2] > clock - Window

CountsNat == \A k \in DOMAIN table : table[k] \in Nat

LEMMA BasketedGrows ==
  ASSUME NEW records, NEW some \in SUBSET records
  PROVE  PartOf(Basketed(some), records)
BY DEF PartOf, Basketed

LEMMA PartOfGrows ==
  ASSUME NEW records, NEW some \in SUBSET records, NEW b, PartOf(b, some)
  PROVE  PartOf(b, records)
<1>1. PartOf(Basketed(some), records) BY BasketedGrows
<1>. QED BY <1>1 DEF PartOf

LEMMA HeldFinite ==
  ASSUME NEW records, records \subseteq Records, NEW s, NEW w
  PROVE  IsFiniteSet(Held(records, s, w))
<1>1. Held(records, s, w) \subseteq Keys
  BY BasketedKeys DEF Held, Holding
<1>. QED BY <1>1, KeysFinite, FS_Subset

LEMMA HeldGrows ==
  ASSUME NEW records, records \subseteq Records, NEW some \in SUBSET records, NEW s, NEW w
  PROVE  /\ Cardinality(Held(some, s, w)) <= Cardinality(Held(records, s, w))
         /\ Cardinality(Held(some, s, w)) \in Nat /\ Cardinality(Held(records, s, w)) \in Nat
<1>1. Held(some, s, w) \subseteq Held(records, s, w)
  BY BasketedGrows DEF PartOf, Held, Holding
<1>. QED BY <1>1, HeldFinite, FS_Subset, FS_CardinalityType

LEMMA AddedPart ==
  ASSUME NEW records, NEW b, NEW c, PartOf(b, records), PartOf(c, records)
  PROVE  PartOf(Added(b, c), records)
BY DEF PartOf, Added, At

LEMMA WindowPart ==
  ASSUME NEW records, NEW b, NEW t, PartOf(b, records)
  PROVE  /\ PartOf(InWindow(b, t), records)
         /\ \A k \in DOMAIN InWindow(b, t) : k[2] > t - Window
BY DEF PartOf, InWindow, Restrict

LEMMA CappedPart ==
  ASSUME NEW records, NEW b, NEW c \in Capped(b), PartOf(b, records)
  PROVE  PartOf(c, records)
<1>1. CASE Cardinality(DOMAIN b) <= MaxBaskets BY <1>1 DEF Capped
<1>2. CASE ~(Cardinality(DOMAIN b) <= MaxBaskets)
  <2>1. PICK out : c = Restrict(b, DOMAIN b \ out) BY <1>2 DEF Capped
  <2>. QED BY <2>1 DEF Restrict, PartOf
<1>. QED BY <1>1, <1>2

LEMMA InitSound == Init => BuffersSound /\ CountsNat /\ RowsNeverOver
BY DEF Init, BuffersSound, PartOf, CountsNat, RowsNeverOver

LEMMA StepSound == BuffersFinite /\ BuffersSound /\ [Next]_vars => BuffersSound'
<1>. SUFFICES ASSUME BuffersFinite, BuffersSound, [Next]_vars PROVE BuffersSound'
  OBVIOUS
<1>. USE DEF BuffersSound
<1>1. CASE Tick \/ Plan \/ Publish \/ PublishFails \/ Commit \/ UNCHANGED vars
  BY <1>1 DEF Tick, Plan, Publish, PublishFails, Commit, vars, PartOf
<1>2. CASE Absorb
  <2>. DEFINE added == Added(buffer, Basketed(batch))
              aged == InWindow(added, now)
  <2>1. /\ clock' = now /\ buffer' \in Capped(aged) /\ absorbed' = absorbed \union batch
        /\ UNCHANGED disk
    BY <1>2 DEF Absorb
  <2>2. absorbed' \subseteq Records BY <2>1 DEF BuffersFinite
  <2>3. PartOf(buffer, absorbed') /\ PartOf(Basketed(batch), absorbed')
    BY <2>1, PartOfGrows, BasketedGrows
  <2>4. PartOf(added, absorbed') BY <2>3, AddedPart
  <2>. HIDE DEF added
  <2>5. PartOf(aged, absorbed') /\ \A k \in DOMAIN aged : k[2] > now - Window
    BY <2>4, WindowPart
  <2>. HIDE DEF aged
  <2>6. PartOf(buffer', absorbed') BY <2>1, <2>5, CappedPart
  <2>7. \A k \in DOMAIN buffer' : k[2] > clock' - Window BY <2>1, <2>5, CappedKeys
  <2>8. disk' # None => PartOf(disk'.buffer, absorbed') BY <2>1, PartOfGrows
  <2>9. PartOf(buffer, absorbed)' /\ (disk' # None => PartOf(disk.buffer, absorbed)')
    BY <2>6, <2>8 DEF PartOf
  <2>. QED BY <2>2, <2>7, <2>9
<1>3. CASE Save
  <2>1. /\ UNCHANGED <<absorbed, buffer>> /\ pc' = "done"
        /\ disk' = disk \/ disk' = [lastRun |-> lastRun', buffer |-> buffer]
    BY <1>3 DEF Save
  <2>2. disk' # None => PartOf(disk'.buffer, absorbed) BY <2>1
  <2>3. PartOf(buffer, absorbed)' /\ (disk' # None => PartOf(disk.buffer, absorbed)')
    BY <2>1, <2>2 DEF PartOf
  <2>. QED BY <2>1, <2>3
<1>4. CASE Crash BY <1>4 DEF Crash, PartOf
<1>5. CASE Restart
  <2>1. /\ UNCHANGED <<absorbed, disk>> /\ pc' \in {"idle", "planned"}
        /\ buffer' = buffer \/ (disk # None /\ buffer' = disk.buffer)
    BY <1>5 DEF Restart
  <2>2. PartOf(buffer', absorbed) BY <2>1
  <2>. QED BY <2>1, <2>2 DEF PartOf
<1>. QED BY <1>1, <1>2, <1>3, <1>4, <1>5 DEF Next

\* The count of a row mined from b.
LEMMA MinedCount ==
  ASSUME NEW b, IsFiniteSet(DOMAIN b), NEW t, NEW k \in DOMAIN MinedRows(b, t)
  PROVE  k[1] = t - Window /\ MinedRows(b, t)[k] = Cardinality(Holding(b, k[3]))
<1>0. PICK c \in Algorithms : \E s \in DOMAIN Mined(b, c) : k = <<t - Window, c, s>>
  BY MinedRowsKeys
<1>1. PICK s \in DOMAIN Mined(b, c) : k = <<t - Window, c, s>> BY <1>0
<1>3. Mined(b, c) = BruteForce(b, Threshold(b)) BY MinedIsBruteForce
<1>4. MinedRows(b, t)[k] = Mined(b, c)[s] BY <1>1 DEF MinedRows
<1>5. Mined(b, c)[s] = Support(b, s) BY <1>3 DEF BruteForce
<1>. QED BY <1>1, <1>4, <1>5 DEF Support

LEMMA StepNeverOver ==
  BuffersFinite /\ BuffersSound /\ CountsNat /\ RowsNeverOver /\ BuffersSound' /\ [Next]_vars
    => CountsNat' /\ RowsNeverOver'
<1>. SUFFICES ASSUME BuffersFinite, BuffersSound, CountsNat, RowsNeverOver, BuffersSound',
                     [Next]_vars
              PROVE  CountsNat' /\ RowsNeverOver'
  OBVIOUS
<1>1. \A k \in DOMAIN table : table[k] <= Cardinality(Held(absorbed, k[3], k[1]))
  BY DEF RowsNeverOver, Held
<1>2. SUFFICES \A k \in DOMAIN table' :
        table'[k] \in Nat /\ table'[k] <= Cardinality(Held(absorbed', k[3], k[1]))
  BY DEF CountsNat, RowsNeverOver, Held, Holding, Basketed
<1>. USE DEF CountsNat
<1>3. CASE Publish
  <2>. DEFINE new == MinedRows(buffer, clock)
  <2>1. table' = Upserted(table, new) /\ pc = "mining" /\ absorbed' = absorbed
    BY <1>3 DEF Publish
  <2>2. ASSUME NEW k \in DOMAIN new
        PROVE  new[k] \in Nat /\ new[k] <= Cardinality(Held(absorbed, k[3], k[1]))
    <3>1. IsFiniteSet(DOMAIN buffer) BY BufferDomainFinite
    <3>2. k[1] = clock - Window /\ new[k] = Cardinality(Holding(buffer, k[3]))
      BY <3>1, MinedCount
    <3>. HIDE DEF new
    <3>3. Holding(buffer, k[3]) \subseteq Held(absorbed, k[3], k[1])
      BY <2>1, <3>2 DEF BuffersSound, PartOf, Holding, Held
    <3>4. IsFiniteSet(Held(absorbed, k[3], k[1])) BY HeldFinite DEF BuffersSound
    <3>5. Cardinality(Holding(buffer, k[3])) <= Cardinality(Held(absorbed, k[3], k[1]))
      BY <3>3, <3>4, FS_Subset
    <3>6. Cardinality(Holding(buffer, k[3])) \in Nat BY <3>1, HoldingFinite DEF Support
    <3>. QED BY <3>2, <3>5, <3>6
  <2>. HIDE DEF new
  <2>3. \A k \in DOMAIN table' :
          \/ k \in DOMAIN new /\ table'[k] = new[k]
          \/ k \in DOMAIN table /\ table'[k] = table[k]
    BY <2>1 DEF Upserted
  <2>. QED BY <1>1, <2>1, <2>2, <2>3
<1>4. CASE Absorb
  <2>1. UNCHANGED table /\ absorbed \subseteq absorbed' BY <1>4 DEF Absorb
  <2>2. ASSUME NEW k \in DOMAIN table
        PROVE  table[k] <= Cardinality(Held(absorbed', k[3], k[1]))
    <3>1. absorbed' \subseteq Records BY DEF BuffersSound
    <3>2. /\ Cardinality(Held(absorbed, k[3], k[1])) <= Cardinality(Held(absorbed', k[3], k[1]))
          /\ Cardinality(Held(absorbed, k[3], k[1])) \in Nat
          /\ Cardinality(Held(absorbed', k[3], k[1])) \in Nat
      BY <2>1, <3>1, HeldGrows
    <3>. QED BY <1>1, <3>2
  <2>. QED BY <2>1, <2>2
<1>5. CASE UNCHANGED <<table, absorbed>> BY <1>1, <1>5
<1>. QED BY <1>3, <1>4, <1>5
       DEF Next, vars, Tick, Plan, PublishFails, Save, Commit, Crash, Restart

\* However the batches are cut and replayed and whatever the cap and a crash drop, no row
\* of frequent_itemsets exceeds the number of baskets of its window that really held the
\* itemset (process_batch, itemsets.py 372-455).
THEOREM NeverOver == Spec => []RowsNeverOver
<1>1. Init => BuffersFinite /\ BuffersSound /\ CountsNat /\ RowsNeverOver
  BY InitFinite, InitSound
<1>2. BuffersFinite /\ BuffersSound /\ CountsNat /\ RowsNeverOver /\ [Next]_vars
        => (BuffersFinite /\ BuffersSound /\ CountsNat /\ RowsNeverOver)'
  BY StepFinite, StepSound, StepNeverOver
<1>. QED BY <1>1, <1>2, PTL DEF Spec

-----------------------------------------------------------------------------
(* A mining that has lost no basket publishes exactly the truth.           *)

LEMMA BasketedValue ==
  ASSUME NEW records, NEW k
  PROVE  /\ k \in DOMAIN Basketed(records) <=> \E r \in records : KeyOf(r) = k
         /\ At(Basketed(records), k) = {r.item : r \in {q \in records : KeyOf(q) = k}}
<1>1. DOMAIN Basketed(records) = {KeyOf(r) : r \in records} BY DEF Basketed
<1>2. CASE k \in DOMAIN Basketed(records) BY <1>1, <1>2 DEF At, Basketed
<1>3. CASE k \notin DOMAIN Basketed(records)
  <2>1. {q \in records : KeyOf(q) = k} = {} BY <1>1, <1>3
  <2>. QED BY <1>1, <1>3, <2>1 DEF At
<1>. QED BY <1>2, <1>3

LEMMA InWindowValue ==
  ASSUME NEW b, NEW t
  PROVE  /\ InWindow(b, t) = [k \in DOMAIN InWindow(b, t) |-> b[k]]
         /\ \A k : k \in DOMAIN InWindow(b, t) <=> k \in DOMAIN b /\ k[2] > t - Window
         /\ \A k \in DOMAIN InWindow(b, t) : InWindow(b, t)[k] = b[k]
BY DEF InWindow, Restrict

\* Absorbing b later than a gives what absorbing both at once would have given.
LEMMA AbsorbedTogether ==
  ASSUME NEW a, a \subseteq Records, NEW b, b \subseteq Records,
         NEW t \in Int, NEW u \in Int, t <= u
  PROVE  InWindow(Added(InWindow(Basketed(a), t), Basketed(b)), u)
           = InWindow(Basketed(a \union b), u)
<1>. DEFINE old == InWindow(Basketed(a), t)
            both == Added(old, Basketed(b))
            all == Basketed(a \union b)
<1>1. Window \in Nat BY BufferAssumption
<1>2. /\ \A k : k \in DOMAIN both <=> k \in DOMAIN old \/ k \in DOMAIN Basketed(b)
      /\ \A k \in DOMAIN both : both[k] = At(old, k) \union At(Basketed(b), k)
  BY DEF Added
<1>3. \A k : k \in DOMAIN all <=> k \in DOMAIN Basketed(a) \/ k \in DOMAIN Basketed(b)
  BY BasketedValue
<1>4. \A k : At(all, k) = At(Basketed(a), k) \union At(Basketed(b), k)
  <2>1. ASSUME NEW k PROVE At(all, k) = At(Basketed(a), k) \union At(Basketed(b), k)
    <3>1. {q \in a \union b : KeyOf(q) = k}
            = {q \in a : KeyOf(q) = k} \union {q \in b : KeyOf(q) = k}
      OBVIOUS
    <3>2. /\ At(all, k) = {r.item : r \in {q \in a \union b : KeyOf(q) = k}}
          /\ At(Basketed(a), k) = {r.item : r \in {q \in a : KeyOf(q) = k}}
          /\ At(Basketed(b), k) = {r.item : r \in {q \in b : KeyOf(q) = k}}
      BY BasketedValue
    <3>. QED BY <3>1, <3>2
  <2>. QED BY <2>1
<1>5. \A k : k \in DOMAIN old <=> k \in DOMAIN Basketed(a) /\ k[2] > t - Window
  BY InWindowValue
<1>6. \A k : k[2] > t - Window => At(old, k) = At(Basketed(a), k)
  BY <1>5, InWindowValue DEF At
<1>7. \A k \in DOMAIN all : k[2] \in Int
  <2>1. a \union b \subseteq Records OBVIOUS
  <2>2. DOMAIN all \subseteq Keys BY <2>1, BasketedKeys
  <2>. QED BY <2>2, BufferAssumption DEF Keys
<1>. HIDE DEF old, both, all
<1>8. \A k \in DOMAIN all : k[2] > u - Window => k[2] > t - Window BY <1>1, <1>7
<1>9. \A k : k \in DOMAIN InWindow(both, u) <=> k \in DOMAIN InWindow(all, u)
  <2>1. \A k : k \in DOMAIN InWindow(both, u) <=> k \in DOMAIN both /\ k[2] > u - Window
    BY InWindowValue
  <2>2. \A k : k \in DOMAIN InWindow(all, u) <=> k \in DOMAIN all /\ k[2] > u - Window
    BY InWindowValue
  <2>. QED BY <1>2, <1>3, <1>5, <1>8, <2>1, <2>2
<1>10. ASSUME NEW k \in DOMAIN InWindow(all, u)
       PROVE  InWindow(both, u)[k] = InWindow(all, u)[k]
  <2>1. k \in DOMAIN all /\ k[2] > u - Window /\ InWindow(all, u)[k] = all[k] BY InWindowValue
  <2>2. k \in DOMAIN both /\ InWindow(both, u)[k] = both[k] BY <1>9, InWindowValue
  <2>3. both[k] = At(Basketed(a), k) \union At(Basketed(b), k)
    BY <1>2, <1>6, <1>8, <2>1, <2>2
  <2>. QED BY <1>4, <2>1, <2>2, <2>3 DEF At
<1>11. DOMAIN InWindow(both, u) = DOMAIN InWindow(all, u) BY <1>9
<1>12. InWindow(both, u) = InWindow(all, u)
  <2>1. /\ InWindow(both, u) = [k \in DOMAIN InWindow(both, u) |-> InWindow(both, u)[k]]
        /\ InWindow(all, u) = [k \in DOMAIN InWindow(all, u) |-> InWindow(all, u)[k]]
    BY DEF InWindow, Restrict
  <2>. QED BY <1>10, <1>11, <2>1
<1>. QED BY <1>12 DEF old, both, all

\* While nothing was lost the buffer is the window of all records absorbed.
BufferExact ==
  /\ complete \in BOOLEAN /\ (pc = "down" => ~complete)
  /\ complete => buffer = InWindow(Basketed(absorbed), clock)

LEMMA InitExact == Init => BufferExact
<1>. SUFFICES ASSUME Init PROVE BufferExact
  OBVIOUS
<1>1. buffer = <<>> /\ absorbed = {} /\ complete = TRUE /\ pc = "idle" BY DEF Init
<1>2. DOMAIN Basketed(absorbed) = {} BY <1>1 DEF Basketed
<1>3. DOMAIN InWindow(Basketed(absorbed), clock) = {} BY <1>2 DEF InWindow, Restrict
<1>4. InWindow(Basketed(absorbed), clock) = <<>>
  <2>1. InWindow(Basketed(absorbed), clock)
          = [k \in DOMAIN InWindow(Basketed(absorbed), clock) |-> Basketed(absorbed)[k]]
    BY InWindowValue
  <2>. HIDE DEF InWindow
  <2>. QED BY <1>3, <2>1
<1>. QED BY <1>1, <1>4 DEF BufferExact

LEMMA StepExact ==
  BuffersFinite /\ BuffersSound /\ RowsPast /\ BufferExact /\ [Next]_vars => BufferExact'
<1>. SUFFICES ASSUME BuffersFinite, BuffersSound, RowsPast, BufferExact, [Next]_vars
              PROVE  BufferExact'
  OBVIOUS
<1>. USE DEF BufferExact
<1>1. CASE UNCHANGED <<complete, buffer, absorbed, clock>> /\ pc' # "down"
  BY <1>1 DEF InWindow, Basketed, Restrict
<1>2. CASE Absorb
  <2>. DEFINE aged == InWindow(Added(buffer, Basketed(batch)), now)
  <2>1. /\ clock' = now /\ buffer' \in Capped(aged) /\ absorbed' = absorbed \union batch
        /\ complete' = (complete /\ Cardinality(DOMAIN aged) <= MaxBaskets)
        /\ pc' \in {"done", "saving", "mining"}
    BY <1>2 DEF Absorb
  <2>2. ASSUME complete' PROVE buffer' = InWindow(Basketed(absorbed'), clock')
    <3>1. complete /\ Cardinality(DOMAIN aged) <= MaxBaskets BY <2>1, <2>2
    <3>2. buffer' = aged BY <2>1, <3>1 DEF Capped
    <3>3. buffer = InWindow(Basketed(absorbed), clock) BY <3>1
    <3>4. /\ absorbed \subseteq Records /\ batch \subseteq Records
          /\ clock \in Int /\ now \in Int /\ clock <= now
      BY DEF BuffersSound, BuffersFinite, RowsPast
    <3>5. aged = InWindow(Basketed(absorbed \union batch), now)
      BY <3>3, <3>4, AbsorbedTogether
    <3>. QED BY <2>1, <3>2, <3>5
  <2>3. complete' => buffer' = InWindow(Basketed(absorbed), clock)'
    BY <2>2 DEF InWindow, Basketed, Restrict
  <2>. QED BY <2>1, <2>3
<1>3. CASE Crash BY <1>3 DEF Crash
<1>4. CASE Restart BY <1>4 DEF Restart
<1>5. CASE UNCHANGED vars BY <1>5 DEF vars, InWindow, Basketed, Restrict
<1>. QED BY <1>1, <1>2, <1>3, <1>4, <1>5
       DEF Next, Tick, Plan, Publish, PublishFails, Save, Commit

LEMMA MinedRowsValue ==
  ASSUME NEW b, NEW t, NEW a \in Algorithms, NEW s \in DOMAIN Mined(b, a)
  PROVE  /\ <<t - Window, a, s>> \in DOMAIN MinedRows(b, t)
         /\ MinedRows(b, t)[<<t - Window, a, s>>] = Mined(b, a)[s]
<1>. DEFINE k == <<t - Window, a, s>>
<1>1. k \in DOMAIN MinedRows(b, t) BY MinedRowsKeys
<1>2. k[2] = a /\ k[3] = s OBVIOUS
<1>. HIDE DEF k
<1>3. MinedRows(b, t)[k] = Mined(b, a)[s] BY <1>1, <1>2 DEF MinedRows
<1>. QED BY <1>1, <1>3 DEF k

\* While no basket was lost, a mining writes the frequent itemsets of the window's records
\* and their counts, all of them and no other, under both algorithms, however the records
\* were cut into batches (process_batch and RollingBasketBuffer, itemsets.py 79-114, 372-455).
THEOREM Exact == Spec => PublishedExact
<1>. DEFINE Right ==
              table' # table /\ complete =>
                LET brute == InWindow(Basketed(absorbed), clock)
                    supports  == BruteForce(brute, Threshold(brute))
                IN \A a \in Algorithms :
                     /\ {k[3] : k \in {j \in DOMAIN table' : j[1] = clock - Window /\ j[2] = a}}
                          = DOMAIN supports
                     /\ \A s \in DOMAIN supports : table'[<<clock - Window, a, s>>] = supports[s]
<1>1. BuffersFinite /\ RowsPast /\ BufferExact /\ [Next]_vars => Right
  <2>. DEFINE brute == InWindow(Basketed(absorbed), clock)
              supports == BruteForce(brute, Threshold(brute))
  <2>. SUFFICES ASSUME BuffersFinite, RowsPast, BufferExact, [Next]_vars, table' # table,
                       complete, NEW a \in Algorithms
                PROVE  /\ {k[3] : k \in {j \in DOMAIN table' :
                                           j[1] = clock - Window /\ j[2] = a}} = DOMAIN supports
                       /\ \A s \in DOMAIN supports : table'[<<clock - Window, a, s>>] = supports[s]
    OBVIOUS
  <2>. DEFINE new == MinedRows(buffer, clock)
              row(s) == <<clock - Window, a, s>>
  <2>1. Publish
    BY DEF Next, vars, Tick, Plan, Absorb, PublishFails, Save, Commit, Crash, Restart
  <2>2. pc = "mining" /\ table' = Upserted(table, new) BY <2>1 DEF Publish
  <2>3. buffer = brute BY DEF BufferExact
  <2>4. \A c \in Algorithms : Mined(buffer, c) = supports
    BY <2>3, BufferDomainFinite, MinedIsBruteForce
  <2>. HIDE DEF brute, supports
  <2>5. \A s \in DOMAIN supports : row(s) \in DOMAIN new /\ new[row(s)] = supports[s]
    BY <2>4, MinedRowsValue
  <2>6. \A k \in DOMAIN new : k[1] = clock - Window /\ (k[2] = a => k[3] \in DOMAIN supports)
    BY <2>4, MinedRowsKeys
  <2>7. \A k \in DOMAIN table : k[1] # clock - Window
    <3>1. clock \in Int /\ Window \in Nat BY BufferAssumption DEF RowsPast
    <3>. QED BY <2>2, <3>1 DEF RowsPast
  <2>. HIDE DEF new
  <2>8. /\ DOMAIN table' = DOMAIN table \union DOMAIN new
        /\ \A k \in DOMAIN new : table'[k] = new[k]
    BY <2>2 DEF Upserted
  <2>9. \A s \in DOMAIN supports :
          row(s) \in {j \in DOMAIN table' : j[1] = clock - Window /\ j[2] = a}
    BY <2>5, <2>8
  <2>10. \A s : row(s)[3] = s OBVIOUS
  <2>. HIDE DEF row
  <2>11. {k[3] : k \in {j \in DOMAIN table' : j[1] = clock - Window /\ j[2] = a}} = DOMAIN supports
    <3>1. ASSUME NEW k \in DOMAIN table', k[1] = clock - Window, k[2] = a
          PROVE  k[3] \in DOMAIN supports
      BY <2>6, <2>7, <2>8, <3>1
    <3>2. \A s \in DOMAIN supports :
            \E k \in {j \in DOMAIN table' : j[1] = clock - Window /\ j[2] = a} : s = k[3]
      BY <2>9, <2>10
    <3>. QED BY <3>1, <3>2
  <2>12. \A s \in DOMAIN supports : table'[row(s)] = supports[s] BY <2>5, <2>8
  <2>. QED BY <2>11, <2>12 DEF row
<1>2. BuffersFinite /\ RowsPast /\ BufferExact /\ [Next]_vars => [Right]_vars BY <1>1
<1>. HIDE DEF Right
<1>3. Spec => [][Right]_vars
  <2>1. Init => BuffersFinite /\ BuffersSound /\ RowsPast /\ BufferExact
    BY InitFinite, InitSound, InitPast, InitExact
  <2>2. BuffersFinite /\ BuffersSound /\ RowsPast /\ BufferExact /\ [Next]_vars
          => (BuffersFinite /\ BuffersSound /\ RowsPast /\ BufferExact)'
    BY StepFinite, StepSound, StepPast, StepExact
  <2>. QED BY <1>2, <2>1, <2>2, PTL DEF Spec
<1>. QED BY <1>3, PTL DEF PublishedExact, Right

-----------------------------------------------------------------------------
(* Counting ones: P is the set of their positions.                         *)

Newer(P, x) == Cardinality({p \in P : p > x})

LEMMA NewerNat ==
  ASSUME NEW P, IsFiniteSet(P), NEW x
  PROVE  IsFiniteSet({p \in P : p > x}) /\ Newer(P, x) \in Nat /\ Newer(P, x) <= Cardinality(P)
<1>1. {p \in P : p > x} \in SUBSET P OBVIOUS
<1>2. IsFiniteSet({p \in P : p > x}) /\ Newer(P, x) <= Cardinality(P)
  BY <1>1, FS_Subset DEF Newer
<1>. QED BY <1>2, FS_CardinalityType DEF Newer

LEMMA NewerFalls ==
  ASSUME NEW P, IsFiniteSet(P), P \subseteq Nat, NEW x \in Int, NEW y \in Int, x <= y
  PROVE  Newer(P, y) <= Newer(P, x)
<1>1. {p \in P : p > y} \in SUBSET {p \in P : p > x}
  <2>1. \A p \in P : p > y => p > x OBVIOUS
  <2>. QED BY <2>1
<1>. QED BY <1>1, NewerNat, FS_Subset DEF Newer

\* A one at p is among those after an earlier position and not among those after p.
LEMMA NewerStrict ==
  ASSUME NEW P, IsFiniteSet(P), P \subseteq Nat, NEW x \in Int, NEW p \in P, x < p
  PROVE  Newer(P, p) < Newer(P, x)
<1>. DEFINE S == {q \in P : q > p}
            T == {q \in P : q > x}
<1>1. S \in SUBSET T /\ p \in T /\ p \notin S
  <2>1. \A q \in P : q > p => q > x OBVIOUS
  <2>2. ~(p > p) /\ p > x OBVIOUS
  <2>. QED BY <2>1, <2>2
<1>2. IsFiniteSet(S) /\ IsFiniteSet(T) BY NewerNat
<1>3. Cardinality(S) \in Nat /\ Cardinality(T) \in Nat BY <1>2, FS_CardinalityType
<1>4. Newer(P, p) = Cardinality(S) /\ Newer(P, x) = Cardinality(T) BY DEF Newer
<1>. HIDE DEF S, T
<1>5. Cardinality(S) <= Cardinality(T) /\ Cardinality(S) # Cardinality(T)
  BY <1>1, <1>2, FS_Subset
<1>. QED BY <1>3, <1>4, <1>5

\* A one newer than all others is newer than every position of the others.
LEMMA NewerAdded ==
  ASSUME NEW P, IsFiniteSet(P), P \subseteq Nat, NEW t \in Nat, \A p \in P : p < t,
         NEW x \in Int, x < t
  PROVE  Newer(P \union {t}, x) = Newer(P, x) + 1
<1>1. {p \in P \union {t} : p > x} = {p \in P : p > x} \union {t} OBVIOUS
<1>2. t \notin {p \in P : p > x} OBVIOUS
<1>3. IsFiniteSet({p \in P : p > x}) BY NewerNat
<1>. QED BY <1>1, <1>2, <1>3, FS_AddElement DEF Newer

-----------------------------------------------------------------------------
(* Buckets that count the ones of P.                                       *)

\* Every bucket ends at a one, and has as many ones as its size says; the oldest may have
\* fewer, when some have left the window.  A bucket is no larger than what is newer than it,
\* and one.
SoundBuckets(bs, P) ==
  /\ bs \in Seq(Bucket) /\ P \subseteq Nat /\ IsFiniteSet(P)
  /\ \A i \in 1..Len(bs) :
       /\ bs[i].ts \in P
       /\ bs[i].size = 1 \/ \E h \in Nat \ {0} : bs[i].size = 2 * h
       /\ bs[i].size <= Newer(P, bs[i].ts) + 1
  /\ \A i, j \in 1..Len(bs) : i < j => bs[i].ts > bs[j].ts
  /\ \A i \in 1 .. Len(bs) - 1 :
       Newer(P, bs[i + 1].ts) = Newer(P, bs[i].ts) + bs[i].size
  /\ Len(bs) = 0 => P = {}
  /\ Len(bs) # 0 => /\ Newer(P, bs[1].ts) = 0
                    /\ Cardinality(P) <= Newer(P, bs[Len(bs)].ts) + bs[Len(bs)].size

LEMMA BucketTyped ==
  ASSUME NEW bs \in Seq(Bucket), NEW i \in 1..Len(bs)
  PROVE  bs[i] \in Bucket /\ bs[i].ts \in Nat /\ bs[i].size \in Nat
<1>1. bs[i] \in Bucket OBVIOUS
<1>. QED BY <1>1 DEF Bucket

\* The list after the merge of the buckets i + 1 and i + 2.
MergedAt(bs, i) ==
  SubSeq(bs, 1, i) \o <<Merged(bs[i + 1], bs[i + 2])>> \o SubSeq(bs, i + 3, Len(bs))

LEMMA MergedAtElements ==
  ASSUME NEW bs \in Seq(Bucket), NEW i \in Nat \ {0}, i + 2 <= Len(bs)
  PROVE  /\ MergedAt(bs, i) \in Seq(Bucket) /\ Len(MergedAt(bs, i)) = Len(bs) - 1
         /\ \A j \in 1..i : MergedAt(bs, i)[j] = bs[j]
         /\ MergedAt(bs, i)[i + 1].ts = bs[i + 1].ts
         /\ MergedAt(bs, i)[i + 1].size = 2 * bs[i + 1].size
         /\ \A j \in i + 2 .. Len(bs) - 1 : MergedAt(bs, i)[j] = bs[j + 1]
<1>. DEFINE n == Len(bs)
            m == Merged(bs[i + 1], bs[i + 2])
            front == SubSeq(bs, 1, i)
            rest == SubSeq(bs, i + 3, n)
            new == front \o <<m>> \o rest
<1>1. n \in Nat OBVIOUS
<1>2. \A j \in 1..n : bs[j] \in Bucket /\ bs[j].ts \in Nat /\ bs[j].size \in Nat
  BY BucketTyped
<1>3. i \in 1..n /\ i + 1 \in 1..n /\ i + 2 \in 1..n BY <1>1
<1>4. m.ts = bs[i + 1].ts /\ m.size = 2 * bs[i + 1].size /\ m \in Bucket
  <2>1. bs[i + 1].ts \in Nat /\ bs[i + 1].size \in Nat BY <1>2, <1>3
  <2>2. m = [ts |-> bs[i + 1].ts, size |-> 2 * bs[i + 1].size] BY DEF Merged
  <2>3. m.ts = bs[i + 1].ts /\ m.size = 2 * bs[i + 1].size BY <2>2
  <2>. HIDE DEF m
  <2>4. 2 * bs[i + 1].size \in Nat BY <2>1
  <2>5. m \in Bucket BY <2>1, <2>2, <2>4 DEF Bucket
  <2>. QED BY <2>3, <2>5
<1>5. /\ front \in Seq(Bucket) /\ Len(front) = i
      /\ \A j \in 1..i : front[j] = bs[j]
  <2>1. \A j \in 1..i : bs[j] \in Bucket BY <1>1, <1>2
  <2>. QED BY <2>1, SubSeqProperties
<1>6. /\ rest \in Seq(Bucket) /\ Len(rest) = n - (i + 2)
      /\ \A j \in 1 .. n - (i + 2) : rest[j] = bs[(i + 2) + j]
  <2>1. \A j \in i + 3 .. n : bs[j] \in Bucket BY <1>1, <1>2
  <2>. QED BY <1>1, <2>1, SubSeqProperties
<1>7. /\ front \o <<m>> \in Seq(Bucket) /\ Len(front \o <<m>>) = i + 1
      /\ \A j \in 1..i : (front \o <<m>>)[j] = bs[j]
      /\ (front \o <<m>>)[i + 1] = m
  <2>1. i \in Nat OBVIOUS
  <2>. HIDE DEF front, m
  <2>2. <<m>> \in Seq(Bucket) /\ Len(<<m>>) = 1 /\ <<m>>[1] = m BY <1>4
  <2>3. /\ front \o <<m>> \in Seq(Bucket) /\ Len(front \o <<m>>) = i + 1
        /\ \A j \in 1 .. i + 1 : (front \o <<m>>)[j] = IF j <= i THEN front[j] ELSE <<m>>[j - i]
    BY <1>5, <2>2, ConcatProperties
  <2>4. i + 1 \in 1 .. i + 1 /\ ~(i + 1 <= i) /\ (i + 1) - i = 1 BY <2>1
  <2>5. (front \o <<m>>)[i + 1] = m BY <2>2, <2>3, <2>4
  <2>. QED BY <1>5, <2>1, <2>2, <2>3, <2>4, <2>5
<1>8. /\ new \in Seq(Bucket) /\ Len(new) = n - 1
      /\ \A j \in 1..i : new[j] = bs[j]
      /\ new[i + 1] = m
      /\ \A j \in i + 2 .. n - 1 : new[j] = bs[j + 1]
  <2>. DEFINE start == front \o <<m>>
  <2>1. /\ start \in Seq(Bucket) /\ Len(start) = i + 1 /\ start[i + 1] = m
        /\ \A j \in 1..i : start[j] = bs[j]
    BY <1>7
  <2>2. new = start \o rest OBVIOUS
  <2>. HIDE DEF start, rest, new, m, n
  <2>7. /\ new \in Seq(Bucket) /\ Len(new) = Len(start) + Len(rest)
        /\ \A j \in 1 .. Len(start) + Len(rest) :
             new[j] = IF j <= Len(start) THEN start[j] ELSE rest[j - Len(start)]
    BY <1>6, <2>1, <2>2, ConcatProperties
  <2>8. Len(start) + Len(rest) = n - 1 BY <1>1, <1>6, <2>1
  <2>3. /\ new \in Seq(Bucket) /\ Len(new) = n - 1
        /\ \A j \in 1 .. n - 1 : new[j] = IF j <= i + 1 THEN start[j] ELSE rest[j - (i + 1)]
    BY <2>1, <2>7, <2>8
  <2>4. \A j \in 1..i : new[j] = bs[j]
    <3>1. \A j \in 1..i : j \in 1 .. n - 1 /\ j <= i + 1 BY <1>1, <1>3
    <3>. QED BY <2>1, <2>3, <3>1
  <2>5. new[i + 1] = m BY <1>1, <1>3, <2>1, <2>3
  <2>6. \A j \in i + 2 .. n - 1 : new[j] = bs[j + 1]
    <3>1. \A j \in i + 2 .. n - 1 :
            j \in 1 .. n - 1 /\ ~(j <= i + 1) /\ j - (i + 1) \in 1 .. n - (i + 2)
      BY <1>1, <1>3
    <3>2. \A j \in i + 2 .. n - 1 : (i + 2) + (j - (i + 1)) = j + 1 BY <1>1
    <3>3. \A j \in i + 2 .. n - 1 : new[j] = rest[j - (i + 1)] BY <2>3, <3>1
    <3>. QED BY <1>6, <3>1, <3>2, <3>3
  <2>. QED BY <2>3, <2>4, <2>5, <2>6
<1>9. MergedAt(bs, i) = new BY DEF MergedAt
<1>. HIDE DEF new, m, n
<1>. QED BY <1>4, <1>8, <1>9 DEF n

\* Two neighbours of one size become one.
LEMMA MergeTwo ==
  ASSUME NEW bs, NEW P, SoundBuckets(bs, P), NEW i \in Nat \ {0}, i + 2 <= Len(bs),
         bs[i].size = bs[i + 1].size, bs[i + 1].size = bs[i + 2].size
  PROVE  SoundBuckets(MergedAt(bs, i), P)
<1>. DEFINE n == Len(bs)
            new == MergedAt(bs, i)
<1>1. bs \in Seq(Bucket) /\ n \in Nat /\ P \subseteq Nat /\ IsFiniteSet(P)
  BY DEF SoundBuckets
<1>2. \A j \in 1..n : bs[j] \in Bucket /\ bs[j].ts \in Nat /\ bs[j].size \in Nat
  BY <1>1, BucketTyped
<1>3. i \in 1..n /\ i + 1 \in 1..n /\ i + 2 \in 1..n /\ i \in 1 .. n - 1 /\ i + 1 \in 1 .. n - 1
  BY <1>1
<1>4. /\ new \in Seq(Bucket) /\ Len(new) = n - 1
      /\ \A j \in 1..i : new[j] = bs[j]
      /\ new[i + 1].ts = bs[i + 1].ts /\ new[i + 1].size = 2 * bs[i + 1].size
      /\ \A j \in i + 2 .. n - 1 : new[j] = bs[j + 1]
  BY <1>1, MergedAtElements
<1>. HIDE DEF new
\* The place in bs of what ends bucket j of the new list.
<1>. DEFINE at(j) == IF j <= i + 1 THEN j ELSE j + 1
<1>5. n - 1 \in Nat /\ \A j \in 1 .. n - 1 : at(j) \in 1..n BY <1>1, <1>3
<1>6. \A j \in 1 .. n - 1 : new[j].ts = bs[at(j)].ts
  <2>1. \A j \in 1 .. n - 1 : j \in 1..i \/ j = i + 1 \/ j \in i + 2 .. n - 1 BY <1>1, <1>3
  <2>. QED BY <1>3, <1>4, <2>1
<1>7. \A j \in 1 .. n - 1 : new[j].size = IF j = i + 1 THEN 2 * bs[i + 1].size ELSE bs[at(j)].size
  <2>1. \A j \in 1 .. n - 1 : j \in 1..i \/ j = i + 1 \/ j \in i + 2 .. n - 1 BY <1>1, <1>3
  <2>. QED BY <1>3, <1>4, <2>1
<1>8. \A j \in 1..n : Newer(P, bs[j].ts) \in Nat BY <1>1, NewerNat
<1>9. \A j \in 1 .. n - 1 : Newer(P, bs[j + 1].ts) = Newer(P, bs[j].ts) + bs[j].size
  BY DEF SoundBuckets
<1>10. \A j \in 1..n : bs[j].size <= Newer(P, bs[j].ts) + 1 BY DEF SoundBuckets
<1>11. \A j \in 1 .. n - 1 :
         /\ new[j].ts \in P
         /\ new[j].size = 1 \/ \E h \in Nat \ {0} : new[j].size = 2 * h
         /\ new[j].size <= Newer(P, new[j].ts) + 1
  <2>. TAKE j \in 1 .. n - 1
  <2>1. new[j].ts \in P BY <1>5, <1>6 DEF SoundBuckets
  <2>2. CASE j = i + 1
    <3>1. bs[i + 1].size \in Nat \ {0}
      <4>1. bs[i + 1].size = 1 \/ \E h \in Nat \ {0} : bs[i + 1].size = 2 * h
        BY <1>3 DEF SoundBuckets
      <4>. QED BY <4>1
    <3>2. Newer(P, bs[i + 1].ts) = Newer(P, bs[i].ts) + bs[i].size BY <1>3, <1>9
    <3>3. 2 * bs[i + 1].size <= Newer(P, bs[i + 1].ts) + 1
      <4>1. bs[i].size <= Newer(P, bs[i].ts) + 1 /\ Newer(P, bs[i].ts) \in Nat
        BY <1>3, <1>8, <1>10
      <4>. QED BY <3>1, <3>2, <4>1
    <3>4. new[j].size = 2 * bs[i + 1].size /\ new[j].ts = bs[i + 1].ts
      BY <1>6, <1>7, <2>2
    <3>. QED BY <2>1, <3>1, <3>3, <3>4
  <2>3. CASE j # i + 1
    <3>1. new[j].size = bs[at(j)].size /\ new[j].ts = bs[at(j)].ts BY <1>6, <1>7, <2>3
    <3>2. at(j) \in 1..n BY <1>5
    <3>. HIDE DEF at
    <3>. QED BY <2>1, <3>1, <3>2 DEF SoundBuckets
  <2>. QED BY <2>2, <2>3
<1>12. \A j, k \in 1 .. n - 1 : j < k => new[j].ts > new[k].ts
  <2>. TAKE j, k \in 1 .. n - 1
  <2>1. j < k => at(j) < at(k) BY <1>1
  <2>2. at(j) \in 1..n /\ at(k) \in 1..n BY <1>5
  <2>3. new[j].ts = bs[at(j)].ts /\ new[k].ts = bs[at(k)].ts BY <1>6
  <2>. HIDE DEF at
  <2>. QED BY <2>1, <2>2, <2>3 DEF SoundBuckets
<1>13. \A j \in 1 .. n - 2 : Newer(P, new[j + 1].ts) = Newer(P, new[j].ts) + new[j].size
  <2>. TAKE j \in 1 .. n - 2
  <2>1. j \in 1 .. n - 1 /\ j + 1 \in 1 .. n - 1 BY <1>1
  <2>2. CASE j = i + 1
    <3>1. at(j) = i + 1 /\ at(j + 1) = i + 3 /\ i + 2 \in 1 .. n - 1 BY <1>1, <1>3, <2>1, <2>2
    <3>2. Newer(P, bs[(i + 2) + 1].ts) = Newer(P, bs[i + 2].ts) + bs[i + 2].size
      BY <1>9, <3>1
    <3>3. Newer(P, bs[(i + 1) + 1].ts) = Newer(P, bs[i + 1].ts) + bs[i + 1].size
      BY <1>3, <1>9
    <3>4. (i + 2) + 1 = i + 3 /\ (i + 1) + 1 = i + 2 OBVIOUS
    <3>5. new[j].ts = bs[i + 1].ts /\ new[j + 1].ts = bs[i + 3].ts
      BY <1>6, <2>1, <3>1
    <3>6. new[j].size = 2 * bs[i + 1].size BY <1>7, <2>1, <2>2
    <3>7. bs[i + 1].size \in Nat /\ Newer(P, bs[i + 1].ts) \in Nat BY <1>2, <1>3, <1>8
    <3>. QED BY <3>2, <3>3, <3>4, <3>5, <3>6, <3>7
  <2>3. CASE j # i + 1
    <3>1. at(j) \in 1 .. n - 1 /\ at(j + 1) = at(j) + 1 BY <1>1, <1>3, <2>1, <2>3
    <3>2. /\ new[j].ts = bs[at(j)].ts /\ new[j].size = bs[at(j)].size
          /\ new[j + 1].ts = bs[at(j + 1)].ts
      BY <1>6, <1>7, <2>1, <2>3
    <3>. HIDE DEF at
    <3>. QED BY <1>9, <3>1, <3>2
  <2>. QED BY <2>2, <2>3
<1>14. Newer(P, new[1].ts) = 0
  <2>1. at(1) = 1 /\ 1 \in 1 .. n - 1 BY <1>1, <1>3
  <2>2. new[1].ts = bs[1].ts BY <1>6, <2>1
  <2>3. Newer(P, bs[1].ts) = 0 BY <1>1, <1>3 DEF SoundBuckets
  <2>. QED BY <2>2, <2>3
<1>15. Cardinality(P) <= Newer(P, new[n - 1].ts) + new[n - 1].size
  <2>1. Cardinality(P) <= Newer(P, bs[n].ts) + bs[n].size BY <1>1, <1>3 DEF SoundBuckets
  <2>2. n - 1 \in 1 .. n - 1 BY <1>1, <1>3
  <2>3. CASE n - 1 = i + 1
    <3>1. new[n - 1].ts = bs[i + 1].ts /\ new[n - 1].size = 2 * bs[i + 1].size
      BY <1>6, <1>7, <2>2, <2>3
    <3>2. Newer(P, bs[(i + 1) + 1].ts) = Newer(P, bs[i + 1].ts) + bs[i + 1].size
      BY <1>3, <1>9
    <3>3. (i + 1) + 1 = n /\ i + 2 = n BY <1>1, <2>3
    <3>4. bs[i + 1].size \in Nat /\ Newer(P, bs[i + 1].ts) \in Nat BY <1>2, <1>3, <1>8
    <3>. QED BY <2>1, <3>1, <3>2, <3>3, <3>4
  <2>4. CASE n - 1 # i + 1
    <3>1. at(n - 1) = n BY <1>1, <1>3, <2>4
    <3>2. new[n - 1].ts = bs[n].ts /\ new[n - 1].size = bs[n].size
      BY <1>6, <1>7, <2>2, <2>4, <3>1
    <3>. QED BY <2>1, <3>2
  <2>. QED BY <2>3, <2>4
<1>16. Len(new) - 1 = n - 2 /\ Len(new) # 0 BY <1>1, <1>3, <1>4
<1>17. SoundBuckets(new, P)
  <2>. HIDE DEF n, at
  <2>. QED BY <1>1, <1>4, <1>11, <1>12, <1>13, <1>14, <1>15, <1>16 DEF SoundBuckets
<1>. QED BY <1>17 DEF new

Walkers == [bs : Seq(Bucket), i : Nat \ {0}]

\* Three neighbours of one size, from i on.
Triple(bs, i) ==
  i + 2 <= Len(bs) /\ bs[i].size = bs[i + 1].size /\ bs[i + 1].size = bs[i + 2].size

LEMMA RoundCases ==
  ASSUME NEW w \in Walkers
  PROVE  \/ w.i + 2 > Len(w.bs) /\ Round(w) = w
         \/ /\ Triple(w.bs, w.i)
            /\ Round(w) = [bs |-> MergedAt(w.bs, w.i), i |-> IF w.i = 1 THEN 1 ELSE w.i - 1]
         \/ /\ w.i + 2 <= Len(w.bs) /\ ~Triple(w.bs, w.i)
            /\ Round(w) = [bs |-> w.bs, i |-> w.i + 1]
<1>. DEFINE bs == w.bs
            i == w.i
            three == bs[i].size = bs[i + 1].size /\ bs[i + 1].size = bs[i + 2].size
<1>1. i \in Nat \ {0} /\ bs \in Seq(Bucket) /\ Len(bs) \in Nat BY DEF Walkers
<1>2. CASE i + 2 > Len(bs)
  <2>1. Round(w) = w BY <1>2, Zenon DEF Round
  <2>. QED BY <1>2, <2>1
<1>3. CASE ~(i + 2 > Len(bs)) /\ three
  <2>1. Round(w) = [bs |-> MergedAt(bs, i), i |-> IF i = 1 THEN 1 ELSE i - 1]
    BY <1>3, Zenon DEF Round, MergedAt
  <2>2. Triple(bs, i) BY <1>1, <1>3 DEF Triple
  <2>. QED BY <2>1, <2>2, Zenon
<1>4. CASE ~(i + 2 > Len(bs)) /\ ~three
  <2>1. Round(w) = [w EXCEPT !.i = i + 1] BY <1>4, Zenon DEF Round
  <2>2. w = [bs |-> w.bs, i |-> w.i] BY DEF Walkers
  <2>3. Round(w) = [bs |-> w.bs, i |-> w.i + 1] BY <2>1, <2>2
  <2>4. i + 2 <= Len(bs) /\ ~Triple(bs, i) BY <1>1, <1>4 DEF Triple
  <2>. QED BY <2>3, <2>4, Zenon
<1>. QED BY <1>2, <1>3, <1>4

LEMMA RoundSound ==
  ASSUME NEW P, NEW w \in Walkers, SoundBuckets(w.bs, P)
  PROVE  Round(w) \in Walkers /\ SoundBuckets(Round(w).bs, P)
<1>1. w.i \in Nat \ {0} /\ w.bs \in Seq(Bucket) BY DEF Walkers
<1>2. CASE Round(w) = w BY <1>2
<1>3. ASSUME Triple(w.bs, w.i),
             Round(w) = [bs |-> MergedAt(w.bs, w.i), i |-> IF w.i = 1 THEN 1 ELSE w.i - 1]
      PROVE  Round(w) \in Walkers /\ SoundBuckets(Round(w).bs, P)
  <2>1. SoundBuckets(MergedAt(w.bs, w.i), P) BY <1>1, <1>3, MergeTwo DEF Triple
  <2>2. (IF w.i = 1 THEN 1 ELSE w.i - 1) \in Nat \ {0} BY <1>1
  <2>3. MergedAt(w.bs, w.i) \in Seq(Bucket) BY <2>1, Zenon DEF SoundBuckets
  <2>. QED BY <1>3, <2>1, <2>2, <2>3 DEF Walkers
<1>4. ASSUME Round(w) = [bs |-> w.bs, i |-> w.i + 1]
      PROVE  Round(w) \in Walkers /\ SoundBuckets(Round(w).bs, P)
  <2>1. w.i + 1 \in Nat \ {0} BY <1>1
  <2>. QED BY <1>1, <1>4, <2>1 DEF Walkers
<1>. QED BY <1>2, <1>3, <1>4, RoundCases

\* f holds the rounds of the loop on bs.
Walks(f, bs, m) ==
  f = [n \in 0..m |-> IF n = 0 THEN [bs |-> bs, i |-> 1] ELSE Round(f[n - 1])]

LEMMA WalkExists ==
  ASSUME NEW bs, NEW m \in Nat
  PROVE  \E f : Walks(f, bs, m)
<1>. DEFINE Bad == {n \in Nat : ~ \E f : Walks(f, bs, n)}
<1>1. SUFFICES ASSUME Bad # {} PROVE FALSE
  OBVIOUS
<1>2. PICK k \in Bad : \A z \in Bad : ~(<<z, k>> \in OpToRel(<, Nat))
  BY <1>1, WFMin, NatLessThanWellFounded
<1>3. k \in Nat /\ \A z \in Nat : z < k => \E f : Walks(f, bs, z)
  BY <1>2 DEF OpToRel
<1>4. \E f : Walks(f, bs, k)
  <2>1. CASE k = 0
    <3>1. Walks([n \in 0..k |-> [bs |-> bs, i |-> 1]], bs, k) BY <2>1 DEF Walks
    <3>. QED BY <3>1
  <2>2. CASE k # 0
    <3>1. k - 1 \in Nat /\ k - 1 < k BY <1>3, <2>2
    <3>2. PICK f : Walks(f, bs, k - 1) BY <1>3, <3>1
    <3>. DEFINE v(n) == IF n = 0 THEN [bs |-> bs, i |-> 1] ELSE Round(f[n - 1])
                g == [n \in 0..k |-> v(n)]
    <3>3. \A n \in 0 .. k - 1 : f[n] = v(n) BY <3>2, Zenon DEF Walks
    <3>4. \A n \in 0..k : g[n] = v(n) OBVIOUS
    <3>. HIDE DEF g
    <3>5. \A n \in 0..k : n # 0 => g[n - 1] = f[n - 1]
      <4>. HIDE DEF v
      <4>1. \A n \in 0..k : n # 0 => n - 1 \in 0..k /\ n - 1 \in 0 .. k - 1 BY <1>3
      <4>. QED BY <3>3, <3>4, <4>1
    <3>6. \A n \in 0..k : g[n] = IF n = 0 THEN [bs |-> bs, i |-> 1] ELSE Round(g[n - 1])
      BY <3>4, <3>5
    <3>7. g = [n \in 0..k |-> g[n]] BY DEF g
    <3>8. Walks(g, bs, k) BY <3>6, <3>7 DEF Walks
    <3>. QED BY <3>8
  <2>. QED BY <2>1, <2>2
<1>. QED BY <1>2, <1>4

LEMMA WalkSound ==
  ASSUME NEW P, NEW bs, SoundBuckets(bs, P), NEW m \in Nat, NEW f, Walks(f, bs, m)
  PROVE  \A n \in 0..m : f[n] \in Walkers /\ SoundBuckets(f[n].bs, P)
<1>. DEFINE Good(n) == f[n] \in Walkers /\ SoundBuckets(f[n].bs, P)
            Bad == {n \in Nat : n \in 0..m /\ ~Good(n)}
<1>1. SUFFICES ASSUME Bad # {} PROVE FALSE
  OBVIOUS
<1>2. PICK k \in Bad : \A z \in Bad : ~(<<z, k>> \in OpToRel(<, Nat))
  BY <1>1, WFMin, NatLessThanWellFounded
<1>3. k \in Nat /\ k \in 0..m /\ ~Good(k) OBVIOUS
<1>4. \A z \in 0..m : z < k => Good(z)
  <2>1. \A z \in Bad : ~(z < k)
    <3>1. Bad \subseteq Nat OBVIOUS
    <3>. HIDE DEF Bad
    <3>. QED BY <1>2, <1>3, <3>1 DEF OpToRel
  <2>. QED BY <2>1
<1>. HIDE DEF Bad
<1>5. f[k] = IF k = 0 THEN [bs |-> bs, i |-> 1] ELSE Round(f[k - 1])
  BY <1>3, Zenon DEF Walks
<1>6. CASE k = 0
  <2>1. f[k] = [bs |-> bs, i |-> 1] BY <1>5, <1>6
  <2>2. bs \in Seq(Bucket) BY DEF SoundBuckets
  <2>3. f[k] \in Walkers /\ f[k].bs = bs BY <2>1, <2>2 DEF Walkers
  <2>. QED BY <1>3, <2>3
<1>7. CASE k # 0
  <2>1. k - 1 \in 0..m /\ k - 1 < k BY <1>3, <1>7
  <2>2. Good(k - 1) BY <1>4, <2>1
  <2>3. f[k] = Round(f[k - 1]) BY <1>5, <1>7
  <2>4. Good(k) BY <2>2, <2>3, RoundSound
  <2>. QED BY <1>3, <2>4
<1>. QED BY <1>6, <1>7

LEMMA MergeSound ==
  ASSUME NEW P, NEW bs, SoundBuckets(bs, P)
  PROVE  SoundBuckets(MergeBuckets(bs), P)
<1>. DEFINE m == 2 * Len(bs)
            f == CHOOSE h : h = [n \in 0..m |-> IF n = 0 THEN [bs |-> bs, i |-> 1]
                                                ELSE Round(h[n - 1])]
<1>1. m \in Nat /\ m \in 0..m BY DEF SoundBuckets
<1>2. Walks(f, bs, m)
  <2>1. \E h : h = [n \in 0..m |-> IF n = 0 THEN [bs |-> bs, i |-> 1] ELSE Round(h[n - 1])]
    BY <1>1, WalkExists DEF Walks
  <2>2. f = [n \in 0..m |-> IF n = 0 THEN [bs |-> bs, i |-> 1] ELSE Round(f[n - 1])] BY <2>1
  <2>. QED BY <2>2 DEF Walks
<1>3. MergeBuckets(bs) = f[m].bs BY DEF MergeBuckets
<1>. HIDE DEF f, m
<1>4. SoundBuckets(f[m].bs, P) BY <1>1, <1>2, WalkSound
<1>. QED BY <1>3, <1>4, Zenon

LEMMA MaxOfInterval ==
  ASSUME NEW n \in Nat, NEW S, S \subseteq 0..n, S # {}
  PROVE  Max(S) \in S /\ \A x \in S : x <= Max(S)
<1>. DEFINE T == {n - x : x \in S}
<1>1. T # {} /\ T \subseteq Nat
  <2>1. \A x \in S : x \in 0..n OBVIOUS
  <2>2. \A x \in 0..n : n - x \in Nat OBVIOUS
  <2>. QED BY <2>1, <2>2
<1>2. PICK k \in T : \A z \in T : ~(<<z, k>> \in OpToRel(<, Nat))
  <2>. HIDE DEF T
  <2>. QED BY <1>1, WFMin, NatLessThanWellFounded
<1>3. \A z \in T : ~(z < k)
  <2>. HIDE DEF T
  <2>. QED BY <1>1, <1>2 DEF OpToRel
<1>4. PICK m \in S : k = n - m OBVIOUS
<1>5. \A x \in S : x <= m
  <2>1. \A x \in S : ~(n - x < n - m) BY <1>3, <1>4
  <2>2. m \in Int /\ \A x \in S : x \in Int OBVIOUS
  <2>. QED BY <2>1, <2>2
<1>6. \A x \in S : m >= x
  <2>1. m \in Int /\ \A x \in S : x \in Int OBVIOUS
  <2>. QED BY <1>5, <2>1
<1>7. Max(S) \in S /\ \A x \in S : Max(S) >= x BY <1>6, Zenon DEF Max
<1>8. \A x \in S : x \in Int OBVIOUS
<1>. QED BY <1>7, <1>8

\* The buckets that are left are a first part of them.
LEMMA UnexpiredPrefix ==
  ASSUME NEW bs, NEW P, SoundBuckets(bs, P), NEW cutoff \in Int
  PROVE  \E m \in 0..Len(bs) :
           /\ Unexpired(bs, cutoff) = SubSeq(bs, 1, m)
           /\ \A i \in 1..m : bs[i].ts > cutoff
           /\ \A i \in m + 1 .. Len(bs) : bs[i].ts <= cutoff
<1>. DEFINE n == Len(bs)
            S == {0} \union {i \in DOMAIN bs : bs[i].ts > cutoff}
            m == Max(S)
<1>1. bs \in Seq(Bucket) /\ n \in Nat /\ DOMAIN bs = 1..n BY DEF SoundBuckets
<1>2. \A i \in 1..n : bs[i].ts \in Nat BY <1>1, BucketTyped
<1>3. S \subseteq 0..n /\ 0 \in S BY <1>1
<1>4. m \in S /\ \A x \in S : x <= m
  <2>. HIDE DEF S
  <2>. QED BY <1>1, <1>3, MaxOfInterval
<1>5. Unexpired(bs, cutoff) = SubSeq(bs, 1, m) BY DEF Unexpired
<1>. HIDE DEF m
<1>6. m \in 0..n BY <1>3, <1>4
<1>7. \A i \in 1..m : bs[i].ts > cutoff
  <2>. TAKE i \in 1..m
  <2>1. m \in 1..n /\ i \in 1..n /\ (i = m \/ i < m) BY <1>1, <1>6
  <2>2. bs[m].ts > cutoff
    <3>1. m # 0 BY <2>1
    <3>. QED BY <1>4, <3>1
  <2>3. i < m => bs[i].ts > bs[m].ts BY <2>1 DEF SoundBuckets
  <2>4. bs[i].ts \in Nat /\ bs[m].ts \in Nat BY <1>2, <2>1
  <2>. QED BY <2>1, <2>2, <2>3, <2>4
<1>8. \A i \in m + 1 .. n : bs[i].ts <= cutoff
  <2>. TAKE i \in m + 1 .. n
  <2>1. i \in 1..n /\ ~(i <= m) BY <1>1, <1>6
  <2>2. i \notin S BY <1>4, <2>1
  <2>3. ~(bs[i].ts > cutoff) BY <1>1, <2>1, <2>2
  <2>. QED BY <1>2, <2>1, <2>3
<1>. QED BY <1>5, <1>6, <1>7, <1>8

\* What has left the window leaves the buckets sound for what has not.
LEMMA ExpireSound ==
  ASSUME NEW bs, NEW P, SoundBuckets(bs, P), NEW cutoff \in Int
  PROVE  SoundBuckets(Unexpired(bs, cutoff), {p \in P : p > cutoff})
<1>. DEFINE n == Len(bs)
            Q == {p \in P : p > cutoff}
<1>1. /\ bs \in Seq(Bucket) /\ n \in Nat /\ P \subseteq Nat /\ IsFiniteSet(P)
      /\ \A i \in 1..n : bs[i].ts \in Nat /\ bs[i].size \in Nat
  <2>1. bs \in Seq(Bucket) /\ n \in Nat /\ P \subseteq Nat /\ IsFiniteSet(P)
    BY DEF SoundBuckets
  <2>. QED BY <2>1, BucketTyped
<1>2. PICK m \in 0..n : /\ Unexpired(bs, cutoff) = SubSeq(bs, 1, m)
                        /\ \A i \in 1..m : bs[i].ts > cutoff
                        /\ \A i \in m + 1 .. n : bs[i].ts <= cutoff
  BY UnexpiredPrefix
<1>. DEFINE new == SubSeq(bs, 1, m)
<1>3. /\ new \in Seq(Bucket) /\ Len(new) = m
      /\ \A i \in 1..m : new[i] = bs[i]
  <2>1. \A i \in 1..m : bs[i] \in Bucket BY <1>1
  <2>. QED BY <1>1, <2>1, SubSeqProperties
<1>4. Q \subseteq Nat /\ IsFiniteSet(Q) BY <1>1, NewerNat
<1>5. \A i \in 1..m : Newer(Q, bs[i].ts) = Newer(P, bs[i].ts)
  <2>. TAKE i \in 1..m
  <2>1. bs[i].ts > cutoff /\ bs[i].ts \in Nat BY <1>1, <1>2
  <2>2. \A p \in P : p > bs[i].ts => p > cutoff BY <1>1, <2>1
  <2>3. {p \in Q : p > bs[i].ts} = {p \in P : p > bs[i].ts} BY <2>2
  <2>. QED BY <2>3, Zenon DEF Newer
<1>6. \A i \in 1..m : i \in 1..n BY <1>1
<1>7. \A i \in 1..m :
        /\ new[i].ts \in Q
        /\ new[i].size = 1 \/ \E h \in Nat \ {0} : new[i].size = 2 * h
        /\ new[i].size <= Newer(Q, new[i].ts) + 1
  <2>. TAKE i \in 1..m
  <2>1. i \in 1..n /\ new[i] = bs[i] BY <1>3, <1>6
  <2>2. /\ bs[i].ts \in P
        /\ bs[i].size = 1 \/ \E h \in Nat \ {0} : bs[i].size = 2 * h
        /\ bs[i].size <= Newer(P, bs[i].ts) + 1
    BY <2>1, Zenon DEF SoundBuckets
  <2>. HIDE DEF new
  <2>3. new[i].ts \in Q BY <1>2, <2>1, <2>2
  <2>4. Newer(Q, new[i].ts) = Newer(P, bs[i].ts) BY <1>5, <2>1
  <2>. QED BY <2>1, <2>2, <2>3, <2>4
<1>8. \A i, j \in 1..m : i < j => new[i].ts > new[j].ts
  <2>1. \A i, j \in 1..m : i < j => bs[i].ts > bs[j].ts BY <1>6 DEF SoundBuckets
  <2>. HIDE DEF new
  <2>. QED BY <1>3, <2>1
<1>9. \A i \in 1 .. m - 1 : Newer(Q, new[i + 1].ts) = Newer(Q, new[i].ts) + new[i].size
  <2>. TAKE i \in 1 .. m - 1
  <2>1. i \in 1..m /\ i + 1 \in 1..m /\ i \in 1 .. n - 1 BY <1>1
  <2>2. Newer(P, bs[i + 1].ts) = Newer(P, bs[i].ts) + bs[i].size
    BY <2>1 DEF SoundBuckets
  <2>. HIDE DEF new
  <2>. QED BY <1>3, <1>5, <2>1, <2>2
<1>10. Newer(P, cutoff) = Cardinality(Q) /\ Cardinality(Q) \in Nat /\ Cardinality(Q) <= Cardinality(P)
  BY <1>1, NewerNat DEF Newer
<1>11. m # n => Cardinality(Q) <= Newer(P, bs[m + 1].ts)
  <2>1. m # n => m + 1 \in m + 1 .. n /\ m + 1 \in 1..n BY <1>1
  <2>2. ASSUME m # n PROVE Newer(P, cutoff) <= Newer(P, bs[m + 1].ts)
    <3>1. bs[m + 1].ts \in Int /\ bs[m + 1].ts <= cutoff BY <1>1, <1>2, <2>1, <2>2
    <3>. QED BY <1>1, <3>1, NewerFalls
  <2>. QED BY <1>10, <2>2
<1>12. m = 0 => Q = {}
  <2>1. CASE m = 0 /\ n = 0
    <3>1. P = {} BY <2>1 DEF SoundBuckets
    <3>. QED BY <3>1
  <2>2. CASE m = 0 /\ n # 0
    <3>1. Newer(P, bs[1].ts) = 0 BY <2>2 DEF SoundBuckets
    <3>2. Cardinality(Q) = 0 BY <1>10, <1>11, <2>2, <3>1
    <3>. HIDE DEF Q
    <3>. QED BY <1>4, <3>2, FS_EmptySet
  <2>. QED BY <2>1, <2>2
<1>13. m # 0 => Newer(Q, new[1].ts) = 0
  <2>. SUFFICES ASSUME m # 0 PROVE Newer(Q, new[1].ts) = 0
    OBVIOUS
  <2>1. 1 \in 1..m /\ n # 0 BY <1>1
  <2>2. Newer(P, bs[1].ts) = 0 BY <2>1 DEF SoundBuckets
  <2>. HIDE DEF new
  <2>. QED BY <1>3, <1>5, <2>1, <2>2
<1>14. m # 0 => Cardinality(Q) <= Newer(Q, new[m].ts) + new[m].size
  <2>. SUFFICES ASSUME m # 0 PROVE Cardinality(Q) <= Newer(Q, new[m].ts) + new[m].size
    OBVIOUS
  <2>1. m \in 1..m /\ n # 0 BY <1>1
  <2>2. Newer(Q, new[m].ts) = Newer(P, bs[m].ts) /\ new[m].size = bs[m].size
    BY <1>3, <1>5, <2>1
  <2>3. CASE m = n
    <3>1. Cardinality(P) <= Newer(P, bs[n].ts) + bs[n].size BY <2>1 DEF SoundBuckets
    <3>2. Cardinality(P) \in Nat BY <1>1, FS_CardinalityType
    <3>3. Newer(P, bs[n].ts) \in Nat /\ bs[n].size \in Nat BY <1>1, <2>1, <2>3, NewerNat
    <3>. HIDE DEF new, Q
    <3>. QED BY <1>10, <2>2, <2>3, <3>1, <3>2, <3>3
  <2>4. CASE m # n
    <3>1. m \in 1 .. n - 1 BY <1>1, <2>1, <2>4
    <3>2. Newer(P, bs[m + 1].ts) = Newer(P, bs[m].ts) + bs[m].size
      BY <3>1 DEF SoundBuckets
    <3>. HIDE DEF new, Q
    <3>. QED BY <1>11, <2>2, <2>4, <3>2
  <2>. QED BY <2>3, <2>4
<1>15. SoundBuckets(new, Q)
  <2>. HIDE DEF new, Q
  <2>. QED BY <1>3, <1>4, <1>7, <1>8, <1>9, <1>12, <1>13, <1>14 DEF SoundBuckets
<1>. QED BY <1>2, <1>15

\* A new one has a bucket of its own.
LEMMA PrependSound ==
  ASSUME NEW bs, NEW P, SoundBuckets(bs, P), NEW t \in Nat, \A p \in P : p < t
  PROVE  SoundBuckets(<<[ts |-> t, size |-> 1]>> \o bs, P \union {t})
<1>. DEFINE n == Len(bs)
            b == [ts |-> t, size |-> 1]
            new == <<b>> \o bs
            Q == P \union {t}
<1>1. /\ bs \in Seq(Bucket) /\ n \in Nat /\ P \subseteq Nat /\ IsFiniteSet(P)
      /\ \A i \in 1..n : bs[i].ts \in Nat /\ bs[i].size \in Nat
  <2>1. bs \in Seq(Bucket) /\ n \in Nat /\ P \subseteq Nat /\ IsFiniteSet(P)
    BY DEF SoundBuckets
  <2>. QED BY <2>1, BucketTyped
<1>2. /\ new \in Seq(Bucket) /\ Len(new) = n + 1 /\ new[1] = b
      /\ \A i \in 1..n : new[i + 1] = bs[i]
  <2>1. <<b>> \in Seq(Bucket) /\ Len(<<b>>) = 1 /\ <<b>>[1] = b BY DEF Bucket
  <2>. HIDE DEF b
  <2>2. /\ new \in Seq(Bucket) /\ Len(new) = 1 + n
        /\ \A i \in 1 .. 1 + n : new[i] = IF i <= 1 THEN <<b>>[i] ELSE bs[i - 1]
    BY <1>1, <2>1, ConcatProperties
  <2>. HIDE DEF new
  <2>3. new[1] = b BY <1>1, <2>1, <2>2
  <2>4. \A i \in 1..n : i + 1 \in 1 .. 1 + n /\ ~(i + 1 <= 1) /\ (i + 1) - 1 = i BY <1>1
  <2>5. \A i \in 1..n : new[i + 1] = bs[i] BY <2>2, <2>4
  <2>. QED BY <1>1, <2>2, <2>3, <2>5
<1>3. Q \subseteq Nat /\ IsFiniteSet(Q) /\ Cardinality(Q) = Cardinality(P) + 1
  <2>1. t \notin P OBVIOUS
  <2>. QED BY <1>1, <2>1, FS_AddElement
<1>4. Newer(Q, t) = 0
  <2>1. \A p \in P : p \in Nat /\ p < t BY <1>1
  <2>2. \A p \in Q : ~(p > t) BY <2>1
  <2>3. {p \in Q : p > t} = {} BY <2>2
  <2>. QED BY <2>3, FS_EmptySet, Zenon DEF Newer
<1>5. \A i \in 1..n : bs[i].ts < t /\ Newer(Q, bs[i].ts) = Newer(P, bs[i].ts) + 1
  <2>1. \A i \in 1..n : bs[i].ts \in P BY DEF SoundBuckets
  <2>2. \A i \in 1..n : bs[i].ts \in Int /\ bs[i].ts < t BY <1>1, <2>1
  <2>3. \A i \in 1..n : Newer(P \union {t}, bs[i].ts) = Newer(P, bs[i].ts) + 1
    BY <1>1, <2>2, NewerAdded
  <2>. QED BY <2>2, <2>3
<1>6. \A i \in 1..n : Newer(P, bs[i].ts) \in Nat BY <1>1, NewerNat
<1>7. b.ts = t /\ b.size = 1 OBVIOUS
<1>8. \A i \in 1 .. n + 1 : i = 1 \/ \E j \in 1..n : i = j + 1
  <2>1. \A i \in 1 .. n + 1 : i = 1 \/ (i - 1 \in 1..n /\ i = (i - 1) + 1) BY <1>1
  <2>. QED BY <2>1
<1>. HIDE DEF b, new, Q
<1>9. \A i \in 1 .. n + 1 :
        /\ new[i].ts \in Q
        /\ new[i].size = 1 \/ \E h \in Nat \ {0} : new[i].size = 2 * h
        /\ new[i].size <= Newer(Q, new[i].ts) + 1
  <2>. TAKE i \in 1 .. n + 1
  <2>1. CASE i = 1 BY <1>2, <1>4, <1>7, <2>1 DEF Q
  <2>2. ASSUME NEW j \in 1..n, i = j + 1
        PROVE  /\ new[i].ts \in Q
               /\ new[i].size = 1 \/ \E h \in Nat \ {0} : new[i].size = 2 * h
               /\ new[i].size <= Newer(Q, new[i].ts) + 1
    <3>1. new[i] = bs[j] BY <1>2, <2>2
    <3>2. /\ bs[j].ts \in P
          /\ bs[j].size = 1 \/ \E h \in Nat \ {0} : bs[j].size = 2 * h
          /\ bs[j].size <= Newer(P, bs[j].ts) + 1
      BY Zenon DEF SoundBuckets
    <3>3. Newer(Q, bs[j].ts) = Newer(P, bs[j].ts) + 1 /\ bs[j].size \in Nat
      BY <1>1, <1>5
    <3>4. bs[j].size <= Newer(Q, bs[j].ts) + 1 BY <1>6, <3>2, <3>3
    <3>5. bs[j].ts \in Q BY <3>2 DEF Q
    <3>. QED BY <3>1, <3>2, <3>4, <3>5
  <2>. QED BY <1>8, <2>1, <2>2
<1>10. \A i, j \in 1 .. n + 1 : i < j => new[i].ts > new[j].ts
  <2>. SUFFICES ASSUME NEW i \in 1 .. n + 1, NEW j \in 1 .. n + 1, i < j
                PROVE  new[i].ts > new[j].ts
    OBVIOUS
  <2>1. PICK l \in 1..n : j = l + 1 BY <1>1, <1>8
  <2>2. new[j].ts = bs[l].ts BY <1>2, <2>1
  <2>3. CASE i = 1 BY <1>1, <1>2, <1>5, <1>7, <2>2, <2>3
  <2>4. CASE i # 1
    <3>1. PICK k \in 1..n : i = k + 1 BY <1>8, <2>4
    <3>2. new[i].ts = bs[k].ts /\ k < l BY <1>1, <1>2, <2>1, <3>1
    <3>. QED BY <2>2, <3>2 DEF SoundBuckets
  <2>. QED BY <2>3, <2>4
<1>11. \A i \in 1..n : Newer(Q, new[i + 1].ts) = Newer(Q, new[i].ts) + new[i].size
  <2>. TAKE i \in 1..n
  <2>1. new[i + 1].ts = bs[i].ts BY <1>2
  <2>2. CASE i = 1
    <3>1. Newer(P, bs[1].ts) = 0 BY <1>1, <2>2 DEF SoundBuckets
    <3>2. Newer(Q, bs[1].ts) = 1 BY <1>5, <2>2, <3>1
    <3>. QED BY <1>2, <1>4, <1>7, <2>1, <2>2, <3>2
  <2>3. CASE i # 1
    <3>1. PICK k \in 1..n : i = k + 1 BY <1>1, <1>8, <2>3
    <3>2. k \in 1 .. n - 1 BY <1>1, <3>1
    <3>3. Newer(P, bs[k + 1].ts) = Newer(P, bs[k].ts) + bs[k].size
      BY <3>2 DEF SoundBuckets
    <3>4. new[i] = bs[k] BY <1>2, <3>1
    <3>5. /\ Newer(Q, bs[i].ts) = Newer(P, bs[i].ts) + 1
          /\ Newer(Q, bs[k].ts) = Newer(P, bs[k].ts) + 1
      BY <1>5
    <3>6. Newer(P, bs[k].ts) \in Nat /\ bs[k].size \in Nat BY <1>1, <1>6
    <3>. QED BY <2>1, <3>1, <3>3, <3>4, <3>5, <3>6
  <2>. QED BY <2>2, <2>3
<1>12. Newer(Q, new[1].ts) = 0 BY <1>2, <1>4, <1>7
<1>13. Cardinality(Q) <= Newer(Q, new[n + 1].ts) + new[n + 1].size
  <2>1. CASE n = 0
    <3>1. P = {} BY <2>1 DEF SoundBuckets
    <3>2. Cardinality(P) = 0 BY <3>1, FS_EmptySet
    <3>. QED BY <1>2, <1>3, <1>4, <1>7, <2>1, <3>2
  <2>2. CASE n # 0
    <3>1. n \in 1..n BY <1>1, <2>2
    <3>2. Cardinality(P) <= Newer(P, bs[n].ts) + bs[n].size BY <2>2 DEF SoundBuckets
    <3>3. new[n + 1] = bs[n] /\ Newer(Q, bs[n].ts) = Newer(P, bs[n].ts) + 1
      BY <1>2, <1>5, <3>1
    <3>4. /\ Newer(P, bs[n].ts) \in Nat /\ bs[n].size \in Nat
          /\ Cardinality(P) \in Nat
      BY <1>1, <1>6, <3>1, FS_CardinalityType
    <3>. QED BY <1>3, <3>2, <3>3, <3>4
  <2>. QED BY <2>1, <2>2
<1>14. SoundBuckets(new, Q)
  <2>1. Len(new) - 1 = n /\ Len(new) # 0 BY <1>1, <1>2
  <2>. HIDE DEF n
  <2>. QED BY <1>2, <1>3, <1>9, <1>10, <1>11, <1>12, <1>13, <2>1 DEF SoundBuckets
<1>. QED BY <1>14 DEF new, b, Q

\* The ones of P in the window after the bit at the position t.
OnesAfter(P, t, bit) ==
  {p \in P : p > t - WindowN} \union (IF bit = 1 THEN {t} ELSE {})

LEMMA OnesAfterHas ==
  ASSUME NEW P, NEW t, NEW bit, NEW x
  PROVE  x \in OnesAfter(P, t, bit) <=> (x \in P /\ x > t - WindowN) \/ (x = t /\ bit = 1)
<1>1. x \in {p \in P : p > t - WindowN} <=> x \in P /\ x > t - WindowN OBVIOUS
<1>2. x \in (IF bit = 1 THEN {t} ELSE {}) <=> x = t /\ bit = 1 OBVIOUS
<1>. QED BY <1>1, <1>2 DEF OnesAfter

\* One bit; expired ones are forgotten.
LEMMA UpdatedSound ==
  ASSUME NEW bs, NEW P, SoundBuckets(bs, P), NEW t \in Nat, \A p \in P : p < t,
         NEW bit \in {0, 1}
  PROVE  SoundBuckets(Updated(bs, t, bit), OnesAfter(P, t, bit))
<1>. DEFINE live == Unexpired(bs, t - WindowN)
            Q == {p \in P : p > t - WindowN}
<1>1. t - WindowN \in Int BY DgimAssumption
<1>2. SoundBuckets(live, Q) BY <1>1, ExpireSound
<1>3. \A p \in Q : p < t OBVIOUS
<1>. HIDE DEF live, Q
<1>4. CASE bit = 1
  <2>1. SoundBuckets(<<[ts |-> t, size |-> 1]>> \o live, Q \union {t}) BY <1>2, <1>3, PrependSound
  <2>2. SoundBuckets(MergeBuckets(<<[ts |-> t, size |-> 1]>> \o live), Q \union {t})
    BY <2>1, MergeSound
  <2>3. Updated(bs, t, bit) = MergeBuckets(<<[ts |-> t, size |-> 1]>> \o live)
    BY <1>4, Zenon DEF Updated, live
  <2>. QED BY <1>4, <2>2, <2>3, Zenon DEF Q, OnesAfter
<1>5. CASE bit # 1
  <2>1. Updated(bs, t, bit) = live BY <1>5, Zenon DEF Updated, live
  <2>2. Q \union {} = Q OBVIOUS
  <2>. QED BY <1>2, <1>5, <2>1, <2>2, Zenon DEF Q, OnesAfter
<1>. QED BY <1>4, <1>5


-----------------------------------------------------------------------------
(* At most two buckets of a size.                                          *)

\* The smallest set with 1 and the double of every member.
PowersOfTwo ==
  {x \in Nat : \A S \in SUBSET Nat : 1 \in S /\ (\A y \in S : 2 * y \in S) => x \in S}

LEMMA PowersClosed ==
  /\ 1 \in PowersOfTwo
  /\ \A x \in PowersOfTwo : x \in Nat \ {0} /\ 2 * x \in PowersOfTwo
<1>1. 1 \in PowersOfTwo BY DEF PowersOfTwo
<1>2. ASSUME NEW x \in PowersOfTwo PROVE x \in Nat \ {0} /\ 2 * x \in PowersOfTwo
  <2>1. x \in Nat BY DEF PowersOfTwo
  <2>2. x \in Nat \ {0}
    <3>. DEFINE S == Nat \ {0}
    <3>1. S \in SUBSET Nat /\ 1 \in S /\ \A y \in S : 2 * y \in S OBVIOUS
    <3>. HIDE DEF S
    <3>2. x \in S BY <3>1 DEF PowersOfTwo
    <3>. QED BY <3>2 DEF S
  <2>3. ASSUME NEW S \in SUBSET Nat, 1 \in S, \A y \in S : 2 * y \in S PROVE 2 * x \in S
    <3>1. x \in S BY <2>3 DEF PowersOfTwo
    <3>. QED BY <2>3, <3>1
  <2>4. 2 * x \in Nat BY <2>1
  <2>. QED BY <2>2, <2>3, <2>4 DEF PowersOfTwo
<1>. QED BY <1>1, <1>2

LEMMA PowersHalved ==
  ASSUME NEW x \in PowersOfTwo
  PROVE  x = 1 \/ \E z \in PowersOfTwo : x = 2 * z
<1>. DEFINE S == {1} \union {y \in Nat : \E z \in PowersOfTwo : y = 2 * z}
<1>1. S \in SUBSET Nat /\ 1 \in S OBVIOUS
<1>2. \A y \in S : y \in PowersOfTwo BY PowersClosed
<1>3. \A y \in S : 2 * y \in S
  <2>. TAKE y \in S
  <2>1. 2 * y \in Nat /\ y \in PowersOfTwo BY <1>1, <1>2
  <2>. QED BY <2>1
<1>. HIDE DEF S
<1>4. x \in S BY <1>1, <1>3 DEF PowersOfTwo
<1>. QED BY <1>4 DEF S

LEMMA PowersGap ==
  ASSUME NEW x \in PowersOfTwo, NEW y \in PowersOfTwo, x < y
  PROVE  2 * x <= y
<1>. DEFINE Bad == {u \in PowersOfTwo : \E v \in PowersOfTwo : u < v /\ ~(2 * u <= v)}
<1>1. SUFFICES ASSUME Bad # {} PROVE FALSE
  OBVIOUS
<1>2. Bad \subseteq Nat BY PowersClosed
<1>3. PICK k \in Bad : \A z \in Bad : ~(<<z, k>> \in OpToRel(<, Nat))
  <2>. HIDE DEF Bad
  <2>. QED BY <1>1, <1>2, WFMin, NatLessThanWellFounded
<1>4. \A z \in Bad : ~(z < k)
  <2>. HIDE DEF Bad
  <2>. QED BY <1>2, <1>3 DEF OpToRel
<1>5. PICK v \in PowersOfTwo : k < v /\ ~(2 * k <= v) OBVIOUS
<1>6. k \in PowersOfTwo OBVIOUS
<1>7. k \in Nat \ {0} /\ v \in Nat \ {0} BY <1>5, <1>6, PowersClosed
<1>8. PICK w \in PowersOfTwo : v = 2 * w BY <1>5, <1>7, PowersHalved
<1>9. w \in Nat \ {0} BY <1>8, PowersClosed
<1>10. CASE k = 1 BY <1>5, <1>8, <1>9, <1>10
<1>11. CASE k # 1
  <2>1. PICK u \in PowersOfTwo : k = 2 * u BY <1>6, <1>11, PowersHalved
  <2>2. u \in Nat \ {0} BY <2>1, PowersClosed
  <2>3. u < w /\ ~(2 * u <= w) BY <1>5, <1>8, <1>9, <2>1, <2>2
  <2>4. u \in Bad BY <1>8, <2>1, <2>3
  <2>. QED BY <1>4, <2>1, <2>2, <2>4
<1>. QED BY <1>10, <1>11

\* Sizes are powers of two and do not fall towards the older buckets.
Rising(bs) ==
  /\ bs \in Seq(Bucket)
  /\ \A i \in 1..Len(bs) : bs[i].size \in PowersOfTwo
  /\ \A i, j \in 1..Len(bs) : i < j => bs[i].size <= bs[j].size

Tidy(bs) == Rising(bs) /\ \A a \in Nat \ {0} : ~Triple(bs, a)

\* During the loop there is one triple at most, and none before i.
TidyFrom(bs, i) ==
  /\ Rising(bs)
  /\ \A a, b \in Nat \ {0} : Triple(bs, a) /\ Triple(bs, b) => a = b
  /\ \A a \in Nat \ {0} : Triple(bs, a) => a >= i

LEMMA MergeRising ==
  ASSUME NEW bs, NEW i \in Nat \ {0}, TidyFrom(bs, i), Triple(bs, i)
  PROVE  Rising(MergedAt(bs, i))
<1>. DEFINE n == Len(bs)
            new == MergedAt(bs, i)
            s == bs[i].size
<1>1. /\ bs \in Seq(Bucket) /\ n \in Nat /\ i + 2 <= n
      /\ \A j \in 1..n : bs[j].size \in PowersOfTwo
      /\ \A j, k \in 1..n : j < k => bs[j].size <= bs[k].size
  BY DEF TidyFrom, Rising, Triple
<1>2. \A j \in 1..n : bs[j].size \in Nat \ {0} BY <1>1, PowersClosed
<1>3. i \in 1..n /\ i + 1 \in 1..n /\ i + 2 \in 1..n BY <1>1
<1>4. bs[i + 1].size = s /\ bs[i + 2].size = s BY DEF Triple
<1>5. s \in PowersOfTwo /\ 2 * s \in PowersOfTwo /\ s \in Nat \ {0} BY <1>1, <1>3, PowersClosed
<1>6. /\ new \in Seq(Bucket) /\ Len(new) = n - 1
      /\ \A j \in 1..i : new[j] = bs[j]
      /\ new[i + 1].size = 2 * s
      /\ \A j \in i + 2 .. n - 1 : new[j] = bs[j + 1]
  BY <1>1, <1>4, MergedAtElements
<1>. HIDE DEF new, s
<1>7. \A j \in 1 .. n - 1 : j \in 1..i \/ j = i + 1 \/ j \in i + 2 .. n - 1 BY <1>1
<1>8. /\ \A j \in 1..i : j \in 1..n
      /\ \A j \in i + 2 .. n - 1 : j + 1 \in 1..n /\ i + 2 < j + 1 /\ i < j + 1
  BY <1>1, <1>3
<1>9. \A j \in 1 .. n - 1 : new[j].size \in PowersOfTwo
  BY <1>1, <1>5, <1>6, <1>7, <1>8
\* What comes after the three is larger than they are, and so at least the double.
<1>10. \A j \in i + 2 .. n - 1 : 2 * s <= bs[j + 1].size
  <2>. TAKE j \in i + 2 .. n - 1
  <2>1. i + 3 \in 1..n /\ i + 2 < i + 3 BY <1>1, <1>3
  <2>2. s # bs[i + 3].size
    <3>1. SUFFICES ASSUME s = bs[i + 3].size PROVE FALSE
      OBVIOUS
    <3>2. Triple(bs, i + 1)
      <4>1. (i + 1) + 1 = i + 2 /\ (i + 1) + 2 = i + 3 /\ i + 3 <= n BY <2>1
      <4>. QED BY <1>4, <3>1, <4>1 DEF Triple
    <3>3. i + 1 \in Nat \ {0} /\ i + 1 # i OBVIOUS
    <3>. QED BY <3>2, <3>3 DEF TidyFrom
  <2>3. s <= bs[i + 3].size BY <1>1, <1>3, <1>4, <2>1
  <2>4. s < bs[i + 3].size BY <1>2, <1>5, <2>1, <2>2, <2>3
  <2>5. 2 * s <= bs[i + 3].size BY <1>1, <1>5, <2>1, <2>4, PowersGap
  <2>6. j + 1 = i + 3 \/ i + 3 < j + 1 BY <1>1
  <2>7. bs[i + 3].size <= bs[j + 1].size BY <1>1, <1>2, <1>8, <2>1, <2>6
  <2>8. j + 1 \in 1..n BY <1>8
  <2>. QED BY <1>2, <1>5, <2>1, <2>5, <2>7, <2>8
<1>11. \A j \in 1..i : bs[j].size <= s
  <2>. TAKE j \in 1..i
  <2>1. j = i \/ j < i BY <1>1
  <2>. QED BY <1>1, <1>2, <1>3, <1>8, <2>1 DEF s
<1>12. ASSUME NEW j \in 1 .. n - 1, NEW k \in 1 .. n - 1, j < k
       PROVE  new[j].size <= new[k].size
  <2>1. CASE j \in 1..i /\ k \in 1..i BY <1>1, <1>6, <1>8, <1>12, <2>1
  <2>2. CASE j \in 1..i /\ k = i + 1
    <3>1. new[j].size = bs[j].size /\ bs[j].size \in Nat BY <1>2, <1>6, <1>8, <2>2
    <3>. QED BY <1>5, <1>6, <1>11, <2>2, <3>1
  <2>3. CASE j \in 1..i /\ k \in i + 2 .. n - 1
    <3>1. new[j].size = bs[j].size /\ new[k].size = bs[k + 1].size BY <1>6, <2>3
    <3>2. j < k + 1 /\ j \in 1..n /\ k + 1 \in 1..n BY <1>1, <1>8, <2>3
    <3>. QED BY <1>1, <3>1, <3>2
  <2>4. CASE j = i + 1 /\ k \in i + 2 .. n - 1 BY <1>6, <1>10, <2>4
  <2>5. CASE j \in i + 2 .. n - 1 /\ k \in i + 2 .. n - 1
    <3>1. new[j].size = bs[j + 1].size /\ new[k].size = bs[k + 1].size BY <1>6, <2>5
    <3>2. j + 1 < k + 1 /\ j + 1 \in 1..n /\ k + 1 \in 1..n BY <1>1, <1>8, <1>12, <2>5
    <3>. QED BY <1>1, <3>1, <3>2
  <2>6. \/ j \in 1..i /\ k \in 1..i
        \/ j \in 1..i /\ k = i + 1
        \/ j \in 1..i /\ k \in i + 2 .. n - 1
        \/ j = i + 1 /\ k \in i + 2 .. n - 1
        \/ j \in i + 2 .. n - 1 /\ k \in i + 2 .. n - 1
    BY <1>1, <1>12
  <2>. QED BY <2>1, <2>2, <2>3, <2>4, <2>5, <2>6
<1>. HIDE DEF n
<1>. QED BY <1>6, <1>9, <1>12 DEF Rising, new

\* A merge leaves no triple but the one it may make of the doubled bucket.
LEMMA MergeTriples ==
  ASSUME NEW bs, NEW i \in Nat \ {0}, TidyFrom(bs, i), Triple(bs, i),
         NEW a \in Nat \ {0}, Triple(MergedAt(bs, i), a)
  PROVE  a = i + 1
<1>. DEFINE n == Len(bs)
            new == MergedAt(bs, i)
            s == bs[i].size
<1>1. bs \in Seq(Bucket) /\ n \in Nat /\ i + 2 <= n BY DEF TidyFrom, Rising, Triple
<1>2. s \in Nat \ {0} /\ bs[i + 1].size = s
  <2>1. i \in 1..n BY <1>1
  <2>. QED BY <2>1, PowersClosed DEF TidyFrom, Rising, Triple
<1>3. /\ Len(new) = n - 1
      /\ \A j \in 1..i : new[j] = bs[j]
      /\ new[i + 1].size = 2 * s
      /\ \A j \in i + 2 .. n - 1 : new[j] = bs[j + 1]
  <2>1. /\ Len(new) = n - 1
        /\ \A j \in 1..i : new[j] = bs[j]
        /\ new[i + 1].size = 2 * bs[i + 1].size
        /\ \A j \in i + 2 .. n - 1 : new[j] = bs[j + 1]
    BY <1>1, MergedAtElements
  <2>. HIDE DEF new, s, n
  <2>. QED BY <1>2, <2>1
<1>4. a + 2 <= n - 1 /\ new[a].size = new[a + 1].size /\ new[a + 1].size = new[a + 2].size
  BY <1>3 DEF Triple
<1>5. new[i].size = s BY <1>3
<1>6. \A b \in Nat \ {0} : Triple(bs, b) => b = i BY DEF TidyFrom
<1>. HIDE DEF new, s
<1>7. CASE a + 2 <= i
  <2>1. a \in 1..i /\ a + 1 \in 1..i /\ a + 2 \in 1..i /\ a # i BY <1>7
  <2>2. Triple(bs, a) BY <1>1, <1>3, <1>4, <2>1 DEF Triple
  <2>. QED BY <1>6, <2>1, <2>2
<1>8. CASE a + 2 = i + 1
  <2>1. a + 1 = i BY <1>8
  <2>. QED BY <1>2, <1>3, <1>4, <1>5, <1>8, <2>1
<1>9. CASE a = i BY <1>2, <1>3, <1>4, <1>5, <1>9
<1>10. CASE a >= i + 2
  <2>1. a \in i + 2 .. n - 1 /\ a + 1 \in i + 2 .. n - 1 /\ a + 2 \in i + 2 .. n - 1
    BY <1>1, <1>4, <1>10
  <2>2. new[a] = bs[a + 1] /\ new[a + 1] = bs[(a + 1) + 1] /\ new[a + 2] = bs[(a + 1) + 2]
    <3>1. (a + 2) + 1 = (a + 1) + 2 OBVIOUS
    <3>. QED BY <1>3, <2>1, <3>1
  <2>3. a + 1 \in Nat \ {0} /\ a + 1 # i /\ (a + 1) + 2 <= n BY <1>1, <1>4, <1>10
  <2>4. Triple(bs, a + 1) BY <1>4, <2>2, <2>3 DEF Triple
  <2>. QED BY <1>6, <2>3, <2>4
<1>11. a + 2 <= i \/ a + 2 = i + 1 \/ a = i \/ a = i + 1 \/ a >= i + 2 OBVIOUS
<1>. QED BY <1>7, <1>8, <1>9, <1>10, <1>11

\* A round keeps this, and ends the loop or comes nearer to its end.
LEMMA RoundTidy ==
  ASSUME NEW w \in Walkers, TidyFrom(w.bs, w.i)
  PROVE  /\ Round(w) \in Walkers /\ TidyFrom(Round(w).bs, Round(w).i)
         /\ w.i + 2 > Len(w.bs) => Round(w) = w
         /\ w.i + 2 <= Len(w.bs) =>
              2 * Len(Round(w).bs) - Round(w).i < 2 * Len(w.bs) - w.i
<1>1. w.i \in Nat \ {0} /\ w.bs \in Seq(Bucket) /\ Len(w.bs) \in Nat BY DEF Walkers
<1>2. CASE w.i + 2 > Len(w.bs) /\ Round(w) = w BY <1>1, <1>2
<1>3. ASSUME Triple(w.bs, w.i),
             Round(w) = [bs |-> MergedAt(w.bs, w.i), i |-> IF w.i = 1 THEN 1 ELSE w.i - 1]
      PROVE  /\ Round(w) \in Walkers /\ TidyFrom(Round(w).bs, Round(w).i)
             /\ ~(w.i + 2 > Len(w.bs))
             /\ 2 * Len(Round(w).bs) - Round(w).i < 2 * Len(w.bs) - w.i
  <2>. DEFINE new == MergedAt(w.bs, w.i)
              i == IF w.i = 1 THEN 1 ELSE w.i - 1
  <2>1. w.i + 2 <= Len(w.bs) BY <1>3 DEF Triple
  <2>2. Rising(new) BY <1>1, <1>3, MergeRising
  <2>3. \A a \in Nat \ {0} : Triple(new, a) => a = w.i + 1 BY <1>1, <1>3, MergeTriples
  <2>4. new \in Seq(Bucket) /\ Len(new) = Len(w.bs) - 1 BY <1>1, <2>1, MergedAtElements
  <2>5. i \in Nat \ {0} /\ i <= w.i /\ i >= w.i - 1 BY <1>1
  <2>6. Round(w).bs = new /\ Round(w).i = i /\ Round(w) \in Walkers
    BY <1>3, <2>4, <2>5 DEF Walkers
  <2>. HIDE DEF new, i
  <2>7. TidyFrom(new, i)
    <3>1. \A a, b \in Nat \ {0} : Triple(new, a) /\ Triple(new, b) => a = b BY <2>3
    <3>2. \A a \in Nat \ {0} : Triple(new, a) => a >= i BY <1>1, <2>3, <2>5
    <3>. QED BY <2>2, <3>1, <3>2 DEF TidyFrom
  <2>. QED BY <1>1, <2>1, <2>4, <2>5, <2>6, <2>7
<1>4. ASSUME w.i + 2 <= Len(w.bs), ~Triple(w.bs, w.i), Round(w) = [bs |-> w.bs, i |-> w.i + 1]
      PROVE  /\ Round(w) \in Walkers /\ TidyFrom(Round(w).bs, Round(w).i)
             /\ ~(w.i + 2 > Len(w.bs))
             /\ 2 * Len(Round(w).bs) - Round(w).i < 2 * Len(w.bs) - w.i
  <2>1. Round(w).bs = w.bs /\ Round(w).i = w.i + 1 /\ Round(w) \in Walkers
    BY <1>1, <1>4 DEF Walkers
  <2>2. \A a \in Nat \ {0} : Triple(w.bs, a) => a >= w.i + 1
    <3>1. \A a \in Nat \ {0} : Triple(w.bs, a) => a >= w.i /\ a # w.i BY <1>4 DEF TidyFrom
    <3>. QED BY <1>1, <3>1
  <2>3. TidyFrom(w.bs, w.i + 1) BY <2>2 DEF TidyFrom
  <2>. QED BY <1>1, <1>4, <2>1, <2>3
<1>. QED BY <1>2, <1>3, <1>4, RoundCases

\* The loop has ended after 2 * Len(bs) rounds.
LEMMA WalkTidy ==
  ASSUME NEW bs, TidyFrom(bs, 1), NEW m \in Nat, NEW f, Walks(f, bs, m)
  PROVE  \A n \in 0..m :
           /\ f[n] \in Walkers /\ TidyFrom(f[n].bs, f[n].i)
           /\ \/ f[n].i + 2 > Len(f[n].bs)
              \/ 2 * Len(f[n].bs) - f[n].i + n < 2 * Len(bs)
<1>. DEFINE Good(n) == /\ f[n] \in Walkers /\ TidyFrom(f[n].bs, f[n].i)
                       /\ \/ f[n].i + 2 > Len(f[n].bs)
                          \/ 2 * Len(f[n].bs) - f[n].i + n < 2 * Len(bs)
            Bad == {n \in Nat : n \in 0..m /\ ~Good(n)}
<1>1. SUFFICES ASSUME Bad # {} PROVE FALSE
  OBVIOUS
<1>2. PICK k \in Bad : \A z \in Bad : ~(<<z, k>> \in OpToRel(<, Nat))
  BY <1>1, WFMin, NatLessThanWellFounded
<1>3. k \in Nat /\ k \in 0..m /\ ~Good(k) OBVIOUS
<1>4. \A z \in 0..m : z < k => Good(z)
  <2>1. \A z \in Bad : ~(z < k)
    <3>1. Bad \subseteq Nat OBVIOUS
    <3>. HIDE DEF Bad
    <3>. QED BY <1>2, <1>3, <3>1 DEF OpToRel
  <2>. HIDE DEF Good
  <2>. QED BY <2>1
<1>. HIDE DEF Bad
<1>5. f[k] = IF k = 0 THEN [bs |-> bs, i |-> 1] ELSE Round(f[k - 1])
  BY <1>3, Zenon DEF Walks
<1>6. CASE k = 0
  <2>1. bs \in Seq(Bucket) /\ Len(bs) \in Nat BY DEF TidyFrom, Rising
  <2>2. f[k] = [bs |-> bs, i |-> 1] BY <1>5, <1>6
  <2>3. f[k] \in Walkers /\ f[k].bs = bs /\ f[k].i = 1 BY <2>1, <2>2 DEF Walkers
  <2>4. 2 * Len(bs) - 1 + k < 2 * Len(bs) BY <1>6, <2>1
  <2>. QED BY <1>3, <2>3, <2>4
<1>7. CASE k # 0
  <2>. DEFINE w == f[k - 1]
  <2>1. k - 1 \in 0..m /\ k - 1 < k BY <1>3, <1>7
  <2>2. Good(k - 1)
    <3>. HIDE DEF Good
    <3>. QED BY <1>4, <2>1
  <2>3. f[k] = Round(w) BY <1>5, <1>7
  <2>4. w \in Walkers /\ w.i \in Nat \ {0} /\ Len(w.bs) \in Nat BY <2>2 DEF Walkers
  <2>5. /\ f[k] \in Walkers /\ TidyFrom(f[k].bs, f[k].i)
        /\ w.i + 2 > Len(w.bs) => f[k] = w
        /\ w.i + 2 <= Len(w.bs) => 2 * Len(f[k].bs) - f[k].i < 2 * Len(w.bs) - w.i
    BY <2>2, <2>3, <2>4, RoundTidy
  <2>6. f[k].i \in Nat /\ Len(f[k].bs) \in Nat BY <2>5 DEF Walkers
  <2>7. Len(bs) \in Nat BY DEF TidyFrom, Rising
  <2>8. CASE w.i + 2 > Len(w.bs) BY <1>3, <2>5, <2>8
  <2>9. CASE ~(w.i + 2 > Len(w.bs))
    <3>1. 2 * Len(w.bs) - w.i + (k - 1) < 2 * Len(bs)
      <4>1. w.i + 2 > Len(w.bs) \/ 2 * Len(w.bs) - w.i + (k - 1) < 2 * Len(bs)
        BY <2>2, Zenon
      <4>. QED BY <2>9, <4>1, Zenon
    <3>2. 2 * Len(f[k].bs) - f[k].i < 2 * Len(w.bs) - w.i BY <2>4, <2>5, <2>9
    <3>. HIDE DEF w
    <3>3. \A x, y, z \in Int : x < y /\ y + (k - 1) < z => x + k < z BY <1>3
    <3>4. /\ 2 * Len(f[k].bs) - f[k].i \in Int /\ 2 * Len(w.bs) - w.i \in Int
          /\ 2 * Len(bs) \in Int
      BY <2>4, <2>6, <2>7
    <3>5. 2 * Len(f[k].bs) - f[k].i + k < 2 * Len(bs) BY <3>1, <3>2, <3>3, <3>4, Zenon
    <3>. QED BY <1>3, <2>5, <3>5
  <2>. QED BY <2>8, <2>9
<1>. QED BY <1>6, <1>7

LEMMA MergeTidy ==
  ASSUME NEW bs, TidyFrom(bs, 1)
  PROVE  Tidy(MergeBuckets(bs))
<1>. DEFINE m == 2 * Len(bs)
            f == CHOOSE h : h = [n \in 0..m |-> IF n = 0 THEN [bs |-> bs, i |-> 1]
                                                ELSE Round(h[n - 1])]
            w == f[m]
<1>1. Len(bs) \in Nat /\ m \in Nat /\ m \in 0..m BY DEF TidyFrom, Rising
<1>2. Walks(f, bs, m)
  <2>1. \E h : h = [n \in 0..m |-> IF n = 0 THEN [bs |-> bs, i |-> 1] ELSE Round(h[n - 1])]
    BY <1>1, WalkExists DEF Walks
  <2>2. f = [n \in 0..m |-> IF n = 0 THEN [bs |-> bs, i |-> 1] ELSE Round(f[n - 1])] BY <2>1
  <2>. QED BY <2>2 DEF Walks
<1>3. MergeBuckets(bs) = w.bs BY DEF MergeBuckets
<1>. HIDE DEF f
<1>4. /\ w \in Walkers /\ TidyFrom(w.bs, w.i)
      /\ w.i + 2 > Len(w.bs) \/ 2 * Len(w.bs) - w.i + m < 2 * Len(bs)
  <2>. HIDE DEF m
  <2>1. \A n \in 0..m :
          /\ f[n] \in Walkers /\ TidyFrom(f[n].bs, f[n].i)
          /\ \/ f[n].i + 2 > Len(f[n].bs)
             \/ 2 * Len(f[n].bs) - f[n].i + n < 2 * Len(bs)
    BY <1>1, <1>2, WalkTidy
  <2>. QED BY <1>1, <2>1
<1>. HIDE DEF w
<1>5. w.i \in Nat \ {0} /\ Len(w.bs) \in Nat BY <1>4 DEF Walkers
<1>6. w.i + 2 > Len(w.bs) BY <1>1, <1>4, <1>5
<1>7. \A a \in Nat \ {0} : ~Triple(w.bs, a)
  <2>1. \A a \in Nat \ {0} : Triple(w.bs, a) => a >= w.i /\ a + 2 <= Len(w.bs)
    BY <1>4 DEF TidyFrom, Triple
  <2>. QED BY <1>5, <1>6, <2>1
<1>. QED BY <1>3, <1>4, <1>7 DEF Tidy, TidyFrom

LEMMA PrefixTidy ==
  ASSUME NEW bs, Tidy(bs), NEW m \in 0..Len(bs)
  PROVE  Tidy(SubSeq(bs, 1, m))
<1>. DEFINE new == SubSeq(bs, 1, m)
<1>1. bs \in Seq(Bucket) /\ Len(bs) \in Nat BY DEF Tidy, Rising
<1>2. /\ new \in Seq(Bucket) /\ Len(new) = m
      /\ \A i \in 1..m : new[i] = bs[i]
  <2>1. \A i \in 1..m : bs[i] \in Bucket BY <1>1
  <2>. QED BY <1>1, <2>1, SubSeqProperties
<1>. HIDE DEF new
<1>3. \A i \in 1..m : i \in 1..Len(bs) BY <1>1
<1>4. Rising(new) BY <1>2, <1>3 DEF Rising, Tidy
<1>5. \A a \in Nat \ {0} : ~Triple(new, a)
  <2>. SUFFICES ASSUME NEW a \in Nat \ {0}, Triple(new, a) PROVE FALSE
    OBVIOUS
  <2>1. a + 2 <= m BY <1>2 DEF Triple
  <2>2. a \in 1..m /\ a + 1 \in 1..m /\ a + 2 \in 1..m /\ a + 2 <= Len(bs) BY <1>1, <2>1
  <2>3. Triple(bs, a) BY <1>2, <2>2 DEF Triple
  <2>. QED BY <2>3 DEF Tidy
<1>. QED BY <1>4, <1>5 DEF Tidy, new

LEMMA PrependTidy ==
  ASSUME NEW bs, Tidy(bs), NEW t \in Nat
  PROVE  TidyFrom(<<[ts |-> t, size |-> 1]>> \o bs, 1)
<1>. DEFINE n == Len(bs)
            b == [ts |-> t, size |-> 1]
            new == <<b>> \o bs
<1>1. /\ bs \in Seq(Bucket) /\ n \in Nat
      /\ \A i \in 1..n : bs[i].size \in PowersOfTwo /\ bs[i].size \in Nat \ {0}
      /\ \A i, j \in 1..n : i < j => bs[i].size <= bs[j].size
  BY PowersClosed DEF Tidy, Rising
<1>2. /\ new \in Seq(Bucket) /\ Len(new) = n + 1 /\ new[1] = b
      /\ \A i \in 2 .. n + 1 : new[i] = bs[i - 1]
  <2>1. <<b>> \in Seq(Bucket) /\ Len(<<b>>) = 1 /\ <<b>>[1] = b BY DEF Bucket
  <2>. HIDE DEF b
  <2>2. /\ new \in Seq(Bucket) /\ Len(new) = 1 + n
        /\ \A i \in 1 .. 1 + n : new[i] = IF i <= 1 THEN <<b>>[i] ELSE bs[i - 1]
    BY <1>1, <2>1, ConcatProperties
  <2>. HIDE DEF new
  <2>3. new[1] = b BY <1>1, <2>1, <2>2
  <2>4. \A i \in 2 .. n + 1 : i \in 1 .. 1 + n /\ ~(i <= 1) BY <1>1
  <2>. QED BY <1>1, <2>2, <2>3, <2>4
<1>3. b.size = 1 OBVIOUS
<1>. HIDE DEF b, new
<1>4. \A i \in 1 .. n + 1 : i = 1 \/ (i \in 2 .. n + 1 /\ i - 1 \in 1..n) BY <1>1
<1>5. \A i \in 1 .. n + 1 : new[i].size \in PowersOfTwo /\ new[i].size \in Nat \ {0}
  BY <1>1, <1>2, <1>3, <1>4, PowersClosed
<1>6. ASSUME NEW i \in 1 .. n + 1, NEW j \in 1 .. n + 1, i < j
      PROVE  new[i].size <= new[j].size
  <2>1. j \in 2 .. n + 1 /\ j - 1 \in 1..n BY <1>1, <1>4, <1>6
  <2>2. CASE i = 1 BY <1>2, <1>3, <1>5, <2>2
  <2>3. CASE i # 1
    <3>1. i \in 2 .. n + 1 /\ i - 1 \in 1..n /\ i - 1 < j - 1 BY <1>1, <1>4, <1>6, <2>3
    <3>. QED BY <1>1, <1>2, <2>1, <3>1
  <2>. QED BY <2>2, <2>3
<1>7. \A a \in Nat \ {0} : Triple(new, a) => a = 1
  <2>. SUFFICES ASSUME NEW a \in Nat \ {0}, Triple(new, a), a # 1 PROVE FALSE
    OBVIOUS
  <2>1. a + 2 <= n + 1 BY <1>2 DEF Triple
  <2>2. /\ a \in 2 .. n + 1 /\ a + 1 \in 2 .. n + 1 /\ a + 2 \in 2 .. n + 1
        /\ (a + 1) - 1 = (a - 1) + 1 /\ (a + 2) - 1 = (a - 1) + 2
        /\ a - 1 \in Nat \ {0} /\ (a - 1) + 2 <= n
    BY <1>1, <2>1
  <2>3. /\ new[a] = bs[a - 1] /\ new[a + 1] = bs[(a - 1) + 1]
        /\ new[a + 2] = bs[(a - 1) + 2]
    BY <1>2, <2>2
  <2>4. Triple(bs, a - 1) BY <2>2, <2>3 DEF Triple
  <2>. QED BY <2>2, <2>4 DEF Tidy
<1>8. Rising(new)
  <2>. HIDE DEF n
  <2>. QED BY <1>2, <1>5, <1>6 DEF Rising
<1>. QED BY <1>7, <1>8 DEF TidyFrom, new, b

LEMMA UpdatedTidy ==
  ASSUME NEW bs, NEW P, SoundBuckets(bs, P), Tidy(bs), NEW t \in Nat, NEW bit \in {0, 1}
  PROVE  Tidy(Updated(bs, t, bit))
<1>. DEFINE live == Unexpired(bs, t - WindowN)
<1>1. t - WindowN \in Int BY DgimAssumption
<1>2. PICK m \in 0..Len(bs) : live = SubSeq(bs, 1, m) BY <1>1, UnexpiredPrefix
<1>3. Tidy(live) BY <1>2, PrefixTidy
<1>. HIDE DEF live
<1>4. CASE bit = 1
  <2>1. Tidy(MergeBuckets(<<[ts |-> t, size |-> 1]>> \o live)) BY <1>3, PrependTidy, MergeTidy
  <2>2. Updated(bs, t, bit) = MergeBuckets(<<[ts |-> t, size |-> 1]>> \o live)
    BY <1>4, Zenon DEF Updated, live
  <2>. QED BY <2>1, <2>2, Zenon
<1>5. CASE bit # 1
  <2>1. Updated(bs, t, bit) = live BY <1>5, Zenon DEF Updated, live
  <2>. QED BY <1>3, <2>1, Zenon
<1>. QED BY <1>4, <1>5

-----------------------------------------------------------------------------
(* The estimator next to the exact window.                                 *)

\* The position before the oldest of the bits, when t is that of the newest.
Before(t, bits) == t - Len(bits)

\* The positions of the ones of the window.
Positions(t, bits) == {p \in Before(t, bits) + 1 .. t : bits[p - Before(t, bits)] = 1}

Width(t) == IF t < WindowN THEN t ELSE WindowN

Sound(s) ==
  /\ s.time \in Nat /\ s.exact \in Seq({0, 1}) /\ Len(s.exact) = Width(s.time)
  /\ SoundBuckets(s.buckets, Positions(s.time, s.exact)) /\ Tidy(s.buckets)

\* The deque forgets its first bit when it is full.
Slid(bits, bit) == Append(IF Len(bits) < WindowN THEN bits ELSE Tail(bits), bit)

LEMMA WindowShifts ==
  ASSUME NEW t \in Nat, NEW bits \in Seq({0, 1}), Len(bits) = Width(t), NEW bit \in {0, 1},
         NEW new, new = Slid(bits, bit)
  PROVE  /\ new \in Seq({0, 1}) /\ Len(new) = Width(t + 1)
         /\ \A p \in Before(t + 1, new) + 1 .. t :
              /\ p \in Before(t, bits) + 1 .. t
              /\ new[p - Before(t + 1, new)] = bits[p - Before(t, bits)]
         /\ new[Len(new)] = bit
<1>. DEFINE old == IF Len(bits) < WindowN THEN bits ELSE Tail(bits)
            d == IF Len(bits) < WindowN THEN 0 ELSE 1
<1>1. WindowN \in Nat \ {0} /\ Len(bits) \in Nat BY DgimAssumption
<1>2. /\ old \in Seq({0, 1}) /\ Len(old) = Len(bits) - d
      /\ \A i \in 1 .. Len(bits) - d : old[i] = bits[i + d]
  <2>1. CASE Len(bits) < WindowN BY <1>1, <2>1
  <2>2. CASE ~(Len(bits) < WindowN)
    <3>1. bits # <<>> BY <1>1, <2>2
    <3>2. /\ Tail(bits) \in Seq({0, 1}) /\ Len(Tail(bits)) = Len(bits) - 1
          /\ \A i \in 1 .. Len(Tail(bits)) : Tail(bits)[i] = bits[i + 1]
      BY <3>1, HeadTailProperties
    <3>. QED BY <2>2, <3>2
  <2>. QED BY <2>1, <2>2
<1>3. new = Append(old, bit) BY DEF Slid
<1>4. d \in {0, 1} /\ Len(bits) - d + 1 = Width(t + 1) BY <1>1 DEF Width
<1>. HIDE DEF old, d
<1>5. /\ new \in Seq({0, 1}) /\ Len(new) = Len(bits) - d + 1
      /\ \A i \in 1 .. Len(bits) - d : new[i] = old[i]
      /\ new[Len(new)] = bit
  <2>1. Len(old) \in Nat BY <1>2
  <2>2. /\ new \in Seq({0, 1}) /\ Len(new) = Len(old) + 1
        /\ \A i \in 1 .. Len(old) : new[i] = old[i]
        /\ new[Len(old) + 1] = bit
    BY <1>2, <1>3, AppendProperties
  <2>. QED BY <1>2, <2>1, <2>2
<1>6. ASSUME NEW p \in Before(t + 1, new) + 1 .. t
      PROVE  /\ p \in Before(t, bits) + 1 .. t
             /\ new[p - Before(t + 1, new)] = bits[p - Before(t, bits)]
  <2>. DEFINE i == p - Before(t + 1, new)
  <2>1. /\ p \in Before(t, bits) + 1 .. t /\ i \in 1 .. Len(bits) - d
        /\ i + d = p - Before(t, bits)
    <3>1. Len(new) = Len(bits) - d + 1 /\ Len(bits) \in Nat /\ (d = 0 \/ d = 1)
      BY <1>1, <1>4, <1>5
    <3>2. Before(t + 1, new) = (t + 1) - Len(new) /\ Before(t, bits) = t - Len(bits)
      BY DEF Before
    <3>3. p \in Int /\ p >= (t + 1) - Len(new) + 1 /\ p <= t BY <3>1, <3>2
    <3>. QED BY <3>1, <3>2, <3>3
  <2>. HIDE DEF i
  <2>2. new[i] = bits[i + d] BY <1>2, <1>5, <2>1
  <2>. QED BY <2>1, <2>2 DEF i
<1>. QED BY <1>4, <1>5, <1>6

LEMMA PositionsShift ==
  ASSUME NEW t \in Nat, NEW bits \in Seq({0, 1}), Len(bits) = Width(t), NEW bit \in {0, 1},
         NEW new, new = Slid(bits, bit)
  PROVE  Positions(t + 1, new) = OnesAfter(Positions(t, bits), t + 1, bit)
<1>. DEFINE d == Before(t + 1, new)
            e == Before(t, bits)
<1>1. WindowN \in Nat \ {0} /\ Len(bits) \in Nat BY DgimAssumption
<1>2. /\ Len(new) = Width(t + 1) /\ new[Len(new)] = bit
      /\ \A p \in d + 1 .. t : p \in e + 1 .. t /\ new[p - d] = bits[p - e]
  BY WindowShifts
<1>3. d \in Int /\ e \in Int /\ d + 1 <= t + 1 /\ (t + 1) - d = Len(new)
  BY <1>1, <1>2 DEF Width, Before
<1>4. \A p \in e + 1 .. t : p \in d + 1 .. t <=> p > (t + 1) - WindowN
  BY <1>1, <1>2 DEF Width, Before
<1>5. Positions(t + 1, new) = {p \in d + 1 .. t + 1 : new[p - d] = 1} BY DEF Positions
<1>6. Positions(t, bits) = {p \in e + 1 .. t : bits[p - e] = 1} BY DEF Positions
<1>. HIDE DEF d, e
<1>7. \A p \in d + 1 .. t + 1 : p \in d + 1 .. t \/ p = t + 1 BY <1>3
<1>8. t + 1 \in d + 1 .. t + 1 /\ \A p \in d + 1 .. t : p \in d + 1 .. t + 1 BY <1>3
<1>9. new[(t + 1) - d] = bit BY <1>2, <1>3
<1>10. ASSUME NEW p
       PROVE  p \in Positions(t + 1, new) <=>
                p \in OnesAfter(Positions(t, bits), t + 1, bit)
  <2>1. p \in Positions(t + 1, new) <=>
          (p \in d + 1 .. t /\ new[p - d] = 1) \/ (p = t + 1 /\ bit = 1)
    BY <1>5, <1>7, <1>8, <1>9
  <2>2. (p \in d + 1 .. t /\ new[p - d] = 1) <=>
          (p \in e + 1 .. t /\ bits[p - e] = 1 /\ p > (t + 1) - WindowN)
    BY <1>2, <1>4
  <2>3. p \in OnesAfter(Positions(t, bits), t + 1, bit) <=>
          (p \in Positions(t, bits) /\ p > (t + 1) - WindowN) \/ (p = t + 1 /\ bit = 1)
    BY OnesAfterHas
  <2>4. p \in Positions(t, bits) <=> p \in e + 1 .. t /\ bits[p - e] = 1 BY <1>6
  <2>. QED BY <2>1, <2>2, <2>3, <2>4
<1>. QED BY <1>10

LEMMA FedSound ==
  ASSUME NEW s, Sound(s), NEW bit \in {0, 1}
  PROVE  Sound(Fed(s, bit))
<1>. DEFINE t == s.time
            P == Positions(t, s.exact)
            new == Slid(s.exact, bit)
<1>1. /\ t \in Nat /\ s.exact \in Seq({0, 1}) /\ Len(s.exact) = Width(t)
      /\ SoundBuckets(s.buckets, P) /\ Tidy(s.buckets)
  BY DEF Sound
<1>2. /\ Fed(s, bit).time = t + 1 /\ Fed(s, bit).exact = new
      /\ Fed(s, bit).buckets = Updated(s.buckets, t + 1, bit)
  BY DEF Fed, Slid
<1>3. t + 1 \in Nat /\ \A p \in P : p < t + 1
  <2>1. \A p \in P : p \in Before(t, s.exact) + 1 .. t BY DEF Positions
  <2>. QED BY <1>1, <2>1 DEF Before
<1>4. new \in Seq({0, 1}) /\ Len(new) = Width(t + 1) BY <1>1, WindowShifts
<1>5. Positions(t + 1, new) = OnesAfter(P, t + 1, bit)
  BY <1>1, PositionsShift
<1>. HIDE DEF new, P, t
<1>6. SoundBuckets(Updated(s.buckets, t + 1, bit), Positions(t + 1, new))
  <2>1. SoundBuckets(Updated(s.buckets, t + 1, bit), OnesAfter(P, t + 1, bit))
    BY <1>1, <1>3, UpdatedSound
  <2>. QED BY <1>5, <2>1, Zenon
<1>7. Tidy(Updated(s.buckets, t + 1, bit)) BY <1>1, <1>3, UpdatedTidy
<1>. QED BY <1>2, <1>3, <1>4, <1>6, <1>7 DEF Sound

\* f holds the states of the estimator while it is fed the first m bits.
Feeds(f, s, bits, m) == f = [n \in 0..m |-> IF n = 0 THEN s ELSE Fed(f[n - 1], bits[n])]

LEMMA FeedExists ==
  ASSUME NEW s, NEW bits, NEW m \in Nat
  PROVE  \E f : Feeds(f, s, bits, m)
<1>. DEFINE Bad == {n \in Nat : ~ \E f : Feeds(f, s, bits, n)}
<1>1. SUFFICES ASSUME Bad # {} PROVE FALSE
  OBVIOUS
<1>2. PICK k \in Bad : \A z \in Bad : ~(<<z, k>> \in OpToRel(<, Nat))
  BY <1>1, WFMin, NatLessThanWellFounded
<1>3. k \in Nat /\ \A z \in Nat : z < k => \E f : Feeds(f, s, bits, z)
  BY <1>2 DEF OpToRel
<1>4. \E f : Feeds(f, s, bits, k)
  <2>1. CASE k = 0
    <3>1. Feeds([n \in 0..k |-> s], s, bits, k) BY <2>1 DEF Feeds
    <3>. QED BY <3>1
  <2>2. CASE k # 0
    <3>1. k - 1 \in Nat /\ k - 1 < k BY <1>3, <2>2
    <3>2. PICK f : Feeds(f, s, bits, k - 1) BY <1>3, <3>1
    <3>. DEFINE v(n) == IF n = 0 THEN s ELSE Fed(f[n - 1], bits[n])
                g == [n \in 0..k |-> v(n)]
    <3>3. \A n \in 0 .. k - 1 : f[n] = v(n) BY <3>2, Zenon DEF Feeds
    <3>4. \A n \in 0..k : g[n] = v(n) OBVIOUS
    <3>. HIDE DEF g
    <3>5. \A n \in 0..k : n # 0 => g[n - 1] = f[n - 1]
      <4>. HIDE DEF v
      <4>1. \A n \in 0..k : n # 0 => n - 1 \in 0..k /\ n - 1 \in 0 .. k - 1 BY <1>3
      <4>. QED BY <3>3, <3>4, <4>1
    <3>6. \A n \in 0..k : g[n] = IF n = 0 THEN s ELSE Fed(g[n - 1], bits[n])
      BY <3>4, <3>5
    <3>7. g = [n \in 0..k |-> g[n]] BY DEF g
    <3>8. Feeds(g, s, bits, k) BY <3>6, <3>7 DEF Feeds
    <3>. QED BY <3>8
  <2>. QED BY <2>1, <2>2
<1>. QED BY <1>2, <1>4

LEMMA FeedSound ==
  ASSUME NEW s, Sound(s), NEW m \in Nat, NEW bits, \A n \in 1..m : bits[n] \in {0, 1},
         NEW f, Feeds(f, s, bits, m)
  PROVE  \A n \in 0..m : Sound(f[n])
<1>. DEFINE Bad == {n \in Nat : n \in 0..m /\ ~Sound(f[n])}
<1>1. SUFFICES ASSUME Bad # {} PROVE FALSE
  OBVIOUS
<1>2. PICK k \in Bad : \A z \in Bad : ~(<<z, k>> \in OpToRel(<, Nat))
  BY <1>1, WFMin, NatLessThanWellFounded
<1>3. k \in Nat /\ k \in 0..m /\ ~Sound(f[k]) OBVIOUS
<1>4. \A z \in 0..m : z < k => Sound(f[z])
  <2>1. \A z \in Bad : ~(z < k)
    <3>1. Bad \subseteq Nat OBVIOUS
    <3>. HIDE DEF Bad
    <3>. QED BY <1>2, <1>3, <3>1 DEF OpToRel
  <2>. QED BY <2>1
<1>. HIDE DEF Bad
<1>5. f[k] = IF k = 0 THEN s ELSE Fed(f[k - 1], bits[k])
  BY <1>3, Zenon DEF Feeds
<1>6. CASE k = 0 BY <1>3, <1>5, <1>6
<1>7. CASE k # 0
  <2>1. k - 1 \in 0..m /\ k - 1 < k /\ k \in 1..m BY <1>3, <1>7
  <2>2. Sound(f[k - 1]) /\ bits[k] \in {0, 1} BY <1>4, <2>1
  <2>3. f[k] = Fed(f[k - 1], bits[k]) BY <1>5, <1>7
  <2>4. Sound(f[k]) BY <2>2, <2>3, FedSound
  <2>. QED BY <1>3, <2>4
<1>. QED BY <1>6, <1>7

DgimState == [time |-> time, buckets |-> buckets, exact |-> exact]

\* The invariant: the buckets count the ones of the exact window.
CountsWindow == Sound(DgimState)

LEMMA EmptySound ==
  ASSUME NEW s, s.time = 0, s.buckets = <<>>, s.exact = <<>>
  PROVE  Sound(s)
<1>1. Positions(0, <<>>) = {} BY DEF Positions, Before
<1>2. SoundBuckets(<<>>, {}) BY FS_EmptySet DEF SoundBuckets
<1>3. Len(<<>>) = Width(0) BY DgimAssumption DEF Width
<1>4. 0 \in Nat /\ <<>> \in Seq({0, 1}) OBVIOUS
<1>5. Tidy(<<>>) BY DEF Tidy, Rising, Triple
<1>. QED BY <1>1, <1>2, <1>3, <1>4, <1>5, Zenon DEF Sound

LEMMA CountBatchSound ==
  ASSUME CountsWindow, NEW bits \in BoundedSeq({0, 1}, DgimBatch), CountBatch(bits)
  PROVE  CountsWindow'
<1>. DEFINE fed == IF Len(bits) < DgimRows THEN Len(bits) ELSE DgimRows
            f == CHOOSE h : h = [n \in 0..fed |->
                   IF n = 0 THEN [time |-> time, buckets |-> buckets, exact |-> exact]
                   ELSE Fed(h[n - 1], bits[n])]
<1>1. bits \in Seq({0, 1}) BY DgimAssumption DEF BoundedSeq, SeqOf
<1>2. Len(bits) \in Nat /\ fed \in Nat /\ fed \in 0..fed BY <1>1, DgimAssumption
<1>3. \A n \in 1..fed : bits[n] \in {0, 1} BY <1>1, DgimAssumption
<1>4. Feeds(f, DgimState, bits, fed)
  <2>. HIDE DEF fed
  <2>1. \E h : h = [n \in 0..fed |->
                     IF n = 0 THEN [time |-> time, buckets |-> buckets, exact |-> exact]
                     ELSE Fed(h[n - 1], bits[n])]
    <3>1. \E h : Feeds(h, DgimState, bits, fed) BY <1>2, FeedExists
    <3>. QED BY <3>1, Zenon DEF Feeds, DgimState
  <2>2. f = [n \in 0..fed |->
              IF n = 0 THEN [time |-> time, buckets |-> buckets, exact |-> exact]
              ELSE Fed(f[n - 1], bits[n])]
    BY <2>1
  <2>. QED BY <2>2 DEF Feeds, DgimState
<1>5. time' = f[fed].time /\ buckets' = f[fed].buckets /\ exact' = f[fed].exact
  BY DEF CountBatch
<1>. HIDE DEF f, fed
<1>6. Sound(f[fed]) BY <1>2, <1>3, <1>4, FeedSound DEF CountsWindow
<1>7. DgimState'.time = time' /\ DgimState'.buckets = buckets' /\ DgimState'.exact = exact'
  BY DEF DgimState
<1>. QED BY <1>5, <1>6, <1>7 DEF CountsWindow, Sound

LEMMA CountsWindowInductive ==
  /\ DgimInit => CountsWindow
  /\ CountsWindow /\ [DgimNext]_dgimVars => CountsWindow'
<1>1. DgimInit => CountsWindow
  <2>1. DgimInit => DgimState.time = 0 /\ DgimState.buckets = <<>> /\ DgimState.exact = <<>>
    BY DEF DgimInit, DgimState
  <2>. QED BY <2>1, EmptySound DEF CountsWindow
<1>2. ASSUME CountsWindow, NEW bits \in BoundedSeq({0, 1}, DgimBatch), CountBatch(bits)
      PROVE  CountsWindow'
  BY <1>2, CountBatchSound
<1>3. DgimRestart => CountsWindow'
  <2>1. DgimRestart =>
          DgimState'.time = 0 /\ DgimState'.buckets = <<>> /\ DgimState'.exact = <<>>
    BY DEF DgimRestart, DgimState
  <2>. QED BY <2>1, EmptySound DEF CountsWindow
<1>4. CountsWindow /\ UNCHANGED dgimVars => CountsWindow'
  BY DEF CountsWindow, DgimState, dgimVars
<1>. QED BY <1>1, <1>2, <1>3, <1>4 DEF DgimNext


-----------------------------------------------------------------------------
(* The answer to a query.                                                  *)

\* f holds the sums of the sizes of the first m buckets.
Sums(f, bs, m) == f = [n \in 0..m |-> IF n = 0 THEN 0 ELSE f[n - 1] + bs[n].size]

LEMMA SumsExist ==
  ASSUME NEW bs, NEW m \in Nat
  PROVE  \E f : Sums(f, bs, m)
<1>. DEFINE Bad == {n \in Nat : ~ \E f : Sums(f, bs, n)}
<1>1. SUFFICES ASSUME Bad # {} PROVE FALSE
  OBVIOUS
<1>2. PICK k \in Bad : \A z \in Bad : ~(<<z, k>> \in OpToRel(<, Nat))
  BY <1>1, WFMin, NatLessThanWellFounded
<1>3. k \in Nat /\ \A z \in Nat : z < k => \E f : Sums(f, bs, z)
  BY <1>2 DEF OpToRel
<1>4. \E f : Sums(f, bs, k)
  <2>1. CASE k = 0
    <3>1. Sums([n \in 0..k |-> 0], bs, k) BY <2>1 DEF Sums
    <3>. QED BY <3>1
  <2>2. CASE k # 0
    <3>1. k - 1 \in Nat /\ k - 1 < k BY <1>3, <2>2
    <3>2. PICK f : Sums(f, bs, k - 1) BY <1>3, <3>1
    <3>. DEFINE v(n) == IF n = 0 THEN 0 ELSE f[n - 1] + bs[n].size
                g == [n \in 0..k |-> v(n)]
    <3>3. \A n \in 0 .. k - 1 : f[n] = v(n) BY <3>2, Zenon DEF Sums
    <3>4. \A n \in 0..k : g[n] = v(n) OBVIOUS
    <3>. HIDE DEF g
    <3>5. \A n \in 0..k : n # 0 => g[n - 1] = f[n - 1]
      <4>. HIDE DEF v
      <4>1. \A n \in 0..k : n # 0 => n - 1 \in 0..k /\ n - 1 \in 0 .. k - 1 BY <1>3
      <4>. QED BY <3>3, <3>4, <4>1
    <3>6. \A n \in 0..k : g[n] = IF n = 0 THEN 0 ELSE g[n - 1] + bs[n].size
      BY <3>4, <3>5
    <3>7. g = [n \in 0..k |-> g[n]] BY DEF g
    <3>8. Sums(g, bs, k) BY <3>6, <3>7 DEF Sums
    <3>. QED BY <3>8
  <2>. QED BY <2>1, <2>2
<1>. QED BY <1>2, <1>4

\* The sizes of the buckets before one add up to the ones that are newer than it.
LEMMA SumSizesNewer ==
  ASSUME NEW bs, NEW P, SoundBuckets(bs, P), NEW m \in 1..Len(bs)
  PROVE  SumSizes(SubSeq(bs, 1, m - 1)) = Newer(P, bs[m].ts)
<1>. DEFINE front == SubSeq(bs, 1, m - 1)
            f == CHOOSE h : h = [n \in 0..Len(front) |->
                                   IF n = 0 THEN 0 ELSE h[n - 1] + front[n].size]
            Bad == {n \in Nat : n \in 0 .. m - 1 /\ f[n] # Newer(P, bs[n + 1].ts)}
<1>1. bs \in Seq(Bucket) /\ Len(bs) \in Nat /\ m \in Nat BY DEF SoundBuckets
<1>2. /\ front \in Seq(Bucket) /\ Len(front) = m - 1
      /\ \A i \in 1 .. m - 1 : front[i] = bs[i]
  <2>1. \A i \in 1 .. m - 1 : bs[i] \in Bucket BY <1>1
  <2>. QED BY <1>1, <2>1, SubSeqProperties
<1>3. m - 1 \in Nat /\ m - 1 \in 0 .. m - 1 /\ (m - 1) + 1 = m BY <1>1
<1>4. Sums(f, front, m - 1)
  <2>. HIDE DEF front
  <2>1. \E h : Sums(h, front, Len(front)) BY <1>2, <1>3, SumsExist
  <2>2. \E h : h = [n \in 0..Len(front) |-> IF n = 0 THEN 0 ELSE h[n - 1] + front[n].size]
    BY <2>1, Zenon DEF Sums
  <2>3. f = [n \in 0..Len(front) |-> IF n = 0 THEN 0 ELSE f[n - 1] + front[n].size]
    BY <2>2
  <2>. QED BY <1>2, <2>3 DEF Sums
<1>5. SumSizes(front) = f[m - 1] BY <1>2 DEF SumSizes
<1>. HIDE DEF front, f
<1>6. SUFFICES ASSUME Bad # {} PROVE FALSE
  BY <1>3, <1>5 DEF front
<1>7. PICK k \in Bad : \A z \in Bad : ~(<<z, k>> \in OpToRel(<, Nat))
  BY <1>6, WFMin, NatLessThanWellFounded
<1>8. k \in Nat /\ k \in 0 .. m - 1 /\ f[k] # Newer(P, bs[k + 1].ts) OBVIOUS
<1>9. \A z \in 0 .. m - 1 : z < k => f[z] = Newer(P, bs[z + 1].ts)
  <2>1. \A z \in Bad : ~(z < k)
    <3>1. Bad \subseteq Nat OBVIOUS
    <3>. HIDE DEF Bad
    <3>. QED BY <1>7, <1>8, <3>1 DEF OpToRel
  <2>. QED BY <2>1
<1>. HIDE DEF Bad
<1>10. f[k] = IF k = 0 THEN 0 ELSE f[k - 1] + front[k].size
  BY <1>4, <1>8, Zenon DEF Sums
<1>11. CASE k = 0
  <2>1. Newer(P, bs[1].ts) = 0 BY <1>1 DEF SoundBuckets
  <2>. QED BY <1>8, <1>10, <1>11, <2>1
<1>12. CASE k # 0
  <2>1. /\ k - 1 \in 0 .. m - 1 /\ k - 1 < k /\ (k - 1) + 1 = k
        /\ k \in 1 .. m - 1 /\ k \in 1 .. Len(bs) - 1
    BY <1>1, <1>8, <1>12
  <2>2. f[k - 1] = Newer(P, bs[k].ts) BY <1>9, <2>1
  <2>3. front[k] = bs[k] BY <1>2, <2>1
  <2>4. Newer(P, bs[k + 1].ts) = Newer(P, bs[k].ts) + bs[k].size
    BY <2>1 DEF SoundBuckets
  <2>. QED BY <1>8, <1>10, <1>12, <2>2, <2>3, <2>4
<1>. QED BY <1>11, <1>12

\* The ones among the last k bits are the ones after the position k back.
LEMMA OnesNewer ==
  ASSUME CountsWindow, NEW k \in 1..WindowN
  PROVE  Ones(k) = Newer(Positions(time, exact), time - k)
<1>. DEFINE S == {i \in DOMAIN exact : i > Len(exact) - k /\ exact[i] = 1}
            T == {p \in Positions(time, exact) : p > time - k}
            d == Before(time, exact)
            f == [i \in S |-> i + d]
<1>1. /\ time \in Nat /\ exact \in Seq({0, 1}) /\ Len(exact) \in Nat
      /\ DOMAIN exact = 1..Len(exact) /\ k \in Nat /\ d \in Int
  BY DgimAssumption DEF CountsWindow, Sound, DgimState, Before
<1>2. IsFiniteSet(S)
  <2>1. \A i \in S : i \in 1..Len(exact) BY <1>1
  <2>2. IsFiniteSet(1..Len(exact)) BY <1>1, FS_Interval
  <2>. HIDE DEF S
  <2>. QED BY <2>1, <2>2, FS_Subset
<1>3. \A i \in S : i + d \in T
  <2>. SUFFICES ASSUME NEW i \in S PROVE i + d \in T
    OBVIOUS
  <2>1. i \in 1..Len(exact) /\ i > Len(exact) - k /\ exact[i] = 1 BY <1>1
  <2>2. i + d \in d + 1 .. time /\ (i + d) - d = i /\ i + d > time - k
    BY <1>1, <2>1 DEF Before
  <2>. HIDE DEF d
  <2>3. i + d \in Positions(time, exact) BY <2>1, <2>2 DEF Positions, d
  <2>. QED BY <2>2, <2>3
<1>4. \A p \in T : \E i \in S : p = i + d
  <2>. SUFFICES ASSUME NEW p \in T PROVE \E i \in S : p = i + d
    OBVIOUS
  <2>1. p \in d + 1 .. time /\ exact[p - d] = 1 /\ p > time - k BY DEF Positions
  <2>2. p - d \in 1..Len(exact) /\ p - d > Len(exact) - k /\ p = (p - d) + d
    BY <1>1, <2>1 DEF Before
  <2>3. p - d \in S BY <1>1, <2>1, <2>2
  <2>. QED BY <2>2, <2>3
<1>5. \A i, j \in S : i + d = j + d => i = j
  <2>1. \A i \in S : i \in Int BY <1>1
  <2>. HIDE DEF S, d
  <2>. QED BY <1>1, <2>1
<1>. HIDE DEF S, T, d
<1>6. ExistsBijection(S, T)
  <2>1. f \in [S -> T] /\ DOMAIN f = S /\ \A i \in S : f[i] = i + d BY <1>3
  <2>. HIDE DEF f
  <2>2. f \in Injection(S, T) BY <1>5, <2>1 DEF Injection, IsInjective
  <2>3. f \in Surjection(S, T)
    <3>1. \A p \in T : \E i \in S : f[i] = p BY <1>4, <2>1
    <3>. QED BY <2>1, <3>1 DEF Surjection
  <2>. QED BY <2>2, <2>3 DEF ExistsBijection, Bijection
<1>7. Cardinality(S) = Cardinality(T) BY <1>2, <1>6, FS_Bijection
<1>. QED BY <1>7 DEF Ones, Newer, S, T


\* What the query leaves open: the oldest bucket in question counts for half of its size,
\* and between one and all of its ones are in question.
LEMMA QueryBounds ==
  ASSUME CountsWindow, NEW k \in 1..WindowN, Ones(k) > 1
  PROVE  \E newer \in Nat, size \in Nat \ {0} :
           /\ Query(k) = newer + size \div 2
           /\ newer + 1 <= Ones(k) /\ Ones(k) <= newer + size
           /\ size <= newer + 1
           /\ size = 1 \/ \E h \in Nat \ {0} : size = 2 * h
<1>. DEFINE P == Positions(time, exact)
            bs == buckets
            n == Len(bs)
            cutoff == time - k
<1>1. SoundBuckets(bs, P) /\ time \in Nat BY DEF CountsWindow, Sound, DgimState
<1>2. bs \in Seq(Bucket) /\ n \in Nat /\ P \subseteq Nat /\ IsFiniteSet(P)
  BY <1>1 DEF SoundBuckets
<1>3. \A i \in 1..n : bs[i].ts \in Nat /\ bs[i].size \in Nat BY <1>2, BucketTyped
<1>4. k \in Nat /\ (IF k < WindowN THEN k ELSE WindowN) = k /\ cutoff \in Int
  BY <1>1, DgimAssumption
<1>5. Ones(k) = Newer(P, cutoff) /\ Newer(P, cutoff) \in Nat BY <1>2, OnesNewer, NewerNat
<1>. HIDE DEF P, cutoff
<1>6. PICK m \in 0..n : /\ Unexpired(bs, cutoff) = SubSeq(bs, 1, m)
                        /\ \A i \in 1..m : bs[i].ts > cutoff
                        /\ \A i \in m + 1 .. n : bs[i].ts <= cutoff
  BY <1>1, <1>4, UnexpiredPrefix
<1>7. m # n => Newer(P, cutoff) <= Newer(P, bs[m + 1].ts)
  <2>. SUFFICES ASSUME m # n PROVE Newer(P, cutoff) <= Newer(P, bs[m + 1].ts)
    OBVIOUS
  <2>1. m + 1 \in m + 1 .. n /\ m + 1 \in 1..n BY <1>2
  <2>2. bs[m + 1].ts \in Int /\ bs[m + 1].ts <= cutoff BY <1>3, <1>6, <2>1
  <2>. QED BY <1>2, <1>4, <2>2, NewerFalls
<1>8. m # 0
  <2>1. ASSUME m = 0, n # 0 PROVE Newer(P, cutoff) = 0
    <3>1. Newer(P, bs[1].ts) = 0 BY <1>1, <2>1 DEF SoundBuckets
    <3>. QED BY <1>5, <1>7, <2>1, <3>1
  <2>2. ASSUME n = 0 PROVE Newer(P, cutoff) = 0
    <3>1. P = {} BY <1>1, <2>2 DEF SoundBuckets
    <3>2. Cardinality(P) = 0 BY <3>1, FS_EmptySet
    <3>3. Newer(P, cutoff) <= Cardinality(P) BY <1>2, NewerNat
    <3>. QED BY <1>5, <3>2, <3>3
  <2>. QED BY <1>5, <2>1, <2>2
<1>9. m \in 1..n /\ m \in 1..m BY <1>2, <1>8
<1>. DEFINE newer == Newer(P, bs[m].ts)
            size == bs[m].size
<1>10. newer \in Nat BY <1>2, NewerNat
<1>11. /\ bs[m].ts \in P
       /\ size = 1 \/ \E h \in Nat \ {0} : size = 2 * h
       /\ size <= newer + 1
  BY <1>1, <1>9, Zenon DEF SoundBuckets
<1>12. size \in Nat \ {0} BY <1>11
<1>13. newer + 1 <= Ones(k)
  <2>1. newer < Newer(P, cutoff) BY <1>2, <1>4, <1>6, <1>9, <1>11, NewerStrict
  <2>. QED BY <1>5, <1>10, <2>1
<1>14. Ones(k) <= newer + size
  <2>1. CASE m = n
    <3>1. Cardinality(P) <= newer + size BY <1>1, <1>8, <2>1 DEF SoundBuckets
    <3>2. Newer(P, cutoff) <= Cardinality(P) /\ Cardinality(P) \in Nat
      BY <1>2, NewerNat, FS_CardinalityType
    <3>. QED BY <1>5, <1>10, <1>12, <3>1, <3>2
  <2>2. CASE m # n
    <3>1. m \in 1 .. n - 1 BY <1>2, <1>9, <2>2
    <3>2. Newer(P, bs[m + 1].ts) = newer + size BY <1>1, <3>1 DEF SoundBuckets
    <3>. QED BY <1>5, <1>7, <2>2, <3>2
  <2>. QED BY <2>1, <2>2
<1>15. Query(k) = newer + size \div 2
  <2>. DEFINE in == SubSeq(bs, 1, m)
  <2>1. \A i \in 1..m : bs[i] \in Bucket BY <1>2
  <2>2. in \in Seq(Bucket) /\ Len(in) = m /\ in[m] = bs[m]
        /\ \A i \in 1..m : in[i] = bs[i]
    BY <1>2, <1>9, <2>1, SubSeqProperties
  <2>3. Last(in) = bs[m] BY <2>2 DEF Last
  <2>4. Front(in) = SubSeq(bs, 1, m - 1)
    <3>1. Front(in) = SubSeq(in, 1, m - 1) BY <2>2 DEF Front
    <3>2. \A i \in 1 .. m - 1 : in[i] = bs[i] /\ in[i] \in Bucket /\ bs[i] \in Bucket
      BY <1>2, <1>9, <2>1, <2>2
    <3>. HIDE DEF in
    <3>3. /\ SubSeq(in, 1, m - 1) \in Seq(Bucket) /\ Len(SubSeq(in, 1, m - 1)) = m - 1
          /\ \A i \in 1 .. m - 1 : SubSeq(in, 1, m - 1)[i] = in[i]
      BY <1>9, <2>2, <3>2, SubSeqProperties
    <3>4. /\ SubSeq(bs, 1, m - 1) \in Seq(Bucket) /\ Len(SubSeq(bs, 1, m - 1)) = m - 1
          /\ \A i \in 1 .. m - 1 : SubSeq(bs, 1, m - 1)[i] = bs[i]
      BY <1>2, <1>9, <3>2, SubSeqProperties
    <3>. DEFINE a == SubSeq(in, 1, m - 1)
                b == SubSeq(bs, 1, m - 1)
    <3>5. Len(a) = Len(b) /\ \A i \in 1..Len(a) : a[i] = b[i] BY <3>2, <3>3, <3>4
    <3>. HIDE DEF a, b
    <3>6. a = b BY <3>3, <3>4, <3>5, SeqEqual DEF a, b
    <3>. QED BY <3>1, <3>6 DEF a, b
  <2>5. in # <<>> BY <1>9, <2>2
  <2>6. SumSizes(SubSeq(bs, 1, m - 1)) = newer BY <1>1, <1>9, SumSizesNewer
  <2>7. Unexpired(buckets, time - (IF k < WindowN THEN k ELSE WindowN)) = in
    BY <1>4, <1>6 DEF cutoff
  <2>. HIDE DEF in
  <2>. QED BY <2>3, <2>4, <2>5, <2>6, <2>7 DEF Query
<1>. HIDE DEF newer, size
<1>. QED BY <1>10, <1>11, <1>12, <1>13, <1>14, <1>15

\* The estimate is at most half of the exact count away from it, for every length of the
\* window and every number of positions that hold more than a single one (DGIM.query next
\* to the exact window of CountingOnesAnalytic), and no three buckets have one size
\* (DGIM._merge_buckets).
THEOREM Guarantees == DgimSpec => []DgimGuarantees
<1>1. CountsWindow => HalfErrorAboveOne
  <2>. SUFFICES ASSUME CountsWindow, NEW k \in 1..WindowN, Ones(k) > 1
                PROVE  2 * Distance(Query(k), Ones(k)) <= Ones(k)
    BY DEF HalfErrorAboveOne
  <2>1. PICK newer \in Nat, size \in Nat \ {0} :
          /\ Query(k) = newer + size \div 2
          /\ newer + 1 <= Ones(k) /\ Ones(k) <= newer + size
          /\ size <= newer + 1
          /\ size = 1 \/ \E h \in Nat \ {0} : size = 2 * h
    BY QueryBounds
  <2>2. Ones(k) \in Nat
    <3>1. IsFiniteSet(Positions(time, exact))
      BY DEF CountsWindow, Sound, DgimState, SoundBuckets
    <3>. QED BY <3>1, OnesNewer, NewerNat
  <2>3. CASE size = 1
    <3>1. Query(k) = newer /\ Ones(k) = newer + 1 BY <2>1, <2>2, <2>3
    <3>. QED BY <3>1 DEF Distance
  <2>4. ASSUME NEW h \in Nat \ {0}, size = 2 * h
        PROVE  2 * Distance(Query(k), Ones(k)) <= Ones(k)
    <3>1. size \div 2 = h BY <2>4
    <3>2. Query(k) = newer + h BY <2>1, <3>1
    <3>. QED BY <2>1, <2>2, <2>4, <3>2 DEF Distance
  <2>. QED BY <2>1, <2>3, <2>4
<1>2. CountsWindow => AtMostTwoOfASize
  <2>. SUFFICES ASSUME CountsWindow,
                       NEW i \in DOMAIN buckets, NEW j \in DOMAIN buckets,
                       NEW l \in DOMAIN buckets, i < j, j < l,
                       buckets[i].size = buckets[j].size, buckets[j].size = buckets[l].size
                PROVE  FALSE
    BY DEF AtMostTwoOfASize
  <2>1. Tidy(buckets) BY DEF CountsWindow, Sound, DgimState
  <2>2. /\ buckets \in Seq(Bucket) /\ Len(buckets) \in Nat /\ DOMAIN buckets = 1..Len(buckets)
        /\ \A a \in 1..Len(buckets) : buckets[a].size \in Nat
        /\ \A a, b \in 1..Len(buckets) : a < b => buckets[a].size <= buckets[b].size
    BY <2>1, PowersClosed DEF Tidy, Rising
  <2>3. /\ i \in Nat \ {0} /\ i \in 1..Len(buckets) /\ l \in 1..Len(buckets)
        /\ i + 1 \in 1..Len(buckets) /\ i + 2 \in 1..Len(buckets)
        /\ i + 1 < i + 2 /\ i < i + 1 /\ (i + 2 = l \/ i + 2 < l)
    BY <2>2
  <2>4. /\ buckets[i].size <= buckets[i + 1].size
        /\ buckets[i + 1].size <= buckets[i + 2].size
        /\ buckets[i + 2].size <= buckets[l].size
    BY <2>2, <2>3
  <2>5. /\ buckets[i].size = buckets[i + 1].size
        /\ buckets[i + 1].size = buckets[i + 2].size
    BY <2>2, <2>3, <2>4
  <2>6. Triple(buckets, i) BY <2>2, <2>3, <2>5 DEF Triple
  <2>. QED BY <2>1, <2>3, <2>6 DEF Tidy
<1>3. CountsWindow => DgimGuarantees BY <1>1, <1>2 DEF DgimGuarantees
<1>. QED BY <1>3, CountsWindowInductive, PTL DEF DgimSpec

-----------------------------------------------------------------------------
(* Sums over finite sets.                                                  *)

SumOn(f, S) == SumFunctionOnSet(f, S)

Chosen(s) == CHOOSE x \in s : TRUE

\* it holds the sums of f over the members of D.
SumTable(it, f, D) ==
  it = [s \in D |-> IF s = {} THEN 0 ELSE f[Chosen(s)] + it[s \ {Chosen(s)}]]

LEMMA SumOnTable ==
  ASSUME NEW f, NEW S, \E it : SumTable(it, f, SUBSET S)
  PROVE  \E it : SumTable(it, f, SUBSET S) /\ SumOn(f, S) = it[S]
<1>. DEFINE it == CHOOSE h : h = [s \in SUBSET S |->
                     IF s = {} THEN 0
                     ELSE f[CHOOSE x \in s : TRUE] + h[s \ {CHOOSE x \in s : TRUE}]]
<1>1. it = [s \in SUBSET S |->
                     IF s = {} THEN 0
                     ELSE f[CHOOSE x \in s : TRUE] + it[s \ {CHOOSE x \in s : TRUE}]]
  <2>1. \E h : h = [s \in SUBSET S |->
                     IF s = {} THEN 0
                     ELSE f[CHOOSE x \in s : TRUE] + h[s \ {CHOOSE x \in s : TRUE}]]
    BY Zenon DEF SumTable, Chosen
  <2>. QED BY <2>1
<1>2. SumTable(it, f, SUBSET S) BY <1>1, Zenon DEF SumTable, Chosen
<1>3. SumOn(f, S) = it[S]
  BY DEF SumOn, SumFunctionOnSet, FoldFunctionOnSet, MapThenFoldSet
<1>. QED BY <1>2, <1>3

\* The subsets of S with at most n members.
Small(S, n) == {s \in SUBSET S : Cardinality(s) <= n}

LEMMA SmallRest ==
  ASSUME NEW S, IsFiniteSet(S), NEW n \in Nat, NEW s \in Small(S, n), s # {}
  PROVE  /\ Chosen(s) \in s /\ Cardinality(s \ {Chosen(s)}) = Cardinality(s) - 1
         /\ n # 0 /\ s \ {Chosen(s)} \in Small(S, n - 1) /\ s \ {Chosen(s)} \in Small(S, n)
<1>1. s \in SUBSET S /\ Cardinality(s) <= n BY DEF Small
<1>2. IsFiniteSet(s) BY <1>1, FS_Subset
<1>3. Chosen(s) \in s BY DEF Chosen
<1>4. Cardinality(s) \in Nat /\ Cardinality(s) # 0 BY <1>2, FS_CardinalityType, FS_EmptySet
<1>5. Cardinality(s \ {Chosen(s)}) = Cardinality(s) - 1 BY <1>2, <1>3, FS_RemoveElement
<1>6. s \ {Chosen(s)} \in SUBSET S BY <1>1
<1>. QED BY <1>1, <1>3, <1>4, <1>5, <1>6 DEF Small

LEMMA SmallTableExists ==
  ASSUME NEW f, NEW S, IsFiniteSet(S), NEW m \in Nat
  PROVE  \E it : SumTable(it, f, Small(S, m))
<1>. DEFINE Bad == {n \in Nat : ~ \E it : SumTable(it, f, Small(S, n))}
<1>1. SUFFICES ASSUME Bad # {} PROVE FALSE
  OBVIOUS
<1>2. PICK k \in Bad : \A z \in Bad : ~(<<z, k>> \in OpToRel(<, Nat))
  BY <1>1, WFMin, NatLessThanWellFounded
<1>3. k \in Nat /\ \A z \in Nat : z < k => \E it : SumTable(it, f, Small(S, z))
  BY <1>2 DEF OpToRel
<1>4. \E it : SumTable(it, f, Small(S, k))
  <2>1. CASE k = 0
    <3>1. ASSUME NEW s \in Small(S, k), s # {} PROVE FALSE
      <4>1. k # 0 BY <1>3, <3>1, SmallRest
      <4>. QED BY <2>1, <4>1
    <3>2. [s \in Small(S, k) |-> 0]
            = [s \in Small(S, k) |-> IF s = {} THEN 0 ELSE
                 f[Chosen(s)] + [z \in Small(S, k) |-> 0][s \ {Chosen(s)}]]
      BY <3>1
    <3>3. SumTable([s \in Small(S, k) |-> 0], f, Small(S, k)) BY <3>2 DEF SumTable
    <3>. QED BY <3>3
  <2>2. CASE k # 0
    <3>1. k - 1 \in Nat /\ k - 1 < k BY <1>3, <2>2
    <3>2. PICK h : SumTable(h, f, Small(S, k - 1)) BY <1>3, <3>1
    <3>. DEFINE v(s) == IF s = {} THEN 0 ELSE f[Chosen(s)] + h[s \ {Chosen(s)}]
                g == [s \in Small(S, k) |-> v(s)]
    <3>3. \A s \in Small(S, k - 1) : h[s] = v(s) BY <3>2, Zenon DEF SumTable
    <3>4. \A s \in Small(S, k) : g[s] = v(s) OBVIOUS
    <3>. HIDE DEF g
    <3>5. \A s \in Small(S, k) : s # {} => g[s \ {Chosen(s)}] = h[s \ {Chosen(s)}]
      <4>. HIDE DEF v
      <4>1. \A s \in Small(S, k) : s # {} =>
              s \ {Chosen(s)} \in Small(S, k) /\ s \ {Chosen(s)} \in Small(S, k - 1)
        BY <1>3, SmallRest
      <4>. QED BY <3>3, <3>4, <4>1
    <3>6. \A s \in Small(S, k) :
            g[s] = IF s = {} THEN 0 ELSE f[Chosen(s)] + g[s \ {Chosen(s)}]
      BY <3>4, <3>5
    <3>7. g = [s \in Small(S, k) |-> g[s]] BY DEF g
    <3>8. SumTable(g, f, Small(S, k)) BY <3>6, <3>7 DEF SumTable
    <3>. QED BY <3>8
  <2>. QED BY <2>1, <2>2
<1>. QED BY <1>2, <1>4

LEMMA SumHasTable ==
  ASSUME NEW f, NEW S, IsFiniteSet(S)
  PROVE  \E it : SumTable(it, f, SUBSET S) /\ SumOn(f, S) = it[S]
<1>1. Small(S, Cardinality(S)) = SUBSET S
  <2>1. \A s \in SUBSET S : Cardinality(s) <= Cardinality(S) BY FS_Subset
  <2>. QED BY <2>1 DEF Small
<1>2. Cardinality(S) \in Nat BY FS_CardinalityType
<1>3. \E it : SumTable(it, f, Small(S, Cardinality(S))) BY <1>2, SmallTableExists
<1>4. \E it : SumTable(it, f, SUBSET S) BY <1>1, <1>3, Zenon
<1>. QED BY <1>4, SumOnTable

\* All tables of sums agree, also if their functions agree only on the set.
LEMMA TablesAgree ==
  ASSUME NEW S, IsFiniteSet(S), NEW f, NEW g, NEW T \in SUBSET S,
         \A x \in T : f[x] = g[x],
         NEW a, SumTable(a, f, SUBSET S), NEW b, SumTable(b, g, SUBSET T)
  PROVE  a[T] = b[T]
<1>. DEFINE Bad == {n \in Nat : \E s \in SUBSET T : Cardinality(s) = n /\ a[s] # b[s]}
<1>1. SUFFICES ASSUME a[T] # b[T] PROVE FALSE
  OBVIOUS
<1>2. IsFiniteSet(T) /\ Cardinality(T) \in Nat BY FS_Subset, FS_CardinalityType
<1>3. Bad # {} BY <1>1, <1>2
<1>4. PICK k \in Bad : \A z \in Bad : ~(<<z, k>> \in OpToRel(<, Nat))
  BY <1>3, WFMin, NatLessThanWellFounded
<1>5. PICK s \in SUBSET T : Cardinality(s) = k /\ a[s] # b[s] OBVIOUS
<1>6. \A u \in SUBSET T : Cardinality(u) \in Nat /\ Cardinality(u) < k => a[u] = b[u]
  <2>1. k \in Nat /\ \A z \in Bad : ~(z < k)
    <3>1. Bad \subseteq Nat OBVIOUS
    <3>. HIDE DEF Bad
    <3>. QED BY <1>4, <3>1 DEF OpToRel
  <2>. QED BY <2>1
<1>. HIDE DEF Bad
<1>7. s \in SUBSET S OBVIOUS
<1>8. /\ a[s] = IF s = {} THEN 0 ELSE f[Chosen(s)] + a[s \ {Chosen(s)}]
      /\ b[s] = IF s = {} THEN 0 ELSE g[Chosen(s)] + b[s \ {Chosen(s)}]
  BY <1>7, Zenon DEF SumTable
<1>9. s # {} BY <1>5, <1>8
<1>10. Chosen(s) \in s BY <1>9 DEF Chosen
<1>11. /\ s \ {Chosen(s)} \in SUBSET T
       /\ Cardinality(s \ {Chosen(s)}) \in Nat /\ Cardinality(s \ {Chosen(s)}) < k
  <2>1. IsFiniteSet(s) BY <1>2, FS_Subset
  <2>2. Cardinality(s \ {Chosen(s)}) = Cardinality(s) - 1 /\ Cardinality(s) \in Nat
        /\ Cardinality(s) # 0
    BY <1>9, <1>10, <2>1, FS_RemoveElement, FS_CardinalityType, FS_EmptySet
  <2>. QED BY <1>5, <2>2
<1>12. a[s \ {Chosen(s)}] = b[s \ {Chosen(s)}] BY <1>6, <1>11
<1>13. f[Chosen(s)] = g[Chosen(s)] BY <1>10
<1>. QED BY <1>5, <1>8, <1>9, <1>12, <1>13

\* Sums of functions that agree are equal.
LEMMA SumEqual ==
  ASSUME NEW S, IsFiniteSet(S), NEW f, NEW g, \A x \in S : f[x] = g[x]
  PROVE  SumOn(f, S) = SumOn(g, S)
<1>1. PICK a : SumTable(a, f, SUBSET S) /\ SumOn(f, S) = a[S] BY SumHasTable
<1>2. PICK b : SumTable(b, g, SUBSET S) /\ SumOn(g, S) = b[S] BY SumHasTable
<1>3. S \in SUBSET S OBVIOUS
<1>. QED BY <1>1, <1>2, <1>3, TablesAgree

LEMMA SumChosen ==
  ASSUME NEW S, IsFiniteSet(S), NEW f
  PROVE  /\ S = {} => SumOn(f, S) = 0
         /\ S # {} => SumOn(f, S) = f[Chosen(S)] + SumOn(f, S \ {Chosen(S)})
<1>1. PICK a : SumTable(a, f, SUBSET S) /\ SumOn(f, S) = a[S] BY SumHasTable
<1>. DEFINE T == S \ {Chosen(S)}
<1>2. S \in SUBSET S /\ T \in SUBSET S OBVIOUS
<1>3. IsFiniteSet(T) BY <1>2, FS_Subset
<1>4. PICK b : SumTable(b, f, SUBSET T) /\ SumOn(f, T) = b[T] BY <1>3, SumHasTable
<1>5. a[T] = b[T] BY <1>1, <1>2, <1>4, TablesAgree
<1>6. a[S] = IF S = {} THEN 0 ELSE f[Chosen(S)] + a[T] BY <1>1, <1>2, Zenon DEF SumTable
<1>. QED BY <1>1, <1>4, <1>5, <1>6

\* A sum of integers is an integer, and any member may be taken out of it.
LEMMA SumStep ==
  ASSUME NEW S, IsFiniteSet(S), NEW f, \A x \in S : f[x] \in Int
  PROVE  /\ SumOn(f, S) \in Int
         /\ \A x \in S : SumOn(f, S) = f[x] + SumOn(f, S \ {x})
<1>. DEFINE Good(T) == /\ SumOn(f, T) \in Int
                       /\ \A x \in T : SumOn(f, T) = f[x] + SumOn(f, T \ {x})
            Bad == {n \in Nat : \E T \in SUBSET S : Cardinality(T) = n /\ ~Good(T)}
<1>1. SUFFICES ASSUME ~Good(S) PROVE FALSE
  OBVIOUS
<1>2. \A T \in SUBSET S : IsFiniteSet(T) /\ Cardinality(T) \in Nat
  BY FS_Subset, FS_CardinalityType
<1>3. Bad # {}
  <2>. HIDE DEF Good
  <2>. QED BY <1>1, <1>2
<1>4. PICK k \in Bad : \A z \in Bad : ~(<<z, k>> \in OpToRel(<, Nat))
  BY <1>3, WFMin, NatLessThanWellFounded
<1>5. PICK T \in SUBSET S : Cardinality(T) = k /\ ~Good(T) OBVIOUS
<1>6. \A u \in SUBSET S : Cardinality(u) < k => Good(u)
  <2>. HIDE DEF Good
  <2>1. k \in Nat /\ \A z \in Bad : ~(z < k)
    <3>1. Bad \subseteq Nat OBVIOUS
    <3>. HIDE DEF Bad
    <3>. QED BY <1>4, <3>1 DEF OpToRel
  <2>. QED BY <1>2, <2>1
<1>. HIDE DEF Bad
<1>7. \A x \in T : Cardinality(T \ {x}) < k
  <2>1. \A x \in T : Cardinality(T \ {x}) = Cardinality(T) - 1 BY <1>2, FS_RemoveElement
  <2>. QED BY <1>2, <1>5, <2>1
<1>8. T # {}
  <2>1. SUFFICES ASSUME T = {} PROVE FALSE OBVIOUS
  <2>2. SumOn(f, T) = 0 BY <1>2, <2>1, SumChosen
  <2>. QED BY <1>5, <2>1, <2>2
<1>. DEFINE c == Chosen(T)
<1>9. c \in T BY <1>8 DEF Chosen
<1>10. SumOn(f, T) = f[c] + SumOn(f, T \ {c}) BY <1>2, <1>8, SumChosen
<1>11. T \ {c} \in SUBSET S /\ Cardinality(T \ {c}) < k BY <1>7, <1>9
<1>12. Good(T \ {c})
  <2>. HIDE DEF Good
  <2>. QED BY <1>6, <1>11
<1>. HIDE DEF c
<1>13. f[c] \in Int BY <1>9
<1>14. SumOn(f, T) \in Int BY <1>10, <1>12, <1>13
<1>15. ASSUME NEW x \in T PROVE SumOn(f, T) = f[x] + SumOn(f, T \ {x})
  <2>1. CASE x = c BY <1>10, <2>1
  <2>2. CASE x # c
    <3>1. x \in T \ {c} /\ c \in T \ {x} /\ (T \ {c}) \ {x} = (T \ {x}) \ {c}
      BY <1>9, <2>2
    <3>2. SumOn(f, T \ {c}) = f[x] + SumOn(f, (T \ {c}) \ {x}) BY <1>12, <3>1
    <3>3. T \ {x} \in SUBSET S /\ Cardinality(T \ {x}) < k BY <1>7
    <3>4. Good(T \ {x})
      <4>. HIDE DEF Good
      <4>. QED BY <1>6, <3>3
    <3>5. SumOn(f, T \ {x}) = f[c] + SumOn(f, (T \ {x}) \ {c}) BY <3>1, <3>4
    <3>6. (T \ {c}) \ {x} \in SUBSET S /\ Cardinality((T \ {c}) \ {x}) < k
      <4>1. Cardinality((T \ {c}) \ {x}) = Cardinality(T \ {c}) - 1
        BY <1>2, <1>11, <3>1, FS_RemoveElement
      <4>. QED BY <1>2, <1>11, <4>1, <1>5
    <3>7. Good((T \ {c}) \ {x})
      <4>. HIDE DEF Good
      <4>. QED BY <1>6, <3>6
    <3>8. f[x] \in Int OBVIOUS
    <3>9. SumOn(f, (T \ {c}) \ {x}) \in Int BY <3>7
    <3>10. SumOn(f, (T \ {c}) \ {x}) = SumOn(f, (T \ {x}) \ {c}) BY <3>1, Zenon
    <3>. QED BY <1>10, <1>13, <3>1, <3>2, <3>5, <3>8, <3>9, <3>10
  <2>. QED BY <2>1, <2>2
<1>. QED BY <1>5, <1>14, <1>15

IntsOn(f, S) == \A x \in S : f[x] \in Int

\* F is 0 for no members and grows with every member by its value.
Grows(F, f, S) == F[{}] = 0 /\ \A T \in SUBSET S : \A x \in T : F[T] = f[x] + F[T \ {x}]

LEMMA SumIs ==
  ASSUME NEW S, IsFiniteSet(S), NEW f, IntsOn(f, S), NEW F, Grows(F, f, S)
  PROVE  SumOn(f, S) = F[S]
<1>0. (\A x \in S : f[x] \in Int) /\ F[{}] = 0
      /\ \A T \in SUBSET S : \A x \in T : F[T] = f[x] + F[T \ {x}]
  BY DEF IntsOn, Grows
<1>. DEFINE Bad == {n \in Nat : \E T \in SUBSET S : Cardinality(T) = n /\ SumOn(f, T) # F[T]}
<1>1. SUFFICES ASSUME SumOn(f, S) # F[S] PROVE FALSE
  OBVIOUS
<1>2. \A T \in SUBSET S : IsFiniteSet(T) /\ Cardinality(T) \in Nat
  BY FS_Subset, FS_CardinalityType
<1>3. Bad # {} BY <1>1, <1>2
<1>4. PICK k \in Bad : \A z \in Bad : ~(<<z, k>> \in OpToRel(<, Nat))
  BY <1>3, WFMin, NatLessThanWellFounded
<1>5. PICK T \in SUBSET S : Cardinality(T) = k /\ SumOn(f, T) # F[T] OBVIOUS
<1>6. \A u \in SUBSET S : Cardinality(u) < k => SumOn(f, u) = F[u]
  <2>1. k \in Nat /\ \A z \in Bad : ~(z < k)
    <3>1. Bad \subseteq Nat OBVIOUS
    <3>. HIDE DEF Bad
    <3>. QED BY <1>4, <3>1 DEF OpToRel
  <2>. QED BY <1>2, <2>1
<1>. HIDE DEF Bad
<1>7. CASE T = {}
  <2>1. SumOn(f, T) = 0 BY <1>2, <1>7, SumChosen
  <2>. QED BY <1>0, <1>5, <1>7, <2>1
<1>8. CASE T # {}
  <2>1. PICK x \in T : TRUE BY <1>8
  <2>2. Cardinality(T \ {x}) = Cardinality(T) - 1 BY <1>2, FS_RemoveElement
  <2>3. T \ {x} \in SUBSET S /\ Cardinality(T \ {x}) < k BY <1>2, <1>5, <2>2
  <2>4. SumOn(f, T \ {x}) = F[T \ {x}] BY <1>6, <2>3
  <2>5. SumOn(f, T) = f[x] + SumOn(f, T \ {x})
    <3>1. \A y \in T : f[y] \in Int BY <1>0
    <3>. QED BY <1>2, <3>1, SumStep
  <2>6. F[T] = f[x] + F[T \ {x}] BY <1>0
  <2>. QED BY <1>5, <2>4, <2>5, <2>6
<1>. QED BY <1>7, <1>8

Combines(h, a, f, b, g, S) == \A x \in S : h[x] = a * f[x] + b * g[x]

LEMMA SumLinear ==
  ASSUME NEW S, IsFiniteSet(S), NEW f, NEW g, NEW h, NEW a \in Int, NEW b \in Int,
         IntsOn(f, S), IntsOn(g, S), Combines(h, a, f, b, g, S)
  PROVE  SumOn(h, S) = a * SumOn(f, S) + b * SumOn(g, S)
<1>0. \A x \in S : f[x] \in Int /\ g[x] \in Int /\ h[x] = a * f[x] + b * g[x]
  BY DEF IntsOn, Combines
<1>. DEFINE F == [T \in SUBSET S |-> a * SumOn(f, T) + b * SumOn(g, T)]
<1>1. \A T \in SUBSET S : IsFiniteSet(T) BY FS_Subset
<1>2. F[{}] = 0
  <2>1. SumOn(f, {}) = 0 /\ SumOn(g, {}) = 0 BY FS_EmptySet, SumChosen
  <2>2. a * 0 + b * 0 = 0 OBVIOUS
  <2>. QED BY <2>1, <2>2
<1>3. ASSUME NEW T \in SUBSET S, NEW x \in T PROVE F[T] = h[x] + F[T \ {x}]
  <2>1. T \ {x} \in SUBSET S /\ x \in S OBVIOUS
  <2>2. SumOn(f, T) = f[x] + SumOn(f, T \ {x}) /\ SumOn(f, T \ {x}) \in Int
    BY <1>0, <1>1, <2>1, SumStep
  <2>3. SumOn(g, T) = g[x] + SumOn(g, T \ {x}) /\ SumOn(g, T \ {x}) \in Int
    BY <1>0, <1>1, <2>1, SumStep
  <2>4. f[x] \in Int /\ g[x] \in Int /\ h[x] = a * f[x] + b * g[x] BY <1>0, <2>1
  <2>5. \A p, q, r, s \in Int : a * (p + q) + b * (r + s) = (a * p + b * r) + (a * q + b * s)
    BY SMT
  <2>6. F[T] = a * SumOn(f, T) + b * SumOn(g, T) OBVIOUS
  <2>7. F[T \ {x}] = a * SumOn(f, T \ {x}) + b * SumOn(g, T \ {x}) BY <2>1
  <2>. HIDE DEF F
  <2>. QED BY <2>2, <2>3, <2>4, <2>5, <2>6, <2>7
<1>4. F[S] = a * SumOn(f, S) + b * SumOn(g, S) OBVIOUS
<1>5. \A x \in S : h[x] \in Int BY <1>0
<1>. HIDE DEF F
<1>6. Grows(F, h, S) /\ IntsOn(h, S) BY <1>2, <1>3, <1>5 DEF Grows, IntsOn
<1>7. SumOn(h, S) = F[S] BY <1>6, SumIs
<1>. QED BY <1>4, <1>7

LEMMA SumZero ==
  ASSUME NEW S, IsFiniteSet(S), NEW f, \A x \in S : f[x] = 0
  PROVE  SumOn(f, S) = 0
<1>1. \A x \in S : f[x] \in Int /\ f[x] = 0 * f[x] + 0 * f[x] OBVIOUS
<1>2. IntsOn(f, S) /\ Combines(f, 0, f, 0, f, S) BY <1>1 DEF IntsOn, Combines
<1>3. SumOn(f, S) = 0 * SumOn(f, S) + 0 * SumOn(f, S) BY <1>2, SumLinear
<1>4. SumOn(f, S) \in Int BY <1>1, SumStep
<1>. QED BY <1>3, <1>4

\* A function that is 0 but at one place.
LEMMA SumSingle ==
  ASSUME NEW S, IsFiniteSet(S), NEW f, NEW y \in S, f[y] \in Int, \A x \in S \ {y} : f[x] = 0
  PROVE  SumOn(f, S) = f[y]
<1>1. IsFiniteSet(S \ {y}) BY FS_Subset
<1>2. SumOn(f, S \ {y}) = 0 BY <1>1, SumZero
<1>3. SumOn(f, S) = f[y] + SumOn(f, S \ {y})
  <2>1. \A x \in S : f[x] \in Int OBVIOUS
  <2>. QED BY <2>1, SumStep
<1>. QED BY <1>2, <1>3

\* A table with the sums f of its rows and g of its columns.
Crossed(row, col, f, g, S, R) ==
  /\ \A s \in S : \A r \in R : row[s][r] \in Int /\ col[r][s] = row[s][r]
  /\ \A s \in S : f[s] = SumOn(row[s], R)
  /\ \A r \in R : g[r] = SumOn(col[r], S)

LEMMA SumSwap ==
  ASSUME NEW S, IsFiniteSet(S), NEW R, IsFiniteSet(R), NEW row, NEW col, NEW f, NEW g,
         Crossed(row, col, f, g, S, R)
  PROVE  SumOn(f, S) = SumOn(g, R)
<1>0. /\ \A s \in S : \A r \in R : row[s][r] \in Int /\ col[r][s] = row[s][r]
      /\ \A s \in S : f[s] = SumOn(row[s], R)
      /\ \A r \in R : g[r] = SumOn(col[r], S)
  BY DEF Crossed
<1>. DEFINE part(T) == [r \in R |-> SumOn(col[r], T)]
            F == [T \in SUBSET S |-> SumOn(part(T), R)]
<1>1. \A T \in SUBSET S : IsFiniteSet(T) BY FS_Subset
<1>2. F[{}] = 0
  <2>1. \A r \in R : part({})[r] = 0 BY FS_EmptySet, SumChosen
  <2>. HIDE DEF part
  <2>2. SumOn(part({}), R) = 0 BY <2>1, SumZero
  <2>. QED BY <2>2
<1>3. \A s \in S : f[s] \in Int BY <1>0, SumStep
<1>4. ASSUME NEW T \in SUBSET S, NEW s \in T PROVE F[T] = f[s] + F[T \ {s}]
  <2>1. T \ {s} \in SUBSET S /\ s \in S OBVIOUS
  <2>2. ASSUME NEW r \in R
        PROVE  /\ part(T)[r] = row[s][r] + part(T \ {s})[r]
               /\ part(T \ {s})[r] \in Int /\ row[s][r] \in Int
    <3>1. /\ SumOn(col[r], T) = col[r][s] + SumOn(col[r], T \ {s})
          /\ SumOn(col[r], T \ {s}) \in Int
      BY <1>0, <1>1, <2>1, SumStep
    <3>2. col[r][s] = row[s][r] /\ row[s][r] \in Int BY <1>0, <2>1
    <3>. QED BY <3>1, <3>2
  <2>3. F[T] = SumOn(part(T), R) /\ F[T \ {s}] = SumOn(part(T \ {s}), R) BY <2>1
  <2>. HIDE DEF part, F
  <2>4. /\ IntsOn(row[s], R) /\ IntsOn(part(T \ {s}), R)
        /\ Combines(part(T), 1, row[s], 1, part(T \ {s}), R)
    <3>1. \A p, q \in Int : p + q = 1 * p + 1 * q OBVIOUS
    <3>. QED BY <2>2, <3>1 DEF IntsOn, Combines
  <2>5. SumOn(part(T), R) = 1 * SumOn(row[s], R) + 1 * SumOn(part(T \ {s}), R)
    BY <2>4, SumLinear
  <2>6. SumOn(part(T \ {s}), R) \in Int BY <2>4, SumStep DEF IntsOn
  <2>7. SumOn(row[s], R) = f[s] /\ f[s] \in Int BY <1>0, <1>3, <2>1
  <2>. QED BY <2>3, <2>5, <2>6, <2>7
<1>. HIDE DEF F
<1>9. Grows(F, f, S) /\ IntsOn(f, S) BY <1>2, <1>3, <1>4 DEF Grows, IntsOn
<1>5. SumOn(f, S) = F[S] BY <1>9, SumIs
<1>6. F[S] = SumOn(part(S), R) BY DEF F
<1>7. \A r \in R : part(S)[r] = g[r] BY <1>0
<1>. HIDE DEF part
<1>8. SumOn(part(S), R) = SumOn(g, R) BY <1>7, SumEqual
<1>. QED BY <1>5, <1>6, <1>8

\* h and k are the function f, moved along p and weighted by e, at the end and the start
\* of p.
Fibered(h, k, p, f, e, S, R) ==
  /\ \A s \in S : p[s] \in R /\ k[s] = f[s] * e[p[s]]
  /\ \A r \in R : h[r] = e[r] * SumOn([s \in S |-> IF p[s] = r THEN f[s] ELSE 0], S)

LEMMA SumFibers ==
  ASSUME NEW S, IsFiniteSet(S), NEW R, IsFiniteSet(R), NEW p,
         NEW f, IntsOn(f, S), NEW e, IntsOn(e, R), NEW h, NEW k,
         Fibered(h, k, p, f, e, S, R)
  PROVE  SumOn(h, R) = SumOn(k, S)
<1>. DEFINE row == [s \in S |-> [r \in R |-> IF p[s] = r THEN f[s] * e[r] ELSE 0]]
            col == [r \in R |-> [s \in S |-> IF p[s] = r THEN f[s] * e[r] ELSE 0]]
            part(r) == [s \in S |-> IF p[s] = r THEN f[s] ELSE 0]
<1>0. /\ \A s \in S : p[s] \in R /\ k[s] = f[s] * e[p[s]]
      /\ \A r \in R : h[r] = e[r] * SumOn([s \in S |-> IF p[s] = r THEN f[s] ELSE 0], S)
  BY DEF Fibered
<1>1. \A s \in S : f[s] \in Int BY DEF IntsOn
<1>2. \A r \in R : e[r] \in Int BY DEF IntsOn
<1>3. \A s \in S : \A r \in R : f[s] * e[r] \in Int BY <1>1, <1>2
<1>4. \A s \in S : \A r \in R : row[s][r] \in Int /\ col[r][s] = row[s][r] BY <1>3
<1>5. ASSUME NEW s \in S PROVE k[s] = SumOn(row[s], R)
  <2>1. p[s] \in R /\ row[s][p[s]] = f[s] * e[p[s]] BY <1>0
  <2>2. \A r \in R \ {p[s]} : row[s][r] = 0 OBVIOUS
  <2>3. row[s][p[s]] \in Int BY <1>4, <2>1
  <2>. HIDE DEF row
  <2>4. SumOn(row[s], R) = row[s][p[s]] BY <2>1, <2>2, <2>3, SumSingle
  <2>. QED BY <1>0, <2>1, <2>4
<1>6. ASSUME NEW r \in R PROVE h[r] = SumOn(col[r], S)
  <2>1. IntsOn(part(r), S) BY <1>1 DEF IntsOn
  <2>2. Combines(col[r], e[r], part(r), 0, part(r), S)
    <3>1. ASSUME NEW s \in S
          PROVE  col[r][s] = e[r] * part(r)[s] + 0 * part(r)[s]
      <4>1. f[s] \in Int /\ e[r] \in Int BY <1>1, <1>2
      <4>2. \A a, b \in Int : a * b = b * a + 0 * a /\ 0 = b * 0 + 0 * 0 OBVIOUS
      <4>. QED BY <4>1, <4>2
    <3>. QED BY <3>1 DEF Combines
  <2>3. h[r] = e[r] * SumOn(part(r), S) BY <1>0
  <2>. HIDE DEF part, col
  <2>4. e[r] \in Int /\ SumOn(part(r), S) \in Int BY <1>2, <2>1, SumStep DEF IntsOn
  <2>5. SumOn(col[r], S) = e[r] * SumOn(part(r), S) + 0 * SumOn(part(r), S)
    BY <2>1, <2>2, <2>4, SumLinear
  <2>6. \A a, b \in Int : a * b + 0 * b = a * b OBVIOUS
  <2>. QED BY <2>3, <2>4, <2>5, <2>6
<1>. HIDE DEF row, col
<1>7. Crossed(row, col, k, h, S, R) BY <1>4, <1>5, <1>6 DEF Crossed
<1>. QED BY <1>7, SumSwap

-----------------------------------------------------------------------------
(* Weighted outcomes of a sequence of random draws.                         *)

\* The sum of the weights of dist, each times what e gives its outcome.
Weighted(dist, e) == SumOn([o \in DOMAIN dist |-> dist[o] * e[o]], DOMAIN dist)

\* dist gives finitely many outcomes whole weights.
WeightsOn(dist) == IsFiniteSet(DOMAIN dist) /\ IntsOn(dist, DOMAIN dist)

LEMMA WeightedInt ==
  ASSUME NEW dist, WeightsOn(dist), NEW e, \A o \in DOMAIN dist : e[o] \in Int
  PROVE  Weighted(dist, e) \in Int /\ SumFunction(dist) \in Int
<1>1. /\ IsFiniteSet(DOMAIN dist)
      /\ \A o \in DOMAIN dist : dist[o] \in Int /\ dist[o] * e[o] \in Int
  BY DEF WeightsOn, IntsOn
<1>. DEFINE g == [o \in DOMAIN dist |-> dist[o] * e[o]]
<1>2. \A o \in DOMAIN dist : g[o] \in Int BY <1>1
<1>3. Weighted(dist, e) = SumOn(g, DOMAIN dist) BY DEF Weighted
<1>4. SumFunction(dist) = SumOn(dist, DOMAIN dist) BY DEF SumFunction, SumOn
<1>. HIDE DEF g
<1>. QED BY <1>1, <1>2, <1>3, <1>4, SumStep

LEMMA WeightedEqual ==
  ASSUME NEW dist, WeightsOn(dist), NEW d, NEW e, \A o \in DOMAIN dist : d[o] = e[o]
  PROVE  Weighted(dist, d) = Weighted(dist, e)
<1>. DEFINE D == DOMAIN dist
            f == [o \in D |-> dist[o] * d[o]]
            g == [o \in D |-> dist[o] * e[o]]
<1>1. IsFiniteSet(D) BY DEF WeightsOn
<1>2. \A o \in D : f[o] = g[o] OBVIOUS
<1>3. Weighted(dist, d) = SumOn(f, D) /\ Weighted(dist, e) = SumOn(g, D) BY DEF Weighted
<1>. HIDE DEF f, g, D
<1>. QED BY <1>1, <1>2, <1>3, SumEqual

LEMMA WeightedOnes ==
  ASSUME NEW dist, WeightsOn(dist), NEW e, \A o \in DOMAIN dist : e[o] = 1
  PROVE  Weighted(dist, e) = SumFunction(dist) /\ SumFunction(dist) \in Int
<1>. DEFINE D == DOMAIN dist
            f == [o \in D |-> dist[o] * e[o]]
<1>1. IsFiniteSet(D) /\ \A o \in D : dist[o] \in Int BY DEF WeightsOn, IntsOn
<1>2. \A o \in D : f[o] = dist[o] BY <1>1
<1>3. Weighted(dist, e) = SumOn(f, D) BY DEF Weighted
<1>4. SumFunction(dist) = SumOn(dist, D) BY DEF SumFunction, SumOn
<1>. HIDE DEF f, D
<1>. QED BY <1>1, <1>2, <1>3, <1>4, SumEqual, SumStep

\* On S, e is a times d plus b.
Affine(e, a, d, b, S) == \A o \in S : d[o] \in Int /\ e[o] = a * d[o] + b

LEMMA WeightedLinear ==
  ASSUME NEW dist, WeightsOn(dist), NEW d, NEW e, NEW a \in Int, NEW b \in Int,
         Affine(e, a, d, b, DOMAIN dist)
  PROVE  Weighted(dist, e) = a * Weighted(dist, d) + b * SumFunction(dist)
<1>. DEFINE D == DOMAIN dist
            f == [o \in D |-> dist[o] * d[o]]
            g == [o \in D |-> dist[o] * e[o]]
<1>1. IsFiniteSet(D) /\ \A o \in D : dist[o] \in Int BY DEF WeightsOn, IntsOn
<1>2. ASSUME NEW o \in D PROVE f[o] \in Int /\ g[o] = a * f[o] + b * dist[o]
  <2>1. dist[o] \in Int /\ d[o] \in Int /\ e[o] = a * d[o] + b BY <1>1 DEF Affine
  <2>2. f[o] = dist[o] * d[o] /\ g[o] = dist[o] * e[o] OBVIOUS
  <2>. HIDE DEF f, g, D
  <2>3. f[o] \in Int BY <2>1, <2>2
  <2>4. dist[o] * (a * d[o] + b) = a * (dist[o] * d[o]) + b * dist[o] BY <2>1
  <2>. QED BY <2>1, <2>2, <2>3, <2>4
<1>3. Weighted(dist, d) = SumOn(f, D) /\ Weighted(dist, e) = SumOn(g, D) BY DEF Weighted
<1>4. SumFunction(dist) = SumOn(dist, D) BY DEF SumFunction, SumOn
<1>. HIDE DEF f, g, D
<1>5. IntsOn(f, D) /\ IntsOn(dist, D) /\ Combines(g, a, f, b, dist, D)
  BY <1>1, <1>2 DEF IntsOn, Combines
<1>6. SumOn(g, D) = a * SumOn(f, D) + b * SumOn(dist, D) BY <1>1, <1>5, SumLinear
<1>. QED BY <1>3, <1>4, <1>6

-----------------------------------------------------------------------------
(* The reservoir.                                                          *)

\* The number of members of S that p takes to r, as a sum.
LEMMA SumCounts ==
  ASSUME NEW S, IsFiniteSet(S), NEW p, NEW r
  PROVE  /\ SumOn([s \in S |-> IF p[s] = r THEN 1 ELSE 0], S) = Cardinality({s \in S : p[s] = r})
         /\ Cardinality({s \in S : p[s] = r}) \in Nat
<1>. DEFINE f == [s \in S |-> IF p[s] = r THEN 1 ELSE 0]
            at(T) == {s \in T : p[s] = r}
            F == [T \in SUBSET S |-> Cardinality(at(T))]
<1>1. ASSUME NEW T \in SUBSET S PROVE IsFiniteSet(at(T)) /\ Cardinality(at(T)) \in Nat
  <2>1. at(T) \subseteq S OBVIOUS
  <2>. HIDE DEF at
  <2>. QED BY <2>1, FS_Subset, FS_CardinalityType
<1>2. F[{}] = 0
  <2>1. at({}) = {} OBVIOUS
  <2>2. F[{}] = Cardinality(at({})) OBVIOUS
  <2>. HIDE DEF at, F
  <2>. QED BY <2>1, <2>2, FS_EmptySet
<1>3. ASSUME NEW T \in SUBSET S, NEW x \in T PROVE F[T] = f[x] + F[T \ {x}]
  <2>1. T \ {x} \in SUBSET S /\ x \in S OBVIOUS
  <2>2. F[T] = Cardinality(at(T)) /\ F[T \ {x}] = Cardinality(at(T \ {x})) BY <2>1
  <2>3. CASE p[x] = r
    <3>1. x \in at(T) /\ at(T \ {x}) = at(T) \ {x} BY <2>3
    <3>2. f[x] = 1 BY <2>1, <2>3
    <3>. HIDE DEF F, f, at
    <3>3. Cardinality(at(T) \ {x}) = Cardinality(at(T)) - 1 BY <1>1, <3>1, FS_RemoveElement
    <3>4. Cardinality(at(T \ {x})) = Cardinality(at(T)) - 1 BY <3>1, <3>3, Zenon
    <3>5. Cardinality(at(T)) \in Nat BY <1>1
    <3>. QED BY <2>2, <3>2, <3>4, <3>5
  <2>4. CASE p[x] # r
    <3>1. at(T \ {x}) = at(T) BY <2>4
    <3>2. f[x] = 0 BY <2>1, <2>4
    <3>. HIDE DEF F, f, at
    <3>3. Cardinality(at(T \ {x})) = Cardinality(at(T)) BY <3>1, Zenon
    <3>4. Cardinality(at(T)) \in Nat BY <1>1
    <3>. QED BY <2>2, <3>2, <3>3, <3>4
  <2>. QED BY <2>3, <2>4
<1>4. \A s \in S : f[s] \in Int OBVIOUS
<1>5. F[S] = Cardinality(at(S)) OBVIOUS
<1>. HIDE DEF F, f
<1>6. Grows(F, f, S) /\ IntsOn(f, S) BY <1>2, <1>3, <1>4 DEF Grows, IntsOn
<1>7. SumOn(f, S) = F[S] BY <1>6, SumIs
<1>8. Cardinality(at(S)) \in Nat
  <2>. HIDE DEF at
  <2>. QED BY <1>1
<1>. QED BY <1>5, <1>7, <1>8 DEF f

LEMMA SumConstant ==
  ASSUME NEW S, IsFiniteSet(S), NEW f, NEW c \in Int, \A x \in S : f[x] = c
  PROVE  SumOn(f, S) = c * Cardinality(S)
<1>. DEFINE F == [T \in SUBSET S |-> c * Cardinality(T)]
<1>1. ASSUME NEW T \in SUBSET S PROVE F[T] = c * Cardinality(T)
  OBVIOUS
<1>2. F[S] = c * Cardinality(S) BY <1>1
<1>3. F[{}] = 0
  <2>1. F[{}] = c * Cardinality({}) BY <1>1
  <2>. HIDE DEF F
  <2>. QED BY <2>1, FS_EmptySet
<1>. HIDE DEF F
<1>4. ASSUME NEW T \in SUBSET S, NEW x \in T PROVE F[T] = f[x] + F[T \ {x}]
  <2>1. F[T] = c * Cardinality(T) /\ F[T \ {x}] = c * Cardinality(T \ {x}) /\ f[x] = c
    BY <1>1
  <2>2. IsFiniteSet(T) BY FS_Subset
  <2>3. Cardinality(T) \in Nat /\ Cardinality(T \ {x}) = Cardinality(T) - 1
    BY <2>2, FS_CardinalityType, FS_RemoveElement
  <2>. QED BY <2>1, <2>3
<1>5. Grows(F, f, S) /\ IntsOn(f, S) BY <1>3, <1>4 DEF Grows, IntsOn
<1>. QED BY <1>2, <1>5, SumIs

\* Totals of sequences.
LEMMA TotalIs ==
  ASSUME NEW s \in Seq(Int)
  PROVE  Total(s) = SumOn(s, 1..Len(s)) /\ Total(s) \in Int /\ IsFiniteSet(1..Len(s))
<1>1. DOMAIN s = 1..Len(s) /\ Len(s) \in Nat /\ \A i \in 1..Len(s) : s[i] \in Int OBVIOUS
<1>2. Total(s) = SumOn(s, DOMAIN s)
  BY DEF Total, FoldSeq, FoldFunction, SumOn, SumFunctionOnSet
<1>3. IsFiniteSet(1..Len(s)) BY <1>1, FS_Interval
<1>4. SumOn(s, 1..Len(s)) \in Int BY <1>1, <1>3, SumStep
<1>. QED BY <1>1, <1>2, <1>3, <1>4

LEMMA TotalAppend ==
  ASSUME NEW s \in Seq(Int), NEW x \in Int
  PROVE  Total(Append(s, x)) = Total(s) + x
<1>. DEFINE t == Append(s, x)
            n == Len(s) + 1
<1>1. t \in Seq(Int) /\ Len(t) = n /\ n \in Nat /\ Len(s) \in Nat /\ t[n] = x
      /\ \A i \in 1..Len(s) : t[i] = s[i]
  OBVIOUS
<1>2. n \in 1..n /\ (1..n) \ {n} = 1..Len(s) /\ \A i \in 1..n : t[i] \in Int BY <1>1
<1>. HIDE DEF t, n
<1>3. Total(t) = SumOn(t, 1..n) /\ IsFiniteSet(1..n) BY <1>1, TotalIs
<1>4. SumOn(t, 1..n) = t[n] + SumOn(t, (1..n) \ {n}) BY <1>2, <1>3, SumStep
<1>5. SumOn(t, (1..n) \ {n}) = SumOn(t, 1..Len(s)) BY <1>2, Zenon
<1>6. SumOn(t, 1..Len(s)) = SumOn(s, 1..Len(s)) BY <1>1, TotalIs, SumEqual
<1>7. Total(s) = SumOn(s, 1..Len(s)) /\ Total(s) \in Int BY TotalIs
<1>. QED BY <1>1, <1>3, <1>4, <1>5, <1>6, <1>7 DEF t

LEMMA TotalPlaced ==
  ASSUME NEW s \in Seq(Int), NEW x \in Int, NEW i \in 1..Len(s)
  PROVE  Total([s EXCEPT ![i] = x]) = Total(s) + (x - s[i])
<1>. DEFINE t == [s EXCEPT ![i] = x]
            D == 1..Len(s)
<1>1. t \in Seq(Int) /\ Len(t) = Len(s) /\ t[i] = x /\ \A j \in D \ {i} : t[j] = s[j]
  OBVIOUS
<1>2. \A j \in D : s[j] \in Int /\ t[j] \in Int BY <1>1
<1>3. Total(t) = SumOn(t, D) BY <1>1, TotalIs
<1>4. Total(s) = SumOn(s, D) /\ IsFiniteSet(D) BY TotalIs
<1>. HIDE DEF t, D
<1>5. i \in D BY DEF D
<1>6. /\ SumOn(t, D) = t[i] + SumOn(t, D \ {i}) /\ SumOn(s, D) = s[i] + SumOn(s, D \ {i})
  BY <1>2, <1>4, <1>5, SumStep
<1>7. IsFiniteSet(D \ {i}) BY <1>4, FS_Subset
<1>8. SumOn(t, D \ {i}) = SumOn(s, D \ {i}) BY <1>1, <1>7, SumEqual
<1>9. SumOn(s, D \ {i}) \in Int BY <1>2, <1>7, SumStep
<1>. QED BY <1>1, <1>2, <1>3, <1>4, <1>5, <1>6, <1>8, <1>9 DEF t

\* The values of s at the positions 0 to n - 1, whatever lies behind them.
LEMMA SumShifted ==
  ASSUME NEW s \in Seq(Int), NEW n \in Nat, Len(s) <= n + 1,
         NEW g, \A j \in 0..n : g[j] = IF j < Len(s) THEN s[j + 1] ELSE 0
  PROVE  SumOn(g, 0..n) = Total(s)
<1>. DEFINE S == 1..Len(s)
            R == 0..n
            p == [i \in S |-> i - 1]
            e == [j \in R |-> 1]
            part(j) == [i \in S |-> IF p[i] = j THEN s[i] ELSE 0]
            k == [i \in S |-> s[i] * e[p[i]]]
<1>1. IsFiniteSet(S) /\ Total(s) = SumOn(s, S) BY TotalIs
<1>2. IsFiniteSet(R) BY FS_Interval
<1>3. \A i \in S : s[i] \in Int OBVIOUS
<1>4. \A i \in S : p[i] \in R OBVIOUS
<1>5. ASSUME NEW j \in R PROVE g[j] = e[j] * SumOn(part(j), S)
  <2>1. CASE j < Len(s)
    <3>1. j + 1 \in S /\ part(j)[j + 1] = s[j + 1] /\ \A i \in S \ {j + 1} : part(j)[i] = 0
      BY <2>1
    <3>2. part(j)[j + 1] \in Int BY <1>3, <3>1
    <3>3. g[j] = s[j + 1] /\ e[j] = 1 BY <2>1
    <3>. HIDE DEF part, S, R
    <3>4. SumOn(part(j), S) = part(j)[j + 1] BY <1>1, <3>1, <3>2, SumSingle
    <3>. QED BY <3>1, <3>2, <3>3, <3>4
  <2>2. CASE ~(j < Len(s))
    <3>1. \A i \in S : part(j)[i] = 0 BY <2>2
    <3>2. g[j] = 0 /\ e[j] = 1 BY <2>2
    <3>. HIDE DEF part, S, R
    <3>3. SumOn(part(j), S) = 0 BY <1>1, <3>1, SumZero
    <3>. QED BY <3>2, <3>3
  <2>. QED BY <2>1, <2>2
<1>6. \A i \in S : k[i] = s[i] BY <1>3, <1>4
<1>7. IntsOn(s, S) /\ IntsOn(e, R) BY <1>3 DEF IntsOn
<1>8. Fibered(g, k, p, s, e, S, R) BY <1>4, <1>5 DEF Fibered
<1>. HIDE DEF S, R, p, e, k
<1>9. SumOn(g, R) = SumOn(k, S) BY <1>1, <1>2, <1>7, <1>8, SumFibers
<1>10. SumOn(k, S) = SumOn(s, S) BY <1>1, <1>6, SumEqual
<1>. QED BY <1>1, <1>9, <1>10 DEF R

\* What x adds to the totals of a full sample, over all draws from 0..n.
LEMMA TotalOverDraws ==
  ASSUME NEW s \in Seq(Int), Len(s) = SampleK, NEW x \in Int, NEW n \in Nat, n >= SampleK,
         NEW g, \A j \in 0..n : g[j] = Total(Placed(s, j, x))
  PROVE  SumOn(g, 0..n) = n * Total(s) + SampleK * x
<1>. DEFINE R == 0..n
            c == [j \in R |-> Total(s)]
            d == [j \in R |-> IF j < SampleK THEN x - s[j + 1] ELSE 0]
            t == [i \in 1..SampleK |-> x - s[i]]
            v == [i \in 1..SampleK |-> x]
<1>1. SampleK \in Nat BY SamplingAssumption DEF SamplingAssumption
<1>2. Total(s) \in Int /\ IsFiniteSet(1..SampleK) /\ Total(s) = SumOn(s, 1..SampleK)
  BY TotalIs
<1>3. \A i \in 1..SampleK : s[i] \in Int OBVIOUS
<1>4. t \in Seq(Int) /\ Len(t) = SampleK BY <1>1, <1>3
<1>5. ASSUME NEW j \in R PROVE g[j] = 1 * c[j] + 1 * d[j] /\ d[j] \in Int
  <2>1. CASE j < SampleK
    <3>1. j + 1 \in 1..Len(s) BY <1>1, <2>1
    <3>2. Placed(s, j, x) = [s EXCEPT ![j + 1] = x] BY <2>1 DEF Placed
    <3>3. Total([s EXCEPT ![j + 1] = x]) = Total(s) + (x - s[j + 1]) BY <3>1, TotalPlaced
    <3>4. c[j] = Total(s) /\ d[j] = x - s[j + 1] /\ s[j + 1] \in Int BY <1>3, <2>1, <3>1
    <3>5. g[j] = Total(s) + (x - s[j + 1]) BY <3>2, <3>3
    <3>. HIDE DEF c, d, R
    <3>. QED BY <1>2, <3>4, <3>5
  <2>2. CASE ~(j < SampleK)
    <3>1. Placed(s, j, x) = s BY <2>2 DEF Placed
    <3>2. c[j] = Total(s) /\ d[j] = 0 BY <2>2
    <3>3. g[j] = Total(s) BY <3>1
    <3>. HIDE DEF c, d, R
    <3>. QED BY <1>2, <3>2, <3>3
  <2>. QED BY <2>1, <2>2
<1>6. SumOn(d, R) = Total(t)
  <2>1. \A j \in R : d[j] = IF j < Len(t) THEN t[j + 1] ELSE 0 BY <1>1, <1>4
  <2>2. Len(t) <= n + 1 BY <1>1, <1>4
  <2>. HIDE DEF t, d
  <2>. QED BY <1>4, <2>1, <2>2, SumShifted
<1>7. Total(t) = SampleK * x - Total(s)
  <2>1. Total(t) = SumOn(t, 1..SampleK) BY <1>4, TotalIs
  <2>2. \A i \in 1..SampleK : t[i] = 1 * v[i] + (-1) * s[i] BY <1>3
  <2>3. \A i \in 1..SampleK : v[i] \in Int /\ v[i] = x OBVIOUS
  <2>. HIDE DEF t, v
  <2>4. IntsOn(v, 1..SampleK) /\ IntsOn(s, 1..SampleK)
        /\ Combines(t, 1, v, -1, s, 1..SampleK)
    BY <1>3, <2>2, <2>3 DEF IntsOn, Combines
  <2>5. SumOn(t, 1..SampleK) = 1 * SumOn(v, 1..SampleK) + (-1) * SumOn(s, 1..SampleK)
    BY <1>2, <2>4, SumLinear
  <2>6. SumOn(v, 1..SampleK) = x * Cardinality(1..SampleK) BY <1>2, <2>3, SumConstant
  <2>7. Cardinality(1..SampleK) = SampleK BY <1>1, FS_Interval
  <2>. QED BY <1>1, <1>2, <2>1, <2>5, <2>6, <2>7
<1>8. IsFiniteSet(R) /\ Cardinality(R) = n + 1 BY FS_Interval
<1>9. \A j \in R : c[j] = Total(s) OBVIOUS
<1>. HIDE DEF R, c, d, t
<1>10. SumOn(c, R) = Total(s) * (n + 1) BY <1>2, <1>8, <1>9, SumConstant
<1>11. IntsOn(c, R) /\ IntsOn(d, R) /\ Combines(g, 1, c, 1, d, R)
  BY <1>2, <1>5, <1>9 DEF IntsOn, Combines
<1>12. SumOn(g, R) = 1 * SumOn(c, R) + 1 * SumOn(d, R) BY <1>8, <1>11, SumLinear
<1>. QED BY <1>1, <1>2, <1>6, <1>7, <1>10, <1>12 DEF R

Samples(dist) == DOMAIN dist \subseteq Seq(Int)

\* What e gives for the sample with x.
AppendMean(m, e, dist, x) == \A s \in DOMAIN dist : m[s] = e[Append(s, x)]

\* While the sample fills, a weight stays with its sample.
LEMMA FilledWeighted ==
  ASSUME NEW dist, WeightsOn(dist), Samples(dist), NEW n \in Nat, n < SampleK,
         NEW x \in Int, NEW e, IntsOn(e, DOMAIN Offered(dist, n, x)),
         NEW m, AppendMean(m, e, dist, x)
  PROVE  /\ WeightsOn(Offered(dist, n, x))
         /\ Weighted(Offered(dist, n, x), e) = Weighted(dist, m)
<1>. DEFINE D == DOMAIN dist
            R == {Append(s, x) : s \in D}
            new == Offered(dist, n, x)
            p == [s \in D |-> Append(s, x)]
            part(t) == [s \in D |-> IF p[s] = t THEN dist[s] ELSE 0]
            k == [s \in D |-> dist[s] * m[s]]
            h == [t \in R |-> new[t] * e[t]]
<1>1. IsFiniteSet(D) /\ \A s \in D : dist[s] \in Int BY DEF WeightsOn, IntsOn
<1>2. new = [t \in R |-> dist[Front(t)]] BY DEF Offered
<1>3. DOMAIN new = R BY <1>2
<1>4. IsFiniteSet(R)
  <2>1. p \in Surjection(D, R) BY DEF Surjection
  <2>. QED BY <1>1, <2>1, FS_Surjection
<1>5. ASSUME NEW s \in D PROVE Front(Append(s, x)) = s
  <2>1. s \in Seq(Int) /\ Append(s, x) \in Seq(Int) BY DEF Samples
  <2>. QED BY <2>1 DEF Front
<1>6. ASSUME NEW t \in R PROVE /\ new[t] \in Int /\ new[t] = SumOn(part(t), D)
  <2>1. PICK s \in D : t = Append(s, x) OBVIOUS
  <2>2. new[t] = dist[s] BY <1>2, <1>5, <2>1
  <2>3. part(t)[s] = dist[s] BY <2>1
  <2>4. \A q \in D \ {s} : part(t)[q] = 0
    <3>1. \A q \in D : Append(q, x) = t => q = s BY <1>5, <2>1
    <3>. QED BY <3>1
  <2>5. dist[s] \in Int BY <1>1
  <2>. HIDE DEF part, D, new
  <2>6. SumOn(part(t), D) = part(t)[s] BY <1>1, <2>3, <2>4, <2>5, SumSingle
  <2>. QED BY <2>2, <2>3, <2>5, <2>6
<1>7. \A t \in R : e[t] \in Int BY <1>3 DEF IntsOn
<1>8. ASSUME NEW t \in R PROVE h[t] = e[t] * SumOn(part(t), D)
  <2>1. \A a, b \in Int : a * b = b * a OBVIOUS
  <2>2. h[t] = new[t] * e[t] OBVIOUS
  <2>. HIDE DEF h, new, part, R, D
  <2>. QED BY <1>6, <1>7, <2>1, <2>2
<1>9. Weighted(new, e) = SumOn(h, R) BY <1>3 DEF Weighted
<1>10. IntsOn(dist, D) /\ IntsOn(e, R) BY <1>1, <1>7 DEF IntsOn
<1>11. Fibered(h, k, p, dist, e, D, R) BY <1>8 DEF Fibered, AppendMean
<1>14. Weighted(dist, m) = SumOn(k, D) BY DEF Weighted
<1>12. WeightsOn(new) BY <1>3, <1>4, <1>6 DEF WeightsOn, IntsOn
<1>. HIDE DEF h, k, p, D, R, new
<1>13. SumOn(h, R) = SumOn(k, D) BY <1>1, <1>4, <1>10, <1>11, SumFibers
<1>. QED BY <1>9, <1>12, <1>13, <1>14 DEF new

\* The number of draws from J that make t of the sample s.
Chance(J, x, s, t) == Cardinality({j \in J : Placed(s, j, x) = t})

LEMMA ChanceSum ==
  ASSUME NEW J, IsFiniteSet(J), NEW x, NEW s, NEW t
  PROVE  /\ Chance(J, x, s, t) \in Nat
         /\ SumOn([j \in J |-> IF Placed(s, j, x) = t THEN 1 ELSE 0], J) = Chance(J, x, s, t)
<1>. DEFINE p == [j \in J |-> Placed(s, j, x)]
<1>1. /\ SumOn([j \in J |-> IF p[j] = t THEN 1 ELSE 0], J) = Cardinality({j \in J : p[j] = t})
      /\ Cardinality({j \in J : p[j] = t}) \in Nat
  <2>. HIDE DEF p
  <2>. QED BY SumCounts
<1>2. {j \in J : p[j] = t} = {j \in J : Placed(s, j, x) = t} OBVIOUS
<1>3. [j \in J |-> IF p[j] = t THEN 1 ELSE 0] = [j \in J |-> IF Placed(s, j, x) = t THEN 1 ELSE 0]
  OBVIOUS
<1>. HIDE DEF p
<1>4. Chance(J, x, s, t) = Cardinality({j \in J : p[j] = t}) BY <1>2, Zenon DEF Chance
<1>. QED BY <1>1, <1>3, <1>4, Zenon

\* The sum of what e gives over the draws.
DrawMean(m, e, dist, J, x) ==
  \A s \in DOMAIN dist : m[s] = SumOn([j \in J |-> e[Placed(s, j, x)]], J)

Draws(dist, J, x) == {Placed(s, j, x) : s \in DOMAIN dist, j \in J}

LEMMA DrawnWeighted ==
  ASSUME NEW dist, WeightsOn(dist), NEW J, IsFiniteSet(J), NEW x, NEW e, NEW m,
         IntsOn(e, DOMAIN Drawn(dist, J, x)), DrawMean(m, e, dist, J, x)
  PROVE  /\ WeightsOn(Drawn(dist, J, x))
         /\ DOMAIN Drawn(dist, J, x) = Draws(dist, J, x)
         /\ Weighted(Drawn(dist, J, x), e) = Weighted(dist, m)
<1>. DEFINE D == DOMAIN dist
            R == {Placed(s, j, x) : s \in D, j \in J}
            new == Drawn(dist, J, x)
            share(t) == [s \in D |-> dist[s] * Chance(J, x, s, t)]
<1>1. IsFiniteSet(D) /\ \A s \in D : dist[s] \in Int BY DEF WeightsOn, IntsOn
<1>2. new = [t \in R |-> SumFunction(share(t))] BY DEF Drawn, Chance
<1>3. DOMAIN new = R BY <1>2
<1>4. IsFiniteSet(R)
  <2>. DEFINE p == [q \in D \X J |-> Placed(q[1], q[2], x)]
  <2>1. p \in Surjection(D \X J, R)
    <3>1. ASSUME NEW t \in R PROVE \E q \in D \X J : p[q] = t
      <4>1. PICK s \in D, j \in J : t = Placed(s, j, x) OBVIOUS
      <4>2. <<s, j>> \in D \X J /\ p[<<s, j>>] = t BY <4>1
      <4>. QED BY <4>2
    <3>2. \A q \in D \X J : q[1] \in D /\ q[2] \in J OBVIOUS
    <3>3. p \in [D \X J -> R]
      <4>1. \A q \in D \X J : Placed(q[1], q[2], x) \in R BY <3>2
      <4>. HIDE DEF R, D
      <4>. QED BY <4>1
    <3>. HIDE DEF p, R, D
    <3>. QED BY <3>1, <3>3 DEF Surjection
  <2>2. IsFiniteSet(D \X J) BY <1>1, FS_Product
  <2>. QED BY <2>1, <2>2, FS_Surjection
<1>5. \A s \in D : \A j \in J : Placed(s, j, x) \in R OBVIOUS
<1>6. \A t \in R : e[t] \in Int BY <1>3 DEF IntsOn
<1>7. \A s \in D : m[s] = SumOn([j \in J |-> e[Placed(s, j, x)]], J) BY Zenon DEF DrawMean
<1>8. Weighted(dist, m) = SumOn([s \in D |-> dist[s] * m[s]], D) BY DEF Weighted
<1>9. Weighted(new, e) = SumOn([t \in R |-> new[t] * e[t]], R) BY <1>3 DEF Weighted
<1>10. ASSUME NEW t \in R PROVE new[t] = SumFunction(share(t))
  <2>. HIDE DEF share, R, new
  <2>. QED BY <1>2
<1>11. DOMAIN Drawn(dist, J, x) = Draws(dist, J, x) BY DEF Drawn, Draws
<1>. HIDE DEF R, D, new
<1>. DEFINE row == [s \in D |-> [t \in R |-> dist[s] * Chance(J, x, s, t) * e[t]]]
            col == [t \in R |-> [s \in D |-> dist[s] * Chance(J, x, s, t) * e[t]]]
            f == [s \in D |-> dist[s] * m[s]]
            h == [t \in R |-> new[t] * e[t]]
<1>12. \A s, t : Chance(J, x, s, t) \in Nat BY ChanceSum
<1>13. ASSUME NEW t \in R
       PROVE  /\ new[t] = SumOn(share(t), D) /\ new[t] \in Int
              /\ IntsOn(share(t), D)
  <2>1. DOMAIN share(t) = D OBVIOUS
  <2>2. SumFunction(share(t)) = SumOn(share(t), D) BY <2>1 DEF SumFunction, SumOn
  <2>3. \A s \in D : share(t)[s] \in Int BY <1>1, <1>12
  <2>. HIDE DEF share
  <2>4. SumOn(share(t), D) \in Int BY <1>1, <2>3, SumStep
  <2>. QED BY <1>10, <2>2, <2>3, <2>4 DEF IntsOn
<1>14. ASSUME NEW s \in D, NEW t \in R
       PROVE  /\ row[s][t] = dist[s] * Chance(J, x, s, t) * e[t] /\ row[s][t] \in Int
              /\ col[t][s] = row[s][t] /\ col[t][s] = share(t)[s] * e[t]
              /\ share(t)[s] \in Int /\ dist[s] \in Int /\ Chance(J, x, s, t) \in Int
              /\ e[t] \in Int
  BY <1>1, <1>6, <1>12
<1>15. ASSUME NEW t \in R PROVE h[t] = SumOn(col[t], D)
  <2>1. h[t] = SumOn(share(t), D) * e[t] BY <1>13
  <2>. HIDE DEF h, share, row, col
  <2>2. e[t] \in Int /\ SumOn(share(t), D) \in Int BY <1>6, <1>13
  <2>3. Combines(col[t], e[t], share(t), 0, share(t), D)
    <3>1. ASSUME NEW s \in D PROVE col[t][s] = e[t] * share(t)[s] + 0 * share(t)[s]
      <4>1. col[t][s] = share(t)[s] * e[t] /\ share(t)[s] \in Int BY <1>14
      <4>2. \A a, b \in Int : a * b = b * a + 0 * a OBVIOUS
      <4>. QED BY <2>2, <4>1, <4>2
    <3>. QED BY <3>1 DEF Combines
  <2>4. IntsOn(share(t), D) BY <1>13
  <2>5. SumOn(col[t], D) = e[t] * SumOn(share(t), D) + 0 * SumOn(share(t), D)
    BY <1>1, <2>2, <2>3, <2>4, SumLinear
  <2>6. \A a, b \in Int : a * b = b * a + 0 * a OBVIOUS
  <2>. QED BY <2>1, <2>2, <2>5, <2>6
<1>16. ASSUME NEW s \in D PROVE f[s] = SumOn(row[s], R)
  <2>. DEFINE p == [j \in J |-> Placed(s, j, x)]
              ones == [j \in J |-> 1]
              g == [j \in J |-> e[Placed(s, j, x)]]
              b == [t \in R |-> e[t] * Chance(J, x, s, t)]
  <2>1. \A j \in J : p[j] \in R /\ g[j] = ones[j] * e[p[j]]
    <3>1. \A j \in J : Placed(s, j, x) \in R BY <1>5
    <3>2. \A j \in J : e[Placed(s, j, x)] \in Int BY <1>6, <3>1
    <3>. QED BY <3>1, <3>2
  <2>2. \A t \in R : b[t] = e[t] * Chance(J, x, s, t) OBVIOUS
  <2>3. ASSUME NEW t \in R
        PROVE  b[t] = e[t] * SumOn([j \in J |-> IF p[j] = t THEN ones[j] ELSE 0], J)
    <3>1. [j \in J |-> IF p[j] = t THEN ones[j] ELSE 0]
            = [j \in J |-> IF Placed(s, j, x) = t THEN 1 ELSE 0]
      OBVIOUS
    <3>2. SumOn([j \in J |-> IF Placed(s, j, x) = t THEN 1 ELSE 0], J) = Chance(J, x, s, t)
      BY ChanceSum
    <3>. HIDE DEF b, p, ones
    <3>. QED BY <2>2, <3>1, <3>2, Zenon
  <2>4. IntsOn(ones, J) /\ IntsOn(e, R) BY <1>6 DEF IntsOn
  <2>5. Fibered(b, g, p, ones, e, J, R) BY <2>1, <2>3 DEF Fibered
  <2>6. m[s] = SumOn(g, J) BY <1>7, Zenon
  <2>7. f[s] = dist[s] * m[s] OBVIOUS
  <2>. HIDE DEF b, g, p, ones, row, f
  <2>8. SumOn(b, R) = SumOn(g, J) BY <1>4, <2>4, <2>5, SumFibers
  <2>9. Combines(row[s], dist[s], b, 0, b, R)
    <3>1. ASSUME NEW t \in R PROVE row[s][t] = dist[s] * b[t] + 0 * b[t]
      <4>1. row[s][t] = dist[s] * Chance(J, x, s, t) * e[t] BY <1>14
      <4>2. dist[s] \in Int /\ Chance(J, x, s, t) \in Int /\ e[t] \in Int BY <1>14
      <4>3. \A a, c, d \in Int : a * c * d = a * (d * c) + 0 * (d * c) OBVIOUS
      <4>. QED BY <2>2, <4>1, <4>2, <4>3
    <3>. QED BY <3>1 DEF Combines
  <2>10. IntsOn(b, R) BY <1>6, <1>12, <2>2 DEF IntsOn
  <2>11. dist[s] \in Int BY <1>1
  <2>12. SumOn(row[s], R) = dist[s] * SumOn(b, R) + 0 * SumOn(b, R)
    BY <1>4, <2>9, <2>10, <2>11, SumLinear
  <2>13. SumOn(b, R) \in Int BY <1>4, <2>10, SumStep DEF IntsOn
  <2>14. \A a, c \in Int : a * c = a * c + 0 * c OBVIOUS
  <2>. QED BY <2>6, <2>7, <2>8, <2>11, <2>12, <2>13, <2>14
<1>17. WeightsOn(new) BY <1>3, <1>4, <1>13 DEF WeightsOn, IntsOn
<1>18. Crossed(row, col, f, h, D, R)
  <2>. HIDE DEF row, col, f, h, share
  <2>. QED BY <1>14, <1>15, <1>16 DEF Crossed
<1>19. SumOn(f, D) = SumOn(h, R)
  <2>. HIDE DEF row, col, f, h
  <2>. QED BY <1>1, <1>4, <1>18, SumSwap
<1>20. Weighted(new, e) = Weighted(dist, m) BY <1>8, <1>9, <1>19
<1>21. WeightsOn(Drawn(dist, J, x)) BY <1>17 DEF new
<1>22. Weighted(Drawn(dist, J, x), e) = Weighted(dist, m) BY <1>20 DEF new
<1>. HIDE DEF share, row, col, f, h
<1>. QED BY <1>11, <1>21, <1>22, Zenon

TotalsOf(dist) == [s \in DOMAIN dist |-> Total(s)]

\* The invariant of the samples of n records with the sum of their lengths.
SampleSound(dist, n, sum) ==
  /\ n \in Nat /\ sum \in Int /\ WeightsOn(dist) /\ DOMAIN dist \subseteq Seq(Int)
  /\ \A s \in DOMAIN dist : Len(s) = IF n < SampleK THEN n ELSE SampleK
  /\ n < SampleK => Weighted(dist, TotalsOf(dist)) = SumFunction(dist) * sum
  /\ n >= SampleK =>
       n * Weighted(dist, TotalsOf(dist)) = SumFunction(dist) * (SampleK * sum)

LEMMA FilledSound ==
  ASSUME NEW dist, NEW n, NEW sum, SampleSound(dist, n, sum), NEW x \in Int, n < SampleK
  PROVE  SampleSound(Offered(dist, n, x), n + 1, sum + x)
<1>. DEFINE D == DOMAIN dist
            new == Offered(dist, n, x)
            W == SumFunction(dist)
            M == Weighted(dist, TotalsOf(dist))
<1>1. n \in Nat /\ sum \in Int /\ WeightsOn(dist) /\ D \subseteq Seq(Int)
      /\ (\A s \in D : Len(s) = n) /\ M = W * sum
  BY DEF SampleSound
<1>2. SampleK \in Nat BY SamplingAssumption DEF SamplingAssumption
<1>3. \A s \in D : Total(s) \in Int BY <1>1, TotalIs
<1>4. M \in Int /\ W \in Int
  <2>1. \A s \in D : TotalsOf(dist)[s] \in Int BY <1>3 DEF TotalsOf
  <2>. QED BY <1>1, <2>1, WeightedInt
<1>5. DOMAIN new = {Append(s, x) : s \in D} BY DEF Offered
<1>. HIDE DEF D, new, W, M
<1>6. ASSUME NEW e, IntsOn(e, DOMAIN new), NEW m, AppendMean(m, e, dist, x)
      PROVE  WeightsOn(new) /\ Weighted(new, e) = Weighted(dist, m)
  <2>1. Samples(dist) BY <1>1 DEF Samples, D
  <2>. QED BY <1>1, <1>6, <2>1, FilledWeighted DEF new
<1>7. \A s \in D : Append(s, x) \in DOMAIN new BY <1>5
<1>8. SumFunction(new) = W /\ WeightsOn(new)
  <2>. DEFINE e == [t \in DOMAIN new |-> 1]
              d == [s \in D |-> e[Append(s, x)]]
  <2>1. IntsOn(e, DOMAIN new) BY DEF IntsOn
  <2>2. \A s \in D : d[s] = 1 BY <1>7
  <2>3. AppendMean(d, e, dist, x) BY DEF AppendMean, D
  <2>4. \A t \in DOMAIN new : e[t] = 1 OBVIOUS
  <2>. HIDE DEF e, d
  <2>5. WeightsOn(new) /\ Weighted(new, e) = Weighted(dist, d) BY <1>6, <2>1, <2>3
  <2>6. Weighted(new, e) = SumFunction(new) BY <2>4, <2>5, WeightedOnes
  <2>7. Weighted(dist, d) = W BY <1>1, <2>2, WeightedOnes DEF W, D
  <2>. QED BY <2>5, <2>6, <2>7
<1>9. Weighted(new, TotalsOf(new)) = M + x * W
  <2>. DEFINE e == TotalsOf(new)
              d == [s \in D |-> e[Append(s, x)]]
  <2>1. \A s \in D : e[Append(s, x)] = Total(s) + x BY <1>1, <1>7, TotalAppend DEF TotalsOf
  <2>2. IntsOn(e, DOMAIN new)
    <3>1. ASSUME NEW t \in DOMAIN new PROVE e[t] \in Int
      <4>1. PICK s \in D : t = Append(s, x) BY <1>5
      <4>. HIDE DEF e
      <4>2. e[t] = Total(s) + x BY <2>1, <4>1
      <4>. QED BY <1>3, <4>2
    <3>. QED BY <3>1 DEF IntsOn
  <2>3. AppendMean(d, e, dist, x) BY DEF AppendMean, D
  <2>4. Affine(d, 1, TotalsOf(dist), x, DOMAIN dist)
    <3>1. ASSUME NEW s \in D
          PROVE  TotalsOf(dist)[s] \in Int /\ d[s] = 1 * TotalsOf(dist)[s] + x
      <4>1. TotalsOf(dist)[s] = Total(s) BY DEF TotalsOf, D
      <4>2. d[s] = Total(s) + x BY <2>1
      <4>3. Total(s) \in Int BY <1>3
      <4>. HIDE DEF e, d
      <4>. QED BY <4>1, <4>2, <4>3
    <3>. HIDE DEF e, d
    <3>. QED BY <3>1 DEF Affine, D
  <2>. HIDE DEF e, d
  <2>7. Weighted(dist, d) = 1 * M + x * W BY <1>1, <2>4, WeightedLinear DEF M, W
  <2>8. Weighted(new, e) = Weighted(dist, d) BY <1>6, <2>2, <2>3
  <2>9. x * W \in Int BY <1>4
  <2>10. Weighted(new, e) = M + x * W BY <1>4, <2>7, <2>8, <2>9
  <2>. QED BY <2>10 DEF e
<1>10. DOMAIN new \subseteq Seq(Int) /\ \A t \in DOMAIN new : Len(t) = n + 1
  <2>1. ASSUME NEW t \in DOMAIN new PROVE t \in Seq(Int) /\ Len(t) = n + 1
    <3>1. PICK s \in D : t = Append(s, x) BY <1>5
    <3>2. s \in Seq(Int) /\ Len(s) = n BY <1>1
    <3>. QED BY <3>1, <3>2
  <2>. QED BY <2>1
<1>11. \A t \in DOMAIN new : Len(t) = IF n + 1 < SampleK THEN n + 1 ELSE SampleK
  BY <1>1, <1>2, <1>10
<1>12. Weighted(new, TotalsOf(new)) = SumFunction(new) * (sum + x)
  BY <1>1, <1>4, <1>8, <1>9
<1>13. n + 1 >= SampleK =>
         (n + 1) * Weighted(new, TotalsOf(new)) = SumFunction(new) * (SampleK * (sum + x))
  <2>1. n + 1 >= SampleK => n + 1 = SampleK BY <1>1, <1>2
  <2>2. \A a, b, c \in Int : a * (b * c) = b * (a * c) OBVIOUS
  <2>3. SampleK * (W * (sum + x)) = W * (SampleK * (sum + x)) BY <1>1, <1>2, <1>4, <2>2
  <2>. QED BY <1>8, <1>12, <2>1, <2>3
<1>14. n + 1 \in Nat /\ sum + x \in Int BY <1>1
<1>. QED BY <1>8, <1>10, <1>11, <1>12, <1>13, <1>14 DEF SampleSound, new

LEMMA DrawnSound ==
  ASSUME NEW dist, NEW n, NEW sum, SampleSound(dist, n, sum), NEW x \in Int, ~(n < SampleK)
  PROVE  SampleSound(Offered(dist, n, x), n + 1, sum + x)
<1>. DEFINE D == DOMAIN dist
            J == 0..n
            new == Offered(dist, n, x)
            W == SumFunction(dist)
            M == Weighted(dist, TotalsOf(dist))
<1>1. SampleK \in Nat BY SamplingAssumption DEF SamplingAssumption
<1>2. n \in Nat /\ sum \in Int /\ WeightsOn(dist) /\ D \subseteq Seq(Int)
      /\ (\A s \in D : Len(s) = SampleK) /\ n * M = W * (SampleK * sum)
  BY <1>1 DEF SampleSound
<1>3. \A s \in D : Total(s) \in Int BY <1>2, TotalIs
<1>4. M \in Int /\ W \in Int
  <2>1. \A s \in D : TotalsOf(dist)[s] \in Int BY <1>3 DEF TotalsOf
  <2>. QED BY <1>2, <2>1, WeightedInt
<1>5. new = Drawn(dist, J, x) BY DEF Offered
<1>6. IsFiniteSet(J) /\ Cardinality(J) = n + 1 BY <1>2, FS_Interval
<1>7. \A s \in D : \A j \in J : Placed(s, j, x) \in Seq(Int) /\ Len(Placed(s, j, x)) = SampleK
  BY <1>1, <1>2 DEF Placed
<1>8. DOMAIN new = Draws(dist, J, x) BY <1>5 DEF Drawn, Draws
<1>9. \A s \in D : \A j \in J : Placed(s, j, x) \in DOMAIN new BY <1>8 DEF Draws
<1>10. DOMAIN new \subseteq Seq(Int) /\ \A t \in DOMAIN new : Len(t) = SampleK
  BY <1>7, <1>8 DEF Draws
<1>. DEFINE mean(e) == [s \in D |-> SumOn([j \in J |-> e[Placed(s, j, x)]], J)]
<1>11. ASSUME NEW e, IntsOn(e, DOMAIN new)
       PROVE  WeightsOn(new) /\ Weighted(new, e) = Weighted(dist, mean(e))
  <2>1. DrawMean(mean(e), e, dist, J, x) BY DEF DrawMean
  <2>2. IntsOn(e, DOMAIN Drawn(dist, J, x)) BY <1>5, <1>11
  <2>. HIDE DEF mean, J, new
  <2>3. /\ WeightsOn(Drawn(dist, J, x))
        /\ Weighted(Drawn(dist, J, x), e) = Weighted(dist, mean(e))
    BY <1>2, <1>6, <2>1, <2>2, DrawnWeighted
  <2>. QED BY <1>5, <2>3
<1>. HIDE DEF new, W, M
<1>12. SumFunction(new) = (n + 1) * W /\ WeightsOn(new)
  <2>. DEFINE e == [t \in DOMAIN new |-> 1]
  <2>1. IntsOn(e, DOMAIN new) /\ \A t \in DOMAIN new : e[t] = 1 BY DEF IntsOn
  <2>. HIDE DEF e
  <2>2. ASSUME NEW s \in D PROVE mean(e)[s] = n + 1
    <3>. DEFINE g == [j \in J |-> e[Placed(s, j, x)]]
    <3>1. \A j \in J : g[j] = 1 BY <1>9, <2>1
    <3>2. mean(e)[s] = SumOn(g, J) OBVIOUS
    <3>. HIDE DEF g, J, mean
    <3>3. SumOn(g, J) = 1 * Cardinality(J) BY <1>6, <3>1, SumConstant
    <3>. QED BY <1>2, <1>6, <3>2, <3>3
  <2>. DEFINE z == [s \in D |-> 0]
  <2>3. \A s \in DOMAIN dist : z[s] \in Int /\ mean(e)[s] = 0 * z[s] + (n + 1)
    BY <1>2, <2>2
  <2>10. Affine(mean(e), 0, z, n + 1, DOMAIN dist)
    <3>. HIDE DEF z, mean
    <3>. QED BY <2>3 DEF Affine
  <2>4. \A s \in DOMAIN dist : z[s] \in Int BY <2>3
  <2>5. WeightsOn(new) /\ Weighted(new, e) = Weighted(dist, mean(e)) BY <1>11, <2>1
  <2>6. n + 1 \in Int /\ 0 \in Int BY <1>2
  <2>. HIDE DEF z, mean
  <2>7. Weighted(dist, mean(e)) = 0 * Weighted(dist, z) + (n + 1) * W
    BY <1>2, <2>6, <2>10, WeightedLinear DEF W
  <2>8. Weighted(dist, z) \in Int BY <1>2, <2>4, WeightedInt
  <2>9. Weighted(new, e) = SumFunction(new) BY <2>1, <2>5, WeightedOnes
  <2>. QED BY <1>2, <1>4, <2>5, <2>7, <2>8, <2>9
<1>13. Weighted(new, TotalsOf(new)) = n * M + (SampleK * x) * W
  <2>. DEFINE e == TotalsOf(new)
  <2>1. \A t \in DOMAIN new : e[t] = Total(t) /\ e[t] \in Int
    BY <1>10, TotalIs DEF TotalsOf
  <2>2. IntsOn(e, DOMAIN new) BY <2>1 DEF IntsOn
  <2>. HIDE DEF e
  <2>3. ASSUME NEW s \in D PROVE mean(e)[s] = n * Total(s) + SampleK * x
    <3>. DEFINE g == [j \in J |-> e[Placed(s, j, x)]]
    <3>1. \A j \in 0..n : g[j] = Total(Placed(s, j, x)) BY <1>9, <2>1
    <3>2. mean(e)[s] = SumOn(g, 0..n) OBVIOUS
    <3>3. n >= SampleK BY <1>1, <1>2
    <3>4. s \in Seq(Int) /\ Len(s) = SampleK BY <1>2
    <3>. HIDE DEF g, J, mean
    <3>. QED BY <1>2, <3>1, <3>2, <3>3, <3>4, TotalOverDraws
  <2>4. \A s \in DOMAIN dist :
          TotalsOf(dist)[s] \in Int /\ mean(e)[s] = n * TotalsOf(dist)[s] + SampleK * x
    BY <1>3, <2>3 DEF TotalsOf
  <2>5. Weighted(new, e) = Weighted(dist, mean(e)) BY <1>11, <2>2
  <2>6. SampleK * x \in Int /\ n \in Int BY <1>1, <1>2
  <2>. HIDE DEF mean
  <2>8. Affine(mean(e), n, TotalsOf(dist), SampleK * x, DOMAIN dist) BY <2>4 DEF Affine
  <2>7. Weighted(dist, mean(e)) = n * M + (SampleK * x) * W
    BY <1>2, <2>6, <2>8, WeightedLinear DEF M, W
  <2>. QED BY <2>5, <2>7 DEF e
<1>14. (n + 1) * Weighted(new, TotalsOf(new)) = SumFunction(new) * (SampleK * (sum + x))
  <2>1. n \in Int /\ sum \in Int /\ SampleK \in Int BY <1>1, <1>2
  <2>2. n * M + (SampleK * x) * W = W * (SampleK * (sum + x))
    <3>1. W * (SampleK * sum) + (SampleK * x) * W = W * (SampleK * (sum + x))
      BY <1>4, <2>1
    <3>. QED BY <1>2, <3>1
  <2>3. (n + 1) * (W * (SampleK * (sum + x))) = ((n + 1) * W) * (SampleK * (sum + x))
    BY <1>4, <2>1
  <2>. QED BY <1>12, <1>13, <2>2, <2>3
<1>15. /\ n + 1 \in Nat /\ sum + x \in Int /\ ~(n + 1 < SampleK)
  BY <1>1, <1>2
<1>. QED BY <1>10, <1>12, <1>14, <1>15 DEF SampleSound, new

LEMMA OfferedSound ==
  ASSUME NEW dist, NEW n, NEW sum, SampleSound(dist, n, sum), NEW x \in Int
  PROVE  SampleSound(Offered(dist, n, x), n + 1, sum + x)
BY FilledSound, DrawnSound

LEMMA EmptyTotal == Total(<<>>) = 0
<1>1. <<>> \in Seq(Int) /\ Len(<<>>) = 0 OBVIOUS
<1>2. Total(<<>>) = SumOn(<<>>, 1..Len(<<>>)) BY <1>1, TotalIs
<1>3. Total(<<>>) = SumOn(<<>>, 1..0) BY <1>1, <1>2, Zenon
<1>4. 1..0 = {} OBVIOUS
<1>5. SumOn(<<>>, {}) = 0 BY FS_EmptySet, SumChosen
<1>. QED BY <1>3, <1>4, <1>5, Zenon

LEMMA EmptySampleSound == SampleSound(NoSample, 0, 0)
<1>. DEFINE D == {<<>>}
<1>1. NoSample = [s \in D |-> 1] /\ DOMAIN NoSample = D BY DEF NoSample
<1>2. IsFiniteSet(D) BY FS_Singleton
<1>3. WeightsOn(NoSample) BY <1>1, <1>2 DEF WeightsOn, IntsOn
<1>4. D \subseteq Seq(Int) /\ \A s \in D : Len(s) = 0 OBVIOUS
<1>5. SampleK \in Nat \ {0} BY SamplingAssumption DEF SamplingAssumption
<1>6. Total(<<>>) = 0 BY EmptyTotal
<1>7. Weighted(NoSample, TotalsOf(NoSample)) = 0
  <2>. DEFINE f == [s \in D |-> NoSample[s] * TotalsOf(NoSample)[s]]
  <2>1. \A s \in D : f[s] = 0 BY <1>1, <1>6 DEF TotalsOf
  <2>2. Weighted(NoSample, TotalsOf(NoSample)) = SumOn(f, D) BY <1>1 DEF Weighted
  <2>. HIDE DEF f, D
  <2>. QED BY <1>2, <2>1, <2>2, SumZero
<1>8. SumFunction(NoSample) \in Int
  <2>. DEFINE e == [s \in DOMAIN NoSample |-> 1]
  <2>1. \A s \in DOMAIN NoSample : e[s] \in Int OBVIOUS
  <2>. HIDE DEF e
  <2>. QED BY <1>3, <2>1, WeightedInt
<1>9. 0 < SampleK /\ SumFunction(NoSample) * 0 = 0 BY <1>5, <1>8
<1>. HIDE DEF D
<1>. QED BY <1>1, <1>3, <1>4, <1>5, <1>7, <1>9 DEF SampleSound

\* f holds the samples while the first m taking of a batch are offered.
Offers(f, dist, n, taking, m) ==
  f = [i \in 0..m |-> IF i = 0 THEN dist ELSE Offered(f[i - 1], n + i - 1, taking[i])]

LEMMA OffersExist ==
  ASSUME NEW dist, NEW n, NEW taking, NEW m \in Nat
  PROVE  \E f : Offers(f, dist, n, taking, m)
<1>. DEFINE Bad == {q \in Nat : ~ \E f : Offers(f, dist, n, taking, q)}
<1>1. SUFFICES ASSUME Bad # {} PROVE FALSE
  OBVIOUS
<1>2. PICK k \in Bad : \A z \in Bad : ~(<<z, k>> \in OpToRel(<, Nat))
  BY <1>1, WFMin, NatLessThanWellFounded
<1>3. k \in Nat /\ \A z \in Nat : z < k => \E f : Offers(f, dist, n, taking, z)
  BY <1>2 DEF OpToRel
<1>4. \E f : Offers(f, dist, n, taking, k)
  <2>1. CASE k = 0
    <3>1. Offers([i \in 0..k |-> dist], dist, n, taking, k) BY <2>1 DEF Offers
    <3>. QED BY <3>1
  <2>2. CASE k # 0
    <3>1. k - 1 \in Nat /\ k - 1 < k BY <1>3, <2>2
    <3>2. PICK f : Offers(f, dist, n, taking, k - 1) BY <1>3, <3>1
    <3>. DEFINE v(i) == IF i = 0 THEN dist ELSE Offered(f[i - 1], n + i - 1, taking[i])
                g == [i \in 0..k |-> v(i)]
    <3>3. \A i \in 0 .. k - 1 : f[i] = v(i) BY <3>2, Zenon DEF Offers
    <3>4. \A i \in 0..k : g[i] = v(i) OBVIOUS
    <3>. HIDE DEF g
    <3>5. \A i \in 0..k : i # 0 => g[i - 1] = f[i - 1]
      <4>. HIDE DEF v
      <4>1. \A i \in 0..k : i # 0 => i - 1 \in 0..k /\ i - 1 \in 0 .. k - 1 BY <1>3
      <4>. QED BY <3>3, <3>4, <4>1
    <3>6. \A i \in 0..k :
            g[i] = IF i = 0 THEN dist ELSE Offered(g[i - 1], n + i - 1, taking[i])
      BY <3>4, <3>5
    <3>7. g = [i \in 0..k |-> g[i]] BY DEF g
    <3>8. Offers(g, dist, n, taking, k) BY <3>6, <3>7, Zenon DEF Offers
    <3>. QED BY <3>8
  <2>. QED BY <2>1, <2>2
<1>. QED BY <1>2, <1>4

LEMMA OffersSound ==
  ASSUME NEW dist, NEW n, NEW sum, SampleSound(dist, n, sum), NEW taking \in Seq(Int),
         NEW f, Offers(f, dist, n, taking, Len(taking))
  PROVE  SampleSound(f[Len(taking)], n + Len(taking), sum + Total(taking))
<1>. DEFINE m == Len(taking)
            first(i) == SubSeq(taking, 1, i)
            ok(i) == SampleSound(f[i], n + i, sum + Total(first(i)))
            Bad == {q \in Nat : q \in 0..m /\ ~ok(q)}
<1>0. m \in Nat /\ first(m) = taking OBVIOUS
<1>1. SUFFICES ASSUME Bad # {} PROVE FALSE
  <2>1. SUFFICES ASSUME Bad = {} PROVE ok(m)
    BY <1>0
  <2>2. m \in 0..m BY <1>0
  <2>. HIDE DEF ok, m
  <2>. QED BY <1>0, <2>1, <2>2
<1>2. PICK k \in Bad : \A z \in Bad : ~(<<z, k>> \in OpToRel(<, Nat))
  BY <1>1, WFMin, NatLessThanWellFounded
<1>3. k \in Nat /\ k \in 0..m /\ ~ok(k) OBVIOUS
<1>4. \A z \in 0..m : z < k => ok(z)
  <2>1. \A z \in Bad : ~(z < k)
    <3>1. Bad \subseteq Nat OBVIOUS
    <3>. HIDE DEF Bad
    <3>. QED BY <1>2, <1>3, <3>1 DEF OpToRel
  <2>. HIDE DEF ok
  <2>. QED BY <1>0, <2>1
<1>. HIDE DEF Bad
<1>5. f[k] = IF k = 0 THEN dist ELSE Offered(f[k - 1], n + k - 1, taking[k])
  BY <1>3, Zenon DEF Offers
<1>6. n \in Nat /\ sum \in Int BY DEF SampleSound
<1>7. CASE k = 0
  <2>1. f[0] = dist BY <1>5, <1>7
  <2>2. Total(first(0)) = 0
    <3>1. first(0) = <<>> OBVIOUS
    <3>2. Total(<<>>) = 0 BY EmptyTotal
    <3>. HIDE DEF first
    <3>. QED BY <3>1, <3>2
  <2>3. n + 0 = n /\ sum + 0 = sum BY <1>6
  <2>. HIDE DEF first
  <2>4. ok(0) BY <2>1, <2>2, <2>3
  <2>. QED BY <1>3, <1>7, <2>4
<1>8. CASE k # 0
  <2>1. k - 1 \in 0..m /\ k - 1 < k /\ k \in 1..m BY <1>0, <1>3, <1>8
  <2>2. first(k - 1) \in Seq(Int) /\ taking[k] \in Int BY <2>1
  <2>3. first(k) = Append(first(k - 1), taking[k])
    <3>1. Len(first(k)) = k /\ Len(first(k - 1)) = k - 1 BY <2>1
    <3>2. Len(Append(first(k - 1), taking[k])) = k BY <2>1, <2>2, <3>1
    <3>3. ASSUME NEW i \in 1..k PROVE first(k)[i] = Append(first(k - 1), taking[k])[i]
      BY <2>1
    <3>. QED BY <2>1, <3>1, <3>2, <3>3
  <2>. HIDE DEF first
  <2>4. Total(first(k)) = Total(first(k - 1)) + taking[k] BY <2>2, <2>3, TotalAppend
  <2>5. SampleSound(f[k - 1], n + (k - 1), sum + Total(first(k - 1))) BY <1>4, <2>1
  <2>6. Total(first(k - 1)) \in Int BY <2>2, TotalIs
  <2>7. SampleSound(Offered(f[k - 1], n + (k - 1), taking[k]), (n + (k - 1)) + 1,
                    (sum + Total(first(k - 1))) + taking[k])
    BY <2>2, <2>5, OfferedSound
  <2>8. /\ n + (k - 1) = n + k - 1 /\ (n + (k - 1)) + 1 = n + k
        /\ (sum + Total(first(k - 1))) + taking[k] = sum + Total(first(k))
    BY <1>3, <1>6, <2>2, <2>4, <2>6
  <2>9. f[k] = Offered(f[k - 1], n + k - 1, taking[k]) BY <1>5, <1>8
  <2>10. ok(k) BY <2>7, <2>8, <2>9
  <2>. QED BY <1>3, <2>10
<1>. QED BY <1>7, <1>8

\* The invariant of the reservoir beside the totals it is compared with.
SamplingInv == SampleSound(outcomes, seen, lenSum) /\ lenCount = seen

LEMMA SamplingInductive == SamplingInv /\ [SamplingNext]_samplingVars => SamplingInv'
<1>. SUFFICES ASSUME SamplingInv, [SamplingNext]_samplingVars PROVE SamplingInv'
  OBVIOUS
<1>1. SampleSound(outcomes, seen, lenSum) /\ lenCount = seen BY DEF SamplingInv
<1>2. SUFFICES SampleSound(outcomes', seen', lenSum') /\ lenCount' = seen'
  BY DEF SamplingInv, SampleSound
<1>3. ASSUME NEW lengths \in BoundedSeq(Lengths, MaxBatch), SampleBatch(lengths)
      PROVE  SampleSound(outcomes', seen', lenSum') /\ lenCount' = seen'
  <2>. DEFINE size == IF Len(lengths) < MaxRows THEN Len(lengths) ELSE MaxRows
              taking == SubSeq(lengths, 1, size)
  <2>1. taking \in Seq(Int) /\ Len(taking) \in Nat
    <3>1. lengths \in Seq(Lengths) BY DEF BoundedSeq, SeqOf
    <3>2. Lengths \subseteq Int /\ MaxRows \in Nat
      BY SamplingAssumption DEF SamplingAssumption
    <3>. HIDE DEF taking, size
    <3>3. lengths \in Seq(Int)
      <4>1. /\ Len(lengths) \in Nat /\ lengths \in [1..Len(lengths) -> Lengths]
            /\ DOMAIN lengths = 1..Len(lengths)
        BY <3>1
      <4>2. lengths \in [1..Len(lengths) -> Int] BY <3>2, <4>1
      <4>. QED BY <4>1, <4>2
    <3>. USE DEF taking, size
    <3>4. size \in Nat /\ size <= Len(lengths) BY <3>2, <3>3
    <3>. HIDE DEF size
    <3>. QED BY <3>3, <3>4
  <2>. DEFINE taken == CHOOSE f : f = [i \in 0..Len(taking) |->
                IF i = 0 THEN outcomes ELSE Offered(f[i - 1], seen + i - 1, taking[i])]
  <2>2. /\ lenSum' = lenSum + Total(taking) /\ lenCount' = lenCount + Len(taking)
        /\ outcomes' = taken[Len(taking)] /\ seen' = seen + Len(taking)
    BY <1>3, Zenon DEF SampleBatch
  <2>. HIDE DEF size, taking
  <2>3. taken = [i \in 0..Len(taking) |->
                   IF i = 0 THEN outcomes ELSE Offered(taken[i - 1], seen + i - 1, taking[i])]
    <3>1. \E f : f = [i \in 0..Len(taking) |->
                        IF i = 0 THEN outcomes ELSE Offered(f[i - 1], seen + i - 1, taking[i])]
      <4>. HIDE DEF taken
      <4>1. \E f : Offers(f, outcomes, seen, taking, Len(taking)) BY <2>1, OffersExist
      <4>. QED BY <4>1, Zenon DEF Offers
    <3>. QED BY <3>1
  <2>4. Offers(taken, outcomes, seen, taking, Len(taking)) BY <2>3, Zenon DEF Offers
  <2>. HIDE DEF taken
  <2>5. SampleSound(taken[Len(taking)], seen + Len(taking), lenSum + Total(taking))
    BY <1>1, <2>1, <2>4, OffersSound
  <2>. QED BY <1>1, <2>2, <2>5
<1>4. CASE SamplingRestart
  BY <1>4, EmptySampleSound DEF SamplingRestart
<1>5. CASE UNCHANGED samplingVars
  BY <1>1, <1>5 DEF samplingVars
<1>. QED BY <1>3, <1>4, <1>5 DEF SamplingNext

\* The invariant says what ReservoirUnbiased says, for a reservoir that is filling
\* without the factor n.
LEMMA SoundUnbiased == SamplingInv => ReservoirUnbiased
<1>. SUFFICES ASSUME SamplingInv, lenCount > 0 PROVE ReservoirUnbiased
  BY DEF ReservoirUnbiased
<1>. DEFINE D == DOMAIN outcomes
            size == IF seen < SampleK THEN seen ELSE SampleK
            W == SumFunction(outcomes)
            M == Weighted(outcomes, TotalsOf(outcomes))
            g == [s \in D |-> outcomes[s] * Total(s)]
            h == [s \in D |-> outcomes[s] * TotalsOf(outcomes)[s]]
<1>1. /\ lenCount = seen /\ seen \in Nat /\ lenSum \in Int /\ WeightsOn(outcomes)
      /\ D \subseteq Seq(Int) /\ \A s \in D : Len(s) = size
      /\ seen < SampleK => M = W * lenSum
      /\ seen >= SampleK => seen * M = W * (SampleK * lenSum)
  BY DEF SamplingInv, SampleSound
<1>2. SampleK \in Nat BY SamplingAssumption DEF SamplingAssumption
<1>3. M \in Int /\ W \in Int
  <2>1. \A s \in D : TotalsOf(outcomes)[s] \in Int BY <1>1, TotalIs DEF TotalsOf
  <2>. QED BY <1>1, <2>1, WeightedInt
<1>4. SumFunction(g) = M
  <2>1. DOMAIN g = D OBVIOUS
  <2>2. SumFunction(g) = SumOn(g, D) BY <2>1 DEF SumFunction, SumOn
  <2>3. \A s \in D : g[s] = h[s] BY DEF TotalsOf
  <2>4. M = SumOn(h, D) BY DEF Weighted
  <2>5. IsFiniteSet(D) BY <1>1 DEF WeightsOn
  <2>. HIDE DEF g, h, D, M
  <2>. QED BY <2>2, <2>3, <2>4, <2>5, SumEqual
<1>5. M * lenCount = W * size * lenSum
  <2>. HIDE DEF M, W
  <2>1. CASE seen < SampleK
    <3>1. size = seen /\ M = W * lenSum BY <1>1, <2>1
    <3>2. (W * lenSum) * seen = W * seen * lenSum BY <1>1, <1>3
    <3>. QED BY <1>1, <3>1, <3>2
  <2>2. CASE ~(seen < SampleK)
    <3>1. size = SampleK /\ seen * M = W * (SampleK * lenSum) BY <1>1, <1>2, <2>2
    <3>2. seen * M = M * seen BY <1>1, <1>3
    <3>3. W * (SampleK * lenSum) = W * SampleK * lenSum BY <1>1, <1>2, <1>3
    <3>. QED BY <1>1, <3>1, <3>2, <3>3
  <2>. QED BY <2>1, <2>2
<1>6. \A s \in D : Len(s) = size BY <1>1
<1>7. SumFunction(g) * lenCount = W * size * lenSum BY <1>4, <1>5
<1>. QED BY <1>6, <1>7, Zenon DEF ReservoirUnbiased

\* Every record counted in the totals has the same chance to be in the reservoir, for any
\* lengths, any size of the reservoir, any batches and any restarts
\* (ReservoirSampler.add and SamplingAnalytic.process_batch).
THEOREM SampleUnbiased == SamplingSpec => []ReservoirUnbiased
<1>1. SamplingInit => SamplingInv BY EmptySampleSound DEF SamplingInit, SamplingInv
<1>. QED BY <1>1, SamplingInductive, SoundUnbiased, PTL DEF SamplingSpec

-----------------------------------------------------------------------------
(* The second moment.                                                      *)

NextOutcomes(dist, x) == {Followed(o, x) : o \in DOMAIN dist} \union {<<x, 1>>}

LEMMA TrackedWeights ==
  ASSUME NEW dist, WeightsOn(dist), NEW n \in Nat \ {0}, NEW x
  PROVE  /\ WeightsOn(Tracked(dist, n, x))
         /\ DOMAIN Tracked(dist, n, x) \subseteq NextOutcomes(dist, x)
         /\ IsFiniteSet(NextOutcomes(dist, x))
         /\ SumFunction(dist) = SumOn(dist, DOMAIN dist) /\ SumFunction(dist) \in Int
<1>. DEFINE D == DOMAIN dist
            part(t) == [o \in D |-> IF Followed(o, x) = t THEN dist[o] ELSE 0]
            new == Tracked(dist, n, x)
<1>1. IsFiniteSet(D) /\ \A o \in D : dist[o] \in Int BY DEF WeightsOn, IntsOn
<1>2. IsFiniteSet(NextOutcomes(dist, x))
  <2>1. IsFiniteSet({Followed(o, x) : o \in DOMAIN dist})
    <3>. DEFINE p == [o \in D |-> Followed(o, x)]
    <3>1. p \in Surjection(D, {Followed(o, x) : o \in D}) BY DEF Surjection
    <3>. QED BY <1>1, <3>1, FS_Surjection
  <2>2. IsFiniteSet({<<x, 1>>}) BY FS_Singleton
  <2>. QED BY <2>1, <2>2, FS_Union DEF NextOutcomes
<1>3. SumFunction(dist) = SumOn(dist, DOMAIN dist) BY DEF SumFunction, SumOn
<1>4. SumFunction(dist) \in Int BY <1>1, <1>3, SumStep
<1>5. ASSUME NEW t PROVE SumFunction(part(t)) = SumOn(part(t), D) /\ SumFunction(part(t)) \in Int
  <2>1. DOMAIN part(t) = D OBVIOUS
  <2>2. SumFunction(part(t)) = SumOn(part(t), D) BY <2>1 DEF SumFunction, SumOn
  <2>3. \A o \in D : part(t)[o] \in Int BY <1>1
  <2>. HIDE DEF part
  <2>4. SumOn(part(t), D) \in Int BY <1>1, <2>3, SumStep
  <2>. QED BY <2>2, <2>4
<1>6. new = [t \in {o \in NextOutcomes(dist, x) : n > 1 \/ o = <<x, 1>>} |->
               (n - 1) * SumFunction(part(t))
                 + (IF t = <<x, 1>> THEN SumFunction(dist) ELSE 0)]
  BY DEF Tracked, NextOutcomes
<1>7. DOMAIN new = {o \in NextOutcomes(dist, x) : n > 1 \/ o = <<x, 1>>} BY <1>6
<1>8. ASSUME NEW t \in DOMAIN new PROVE new[t] \in Int
  <2>1. new[t] = (n - 1) * SumFunction(part(t))
                   + (IF t = <<x, 1>> THEN SumFunction(dist) ELSE 0)
    BY <1>6, <1>7
  <2>. HIDE DEF part, new
  <2>. QED BY <1>4, <1>5, <2>1
<1>. HIDE DEF new
<1>9. IsFiniteSet(DOMAIN new) BY <1>2, <1>7, FS_Subset
<1>10. IntsOn(new, DOMAIN new) BY <1>8 DEF IntsOn
<1>11. WeightsOn(new) BY <1>9, <1>10 DEF WeightsOn
<1>. QED BY <1>2, <1>3, <1>4, <1>7, <1>11 DEF new

\* What an item does to a weighted sum over the outcomes.
LEMMA TrackedWeighted ==
  ASSUME NEW dist, WeightsOn(dist), NEW n \in Nat \ {0}, NEW x, NEW e, IntsOn(e, NextOutcomes(dist, x))
  PROVE  Weighted(Tracked(dist, n, x), e)
           = (n - 1) * SumOn([o \in DOMAIN dist |-> dist[o] * e[Followed(o, x)]], DOMAIN dist)
               + SumFunction(dist) * e[<<x, 1>>]
<1>. DEFINE D == DOMAIN dist
            R == NextOutcomes(dist, x)
            W == SumFunction(dist)
            top == <<x, 1>>
            part(t) == [o \in D |-> IF Followed(o, x) = t THEN dist[o] ELSE 0]
            new == Tracked(dist, n, x)
            moved == [o \in D |-> dist[o] * e[Followed(o, x)]]
            goal == [t \in DOMAIN new |-> new[t] * e[t]]
<1>1. IsFiniteSet(D) /\ (\A o \in D : dist[o] \in Int) /\ IsFiniteSet(R) /\ W \in Int
  BY TrackedWeights DEF WeightsOn, IntsOn
<1>2. \A t \in R : e[t] \in Int BY DEF IntsOn
<1>3. top \in R /\ \A o \in D : Followed(o, x) \in R BY DEF NextOutcomes
<1>4. new = [t \in {o \in R : n > 1 \/ o = top} |->
               (n - 1) * SumFunction(part(t)) + (IF t = top THEN W ELSE 0)]
  BY DEF Tracked, NextOutcomes
<1>5. ASSUME NEW t PROVE SumFunction(part(t)) = SumOn(part(t), D) /\ SumOn(part(t), D) \in Int
  <2>1. DOMAIN part(t) = D OBVIOUS
  <2>2. SumFunction(part(t)) = SumOn(part(t), D) BY <2>1 DEF SumFunction, SumOn
  <2>3. \A o \in D : part(t)[o] \in Int BY <1>1
  <2>. HIDE DEF part
  <2>4. SumOn(part(t), D) \in Int BY <1>1, <2>3, SumStep
  <2>. QED BY <2>2, <2>4
<1>6. /\ DOMAIN new = {o \in R : n > 1 \/ o = top}
      /\ \A t \in DOMAIN new :
           new[t] = (n - 1) * SumFunction(part(t)) + (IF t = top THEN W ELSE 0)
  <2>. HIDE DEF part, top, R, W, new
  <2>. QED BY <1>4
<1>7. Weighted(new, e) = SumOn(goal, DOMAIN new) BY DEF Weighted
<1>8. \A o \in D : moved[o] \in Int BY <1>1, <1>2, <1>3
<1>. HIDE DEF part, top, R, W, new, moved
<1>9. SumOn(moved, D) \in Int BY <1>1, <1>8, SumStep
<1>10. CASE n = 1
  <2>1. DOMAIN new = {top} BY <1>3, <1>6, <1>10
  <2>2. new[top] = W
    <3>1. top \in DOMAIN new BY <2>1
    <3>2. new[top] = (n - 1) * SumFunction(part(top)) + W BY <1>6, <3>1
    <3>. QED BY <1>1, <1>5, <1>10, <3>2
  <2>3. goal[top] = W * e[top] /\ goal[top] \in Int BY <1>1, <1>2, <1>3, <2>1, <2>2
  <2>. HIDE DEF goal
  <2>4. IsFiniteSet({top}) BY FS_Singleton
  <2>5. SumOn(goal, {top}) = goal[top]
    <3>1. \A y \in {top} \ {top} : goal[y] = 0 OBVIOUS
    <3>2. top \in {top} OBVIOUS
    <3>. QED BY <2>3, <2>4, <3>1, <3>2, SumSingle
  <2>6. Weighted(new, e) = W * e[top] BY <1>7, <2>1, <2>3, <2>5
  <2>7. (n - 1) * SumOn(moved, D) + W * e[top] = W * e[top]
    BY <1>1, <1>2, <1>3, <1>9, <1>10
  <2>. QED BY <2>6, <2>7 DEF moved, W, new, top
<1>11. CASE n # 1
  <2>. DEFINE h == [t \in R |-> e[t] * SumOn(part(t), D)]
              b == [t \in R |-> IF t = top THEN W * e[t] ELSE 0]
              p == [o \in D |-> Followed(o, x)]
  <2>1. DOMAIN new = R
    <3>1. n > 1 BY <1>11
    <3>. QED BY <1>6, <3>1
  <2>2. \A t \in R : h[t] \in Int /\ b[t] \in Int BY <1>1, <1>2, <1>5
  <2>3. ASSUME NEW t \in R PROVE goal[t] = (n - 1) * h[t] + 1 * b[t]
    <3>1. goal[t] = ((n - 1) * SumOn(part(t), D) + (IF t = top THEN W ELSE 0)) * e[t]
      BY <1>5, <1>6, <2>1
    <3>2. e[t] \in Int /\ SumOn(part(t), D) \in Int /\ n - 1 \in Int BY <1>2, <1>5
    <3>3. \A i, j, k, l \in Int :
            /\ (i * j + k) * l = i * (l * j) + 1 * (k * l)
            /\ (i * j + 0) * l = i * (l * j) + 1 * 0
      BY SMT
    <3>. HIDE DEF goal
    <3>4. CASE t = top
      <4>1. goal[t] = ((n - 1) * SumOn(part(t), D) + W) * e[t] BY <3>1, <3>4
      <4>2. h[t] = e[t] * SumOn(part(t), D) /\ b[t] = W * e[t] BY <3>4
      <4>. QED BY <1>1, <3>2, <3>3, <4>1, <4>2
    <3>5. CASE t # top
      <4>1. goal[t] = ((n - 1) * SumOn(part(t), D) + 0) * e[t] BY <3>1, <3>5
      <4>2. h[t] = e[t] * SumOn(part(t), D) /\ b[t] = 0 BY <3>5
      <4>. QED BY <1>1, <3>2, <3>3, <4>1, <4>2
    <3>. QED BY <3>4, <3>5
  <2>4. b[top] = W * e[top] /\ b[top] \in Int /\ \A t \in R \ {top} : b[t] = 0
    BY <1>1, <1>2, <1>3
  <2>5. \A o \in D : p[o] \in R /\ moved[o] = dist[o] * e[p[o]] BY <1>3 DEF moved
  <2>6. \A t \in R : h[t] = e[t] * SumOn([o \in D |-> IF p[o] = t THEN dist[o] ELSE 0], D)
    <3>1. \A t : part(t) = [o \in D |-> IF p[o] = t THEN dist[o] ELSE 0] BY DEF part
    <3>. HIDE DEF p
    <3>. QED BY <3>1
  <2>. HIDE DEF h, b, p, goal
  <2>7. SumOn(b, R) = b[top] BY <1>1, <1>3, <2>4, SumSingle
  <2>8. SumOn(h, R) = SumOn(moved, D)
    <3>1. IntsOn(dist, D) /\ IntsOn(e, R) BY <1>1, <1>2 DEF IntsOn
    <3>2. Fibered(h, moved, p, dist, e, D, R) BY <2>5, <2>6 DEF Fibered
    <3>. QED BY <1>1, <3>1, <3>2, SumFibers
  <2>9. SumOn(goal, R) = (n - 1) * SumOn(h, R) + 1 * SumOn(b, R)
    <3>1. IntsOn(h, R) /\ IntsOn(b, R) BY <2>2 DEF IntsOn
    <3>2. Combines(goal, n - 1, h, 1, b, R) BY <2>3 DEF Combines
    <3>3. n - 1 \in Int /\ 1 \in Int OBVIOUS
    <3>. QED BY <1>1, <3>1, <3>2, <3>3, SumLinear
  <2>10. Weighted(new, e) = (n - 1) * SumOn(moved, D) + W * e[top]
    <3>1. W * e[top] \in Int BY <1>1, <1>2, <1>3
    <3>2. 1 * (W * e[top]) = W * e[top] BY <3>1
    <3>. QED BY <1>7, <2>1, <2>4, <2>7, <2>8, <2>9, <3>2
  <2>. QED BY <2>10 DEF moved, W, new, top
<1>. QED BY <1>10, <1>11

SecondMoment(s) == SumFunction([x \in Destinations |-> s.count[x] * s.count[x]])

\* The sum of 2 r - 1 over all outcomes, and the weight of those that track x.
Twice(s) == Weighted(s.tracking, [o \in DOMAIN s.tracking |-> 2 * o[2] - 1])
HeldWeight(s, x) ==
  Weighted(s.tracking, [o \in DOMAIN s.tracking |-> IF o[1] = x THEN 1 ELSE 0])

\* The invariant of the counter and the estimator beside it.
AmsSound(s) ==
  /\ s.n \in Nat /\ s.count \in [Destinations -> Nat]
  /\ WeightsOn(s.tracking) /\ \A o \in DOMAIN s.tracking : o[2] \in Int
  /\ s.n * Twice(s) = SumFunction(s.tracking) * SecondMoment(s)
  /\ \A x \in Destinations :
       s.n * HeldWeight(s, x) = SumFunction(s.tracking) * s.count[x]

\* The three weighted sums after an item.
LEMMA AddedSums ==
  ASSUME NEW s, AmsSound(s), NEW x \in Destinations
  PROVE  LET t == AddItem(s, x)
             W == SumFunction(s.tracking)
         IN  /\ WeightsOn(t.tracking) /\ \A o \in DOMAIN t.tracking : o[2] \in Int
             /\ SumFunction(t.tracking) = s.n * W + W
             /\ Twice(t) = s.n * (Twice(s) + 2 * HeldWeight(s, x)) + W
             /\ \A y \in Destinations :
                  HeldWeight(t, y) = s.n * HeldWeight(s, y) + (IF y = x THEN W ELSE 0)
<1>. DEFINE t == AddItem(s, x)
            dist == s.tracking
            D == DOMAIN dist
            W == SumFunction(dist)
            n == s.n + 1
            R == NextOutcomes(dist, x)
            new == Tracked(dist, n, x)
            moved(e) == [o \in D |-> dist[o] * e[Followed(o, x)]]
<1>1. n \in Nat \ {0} /\ n - 1 = s.n /\ s.n \in Nat BY DEF AmsSound
<1>2. WeightsOn(dist) /\ \A o \in D : o[2] \in Int BY DEF AmsSound
<1>3. t.tracking = new BY DEF AddItem
<1>. HIDE DEF new, n
<1>4. /\ WeightsOn(new) /\ DOMAIN new \subseteq R /\ W = SumOn(dist, D) /\ W \in Int
  BY <1>1, <1>2, TrackedWeights DEF new
<1>5. IsFiniteSet(D) /\ \A o \in D : dist[o] \in Int BY <1>2 DEF WeightsOn, IntsOn
<1>6. \A r \in R : r[2] \in Int
  <2>1. ASSUME NEW o \in D PROVE Followed(o, x)[2] \in Int
    BY <1>2 DEF Followed
  <2>2. <<x, 1>>[2] \in Int OBVIOUS
  <2>. QED BY <2>1, <2>2 DEF NextOutcomes
<1>7. ASSUME NEW e, IntsOn(e, R)
      PROVE  Weighted(new, e) = s.n * SumOn(moved(e), D) + W * e[<<x, 1>>]
  BY <1>1, <1>2, <1>7, TrackedWeighted DEF new
<1>8. <<x, 1>> \in R /\ (\A o \in D : Followed(o, x) \in R) BY DEF NextOutcomes
<1>. HIDE DEF R, W, D, moved, t
<1>9. SumFunction(new) = s.n * W + W
  <2>. DEFINE e == [r \in R |-> 1]
  <2>1. IntsOn(e, R) BY DEF IntsOn
  <2>2. \A o \in DOMAIN new : e[o] = 1 BY <1>4
  <2>3. \A o \in D : moved(e)[o] = dist[o] BY <1>5, <1>8 DEF moved
  <2>4. e[<<x, 1>>] = 1 BY <1>8
  <2>. HIDE DEF e
  <2>5. Weighted(new, e) = SumFunction(new) BY <1>4, <2>2, WeightedOnes
  <2>6. SumOn(moved(e), D) = W BY <1>4, <1>5, <2>3, SumEqual
  <2>7. Weighted(new, e) = s.n * W + W * 1 BY <1>7, <2>1, <2>4, <2>6
  <2>. QED BY <1>4, <2>5, <2>7
<1>10. Twice(t) = s.n * (Twice(s) + 2 * HeldWeight(s, x)) + W
  <2>. DEFINE e == [r \in R |-> 2 * r[2] - 1]
              d == [o \in DOMAIN new |-> 2 * o[2] - 1]
              f == [o \in D |-> dist[o] * [r \in D |-> 2 * r[2] - 1][o]]
              g == [o \in D |-> dist[o] * [r \in D |-> IF r[1] = x THEN 1 ELSE 0][o]]
  <2>1. IntsOn(e, R) BY <1>6 DEF IntsOn
  <2>2. Twice(t) = Weighted(new, d) BY <1>3 DEF Twice
  <2>3. \A o \in DOMAIN new : d[o] = e[o] BY <1>4
  <2>4. Twice(s) = SumOn(f, D) BY DEF Twice, Weighted, D
  <2>5. HeldWeight(s, x) = SumOn(g, D) BY DEF HeldWeight, Weighted, D
  <2>6. IntsOn(f, D) /\ IntsOn(g, D) BY <1>2, <1>5 DEF IntsOn, D
  <2>7. ASSUME NEW o \in D PROVE moved(e)[o] = 1 * f[o] + 2 * g[o]
    <3>1. moved(e)[o] = dist[o] * (2 * Followed(o, x)[2] - 1) BY <1>8 DEF moved
    <3>2. o[2] \in Int /\ dist[o] \in Int BY <1>2, <1>5 DEF D
    <3>3. f[o] = dist[o] * (2 * o[2] - 1) OBVIOUS
    <3>4. CASE o[1] = x
      <4>1. Followed(o, x)[2] = o[2] + 1 BY <3>4 DEF Followed
      <4>2. g[o] = dist[o] * 1 BY <3>4
      <4>3. \A a, b \in Int : a * (2 * (b + 1) - 1) = 1 * (a * (2 * b - 1)) + 2 * (a * 1)
        OBVIOUS
      <4>. HIDE DEF f, g
      <4>. QED BY <3>1, <3>2, <3>3, <4>1, <4>2, <4>3
    <3>5. CASE o[1] # x
      <4>1. Followed(o, x)[2] = o[2] BY <3>5 DEF Followed
      <4>2. g[o] = dist[o] * 0 BY <3>5
      <4>3. \A a, b \in Int : a * (2 * b - 1) = 1 * (a * (2 * b - 1)) + 2 * (a * 0)
        OBVIOUS
      <4>. HIDE DEF f, g
      <4>. QED BY <3>1, <3>2, <3>3, <4>1, <4>2, <4>3
    <3>. QED BY <3>4, <3>5
  <2>8. e[<<x, 1>>] = 1 BY <1>8
  <2>. HIDE DEF d, e, f, g
  <2>9. Weighted(new, d) = Weighted(new, e) BY <1>4, <2>3, WeightedEqual
  <2>10. Combines(moved(e), 1, f, 2, g, D) BY <2>7 DEF Combines
  <2>11. SumOn(moved(e), D) = 1 * SumOn(f, D) + 2 * SumOn(g, D)
    BY <1>5, <2>6, <2>10, SumLinear
  <2>12. SumOn(f, D) \in Int /\ SumOn(g, D) \in Int BY <1>5, <2>6, SumStep DEF IntsOn
  <2>13. SumOn(moved(e), D) = Twice(s) + 2 * HeldWeight(s, x) BY <2>4, <2>5, <2>11, <2>12
  <2>14. Weighted(new, e) = s.n * (Twice(s) + 2 * HeldWeight(s, x)) + W * 1
    BY <1>7, <2>1, <2>8, <2>13
  <2>. QED BY <1>4, <2>2, <2>9, <2>14
<1>11. ASSUME NEW y \in Destinations
       PROVE  HeldWeight(t, y) = s.n * HeldWeight(s, y) + (IF y = x THEN W ELSE 0)
  <2>. DEFINE e == [r \in R |-> IF r[1] = y THEN 1 ELSE 0]
              d == [o \in DOMAIN new |-> IF o[1] = y THEN 1 ELSE 0]
              f == [o \in D |-> dist[o] * [r \in D |-> IF r[1] = y THEN 1 ELSE 0][o]]
  <2>1. IntsOn(e, R) BY DEF IntsOn
  <2>2. HeldWeight(t, y) = Weighted(new, d) BY <1>3 DEF HeldWeight
  <2>3. \A o \in DOMAIN new : d[o] = e[o] BY <1>4
  <2>4. HeldWeight(s, y) = SumOn(f, D) BY DEF HeldWeight, Weighted, D
  <2>5. \A o \in D : moved(e)[o] = f[o]
    <3>1. \A o \in D : Followed(o, x)[1] = o[1] BY DEF Followed
    <3>. QED BY <1>8, <3>1 DEF moved
  <2>6. e[<<x, 1>>] = IF y = x THEN 1 ELSE 0 BY <1>8
  <2>. HIDE DEF d, e, f
  <2>7. Weighted(new, d) = Weighted(new, e) BY <1>4, <2>3, WeightedEqual
  <2>8. SumOn(moved(e), D) = HeldWeight(s, y) BY <1>5, <2>4, <2>5, SumEqual
  <2>9. Weighted(new, e) = s.n * HeldWeight(s, y) + W * (IF y = x THEN 1 ELSE 0)
    BY <1>7, <2>1, <2>6, <2>8
  <2>10. W * (IF y = x THEN 1 ELSE 0) = IF y = x THEN W ELSE 0 BY <1>4
  <2>. QED BY <2>2, <2>7, <2>9, <2>10
<1>12. \A o \in DOMAIN new : o[2] \in Int BY <1>4, <1>6
<1>. QED BY <1>3, <1>4, <1>9, <1>10, <1>11, <1>12 DEF t, W, D

LEMMA AddedMoment ==
  ASSUME NEW s, AmsSound(s), NEW x \in Destinations, IsFiniteSet(Destinations)
  PROVE  /\ AddItem(s, x).count \in [Destinations -> Nat]
         /\ SecondMoment(s) \in Int
         /\ SecondMoment(AddItem(s, x)) = SecondMoment(s) + 2 * s.count[x] + 1
<1>. DEFINE t == AddItem(s, x)
            f == [y \in Destinations |-> s.count[y] * s.count[y]]
            g == [y \in Destinations |-> t.count[y] * t.count[y]]
            rest == Destinations \ {x}
<1>1. s.count \in [Destinations -> Nat] BY DEF AmsSound
<1>2. t.count = [s.count EXCEPT ![x] = @ + 1] BY DEF AddItem
<1>3. t.count \in [Destinations -> Nat] BY <1>1, <1>2
<1>4. SecondMoment(s) = SumOn(f, Destinations) /\ SecondMoment(t) = SumOn(g, Destinations)
  <2>1. DOMAIN f = Destinations /\ DOMAIN g = Destinations OBVIOUS
  <2>. QED BY <2>1 DEF SecondMoment, SumFunction, SumOn
<1>5. \A y \in Destinations : f[y] \in Int /\ g[y] \in Int
  <2>1. \A c \in Nat : c * c \in Int OBVIOUS
  <2>. QED BY <1>1, <1>3, <2>1
<1>6. \A y \in rest : f[y] = g[y] BY <1>1, <1>2
<1>7. g[x] = f[x] + 2 * s.count[x] + 1
  <2>1. t.count[x] = s.count[x] + 1 BY <1>1, <1>2
  <2>2. \A c \in Nat : (c + 1) * (c + 1) = c * c + 2 * c + 1 OBVIOUS
  <2>3. f[x] = s.count[x] * s.count[x] /\ g[x] = t.count[x] * t.count[x] OBVIOUS
  <2>. HIDE DEF f, g, t
  <2>. QED BY <1>1, <2>1, <2>2, <2>3
<1>. HIDE DEF f, g
<1>8. IsFiniteSet(rest) BY FS_Subset
<1>9. /\ SumOn(f, Destinations) = f[x] + SumOn(f, rest)
      /\ SumOn(g, Destinations) = g[x] + SumOn(g, rest)
      /\ SumOn(f, Destinations) \in Int
  BY <1>5, SumStep
<1>10. SumOn(f, rest) = SumOn(g, rest) BY <1>6, <1>8, SumEqual
<1>11. SumOn(f, rest) \in Int BY <1>5, <1>8, SumStep
<1>12. f[x] \in Int /\ g[x] \in Int /\ s.count[x] \in Nat BY <1>1, <1>5
<1>. QED BY <1>3, <1>4, <1>7, <1>9, <1>10, <1>11, <1>12

LEMMA AddedSound ==
  ASSUME NEW s, AmsSound(s), NEW x \in Destinations, IsFiniteSet(Destinations)
  PROVE  AmsSound(AddItem(s, x))
<1>. DEFINE t == AddItem(s, x)
            W == SumFunction(s.tracking)
            n == s.n
            E == Twice(s)
            H(y) == HeldWeight(s, y)
            M == SecondMoment(s)
<1>1. /\ n \in Nat /\ s.count \in [Destinations -> Nat] /\ WeightsOn(s.tracking)
      /\ \A o \in DOMAIN s.tracking : o[2] \in Int
      /\ n * E = W * M /\ \A y \in Destinations : n * H(y) = W * s.count[y]
  BY DEF AmsSound
<1>2. E \in Int /\ W \in Int
  <2>. DEFINE e == [o \in DOMAIN s.tracking |-> 2 * o[2] - 1]
  <2>1. \A o \in DOMAIN s.tracking : e[o] \in Int BY <1>1
  <2>2. E = Weighted(s.tracking, e) BY DEF Twice
  <2>. HIDE DEF e, E
  <2>. QED BY <1>1, <2>1, <2>2, WeightedInt
<1>3. ASSUME NEW y \in Destinations PROVE H(y) \in Int
  <2>. DEFINE e == [o \in DOMAIN s.tracking |-> IF o[1] = y THEN 1 ELSE 0]
  <2>1. \A o \in DOMAIN s.tracking : e[o] \in Int OBVIOUS
  <2>2. H(y) = Weighted(s.tracking, e) BY DEF HeldWeight
  <2>. HIDE DEF e, H
  <2>. QED BY <1>1, <2>1, <2>2, WeightedInt
<1>4. /\ WeightsOn(t.tracking) /\ \A o \in DOMAIN t.tracking : o[2] \in Int
      /\ SumFunction(t.tracking) = n * W + W
      /\ Twice(t) = n * (E + 2 * H(x)) + W
      /\ \A y \in Destinations : HeldWeight(t, y) = n * H(y) + (IF y = x THEN W ELSE 0)
  BY AddedSums
<1>5. t.count \in [Destinations -> Nat] /\ M \in Int /\ SecondMoment(t) = M + 2 * s.count[x] + 1
  BY AddedMoment
<1>6. t.n = n + 1 /\ t.count = [s.count EXCEPT ![x] = @ + 1] BY DEF AddItem
<1>. HIDE DEF t, W, n, E, H, M
<1>7. t.n * Twice(t) = SumFunction(t.tracking) * SecondMoment(t)
  <2>1. s.count[x] \in Int /\ H(x) \in Int /\ n \in Int BY <1>1, <1>3
  <2>2. n * H(x) = W * s.count[x] BY <1>1
  <2>3. (n + 1) * (n * (E + 2 * H(x)) + W) = (n * W + W) * (M + 2 * s.count[x] + 1)
    <3>. DEFINE h == H(x)
                c == s.count[x]
    <3>1. n \in Int /\ E \in Int /\ W \in Int /\ M \in Int /\ h \in Int /\ c \in Int
      BY <1>1, <1>2, <1>5, <2>1
    <3>2. n * E = W * M /\ n * h = W * c BY <1>1, <2>2
    <3>. HIDE DEF h, c
    <3>3. n * (E + 2 * h) = n * E + 2 * (n * h) BY <3>1
    <3>4. n * (E + 2 * h) + W = W * M + 2 * (W * c) + W BY <3>2, <3>3
    <3>5. W * M + 2 * (W * c) + W = W * (M + 2 * c + 1) BY <3>1
    <3>6. (n + 1) * (W * (M + 2 * c + 1)) = (n * W + W) * (M + 2 * c + 1) BY <3>1
    <3>7. (n + 1) * (n * (E + 2 * h) + W) = (n * W + W) * (M + 2 * c + 1)
      BY <3>4, <3>5, <3>6
    <3>. QED BY <3>7 DEF h, c
  <2>. QED BY <1>4, <1>5, <1>6, <2>3
<1>8. ASSUME NEW y \in Destinations
      PROVE  t.n * HeldWeight(t, y) = SumFunction(t.tracking) * t.count[y]
  <2>1. H(y) \in Int /\ s.count[y] \in Int /\ n \in Int BY <1>1, <1>3
  <2>2. n * H(y) = W * s.count[y] BY <1>1
  <2>3. CASE y = x
    <3>1. HeldWeight(t, y) = n * H(y) + W BY <1>4, <2>3
    <3>2. t.count[y] = s.count[y] + 1 BY <1>1, <1>6, <2>3
    <3>3. \A a, w, c \in Int : (a + 1) * (w * c + w) = (a * w + w) * (c + 1) OBVIOUS
    <3>4. (n + 1) * (W * s.count[y] + W) = (n * W + W) * (s.count[y] + 1)
      BY <1>2, <2>1, <3>3
    <3>. QED BY <1>4, <1>6, <2>2, <3>1, <3>2, <3>4
  <2>4. CASE y # x
    <3>1. HeldWeight(t, y) = n * H(y) + 0 BY <1>4, <2>4
    <3>2. t.count[y] = s.count[y] BY <1>1, <1>6, <2>4
    <3>3. \A a, w, c \in Int : (a + 1) * (w * c + 0) = (a * w + w) * c OBVIOUS
    <3>4. (n + 1) * (W * s.count[y] + 0) = (n * W + W) * s.count[y]
      BY <1>2, <2>1, <3>3
    <3>. QED BY <1>4, <1>6, <2>2, <3>1, <3>2, <3>4
  <2>. QED BY <2>3, <2>4
<1>9. t.n \in Nat BY <1>1, <1>6
<1>. QED BY <1>4, <1>5, <1>7, <1>8, <1>9 DEF AmsSound, t

LEMMA FreshSound ==
  ASSUME IsFiniteSet(Destinations)
  PROVE  AmsSound(Fresh)
<1>. DEFINE D == {<<NoItem, 0>>}
            f == [x \in Destinations |-> Fresh.count[x] * Fresh.count[x]]
<1>1. /\ Fresh.n = 0 /\ Fresh.count = [x \in Destinations |-> 0]
      /\ Fresh.tracking = [o \in D |-> 1]
  BY DEF Fresh
<1>2. DOMAIN Fresh.tracking = D BY <1>1
<1>3. IsFiniteSet(D) BY FS_Singleton
<1>4. WeightsOn(Fresh.tracking)
  <2>1. \A o \in D : Fresh.tracking[o] \in Int BY <1>1
  <2>. QED BY <1>2, <1>3, <2>1 DEF WeightsOn, IntsOn
<1>5. \A o \in D : o[2] \in Int OBVIOUS
<1>6. Twice(Fresh) \in Int
  <2>. DEFINE e == [o \in DOMAIN Fresh.tracking |-> 2 * o[2] - 1]
  <2>1. \A o \in DOMAIN Fresh.tracking : e[o] \in Int BY <1>2, <1>5
  <2>2. Twice(Fresh) = Weighted(Fresh.tracking, e) BY DEF Twice
  <2>. HIDE DEF e
  <2>. QED BY <1>4, <2>1, <2>2, WeightedInt
<1>7. ASSUME NEW y \in Destinations PROVE HeldWeight(Fresh, y) \in Int
  <2>. DEFINE e == [o \in DOMAIN Fresh.tracking |-> IF o[1] = y THEN 1 ELSE 0]
  <2>1. \A o \in DOMAIN Fresh.tracking : e[o] \in Int OBVIOUS
  <2>2. HeldWeight(Fresh, y) = Weighted(Fresh.tracking, e) BY DEF HeldWeight
  <2>. HIDE DEF e
  <2>. QED BY <1>4, <2>1, <2>2, WeightedInt
<1>8. SumFunction(Fresh.tracking) \in Int
  <2>. DEFINE e == [o \in DOMAIN Fresh.tracking |-> 1]
  <2>1. \A o \in DOMAIN Fresh.tracking : e[o] \in Int OBVIOUS
  <2>. HIDE DEF e
  <2>. QED BY <1>4, <2>1, WeightedInt
<1>9. SecondMoment(Fresh) = 0
  <2>1. SecondMoment(Fresh) = SumOn(f, Destinations)
    <3>1. DOMAIN f = Destinations OBVIOUS
    <3>. QED BY <3>1 DEF SecondMoment, SumFunction, SumOn
  <2>2. \A y \in Destinations : f[y] = 0 BY <1>1
  <2>. HIDE DEF f
  <2>. QED BY <2>1, <2>2, SumZero
<1>10. \A a \in Int : 0 * a = a * 0 OBVIOUS
<1>11. Fresh.count \in [Destinations -> Nat] /\ \A y \in Destinations : Fresh.count[y] = 0
  BY <1>1
<1>12. Fresh.n \in Nat BY <1>1
<1>13. Fresh.n * Twice(Fresh) = SumFunction(Fresh.tracking) * SecondMoment(Fresh)
  BY <1>1, <1>6, <1>8, <1>9, <1>10
<1>14. \A y \in Destinations :
         Fresh.n * HeldWeight(Fresh, y) = SumFunction(Fresh.tracking) * Fresh.count[y]
  BY <1>1, <1>7, <1>8, <1>10, <1>11
<1>. QED BY <1>2, <1>4, <1>5, <1>11, <1>12, <1>13, <1>14 DEF AmsSound

\* f holds the states of the window while the first m items of a batch are added.
Adds(f, s, items, m) == f = [i \in 0..m |-> IF i = 0 THEN s ELSE AddItem(f[i - 1], items[i])]

LEMMA AddsExist ==
  ASSUME NEW s, NEW items, NEW m \in Nat
  PROVE  \E f : Adds(f, s, items, m)
<1>. DEFINE Bad == {n \in Nat : ~ \E f : Adds(f, s, items, n)}
<1>1. SUFFICES ASSUME Bad # {} PROVE FALSE
  OBVIOUS
<1>2. PICK k \in Bad : \A z \in Bad : ~(<<z, k>> \in OpToRel(<, Nat))
  BY <1>1, WFMin, NatLessThanWellFounded
<1>3. k \in Nat /\ \A z \in Nat : z < k => \E f : Adds(f, s, items, z)
  BY <1>2 DEF OpToRel
<1>4. \E f : Adds(f, s, items, k)
  <2>1. CASE k = 0
    <3>1. Adds([n \in 0..k |-> s], s, items, k) BY <2>1 DEF Adds
    <3>. QED BY <3>1
  <2>2. CASE k # 0
    <3>1. k - 1 \in Nat /\ k - 1 < k BY <1>3, <2>2
    <3>2. PICK f : Adds(f, s, items, k - 1) BY <1>3, <3>1
    <3>. DEFINE v(n) == IF n = 0 THEN s ELSE AddItem(f[n - 1], items[n])
                g == [n \in 0..k |-> v(n)]
    <3>3. \A n \in 0 .. k - 1 : f[n] = v(n) BY <3>2, Zenon DEF Adds
    <3>4. \A n \in 0..k : g[n] = v(n) OBVIOUS
    <3>. HIDE DEF g
    <3>5. \A n \in 0..k : n # 0 => g[n - 1] = f[n - 1]
      <4>. HIDE DEF v
      <4>1. \A n \in 0..k : n # 0 => n - 1 \in 0..k /\ n - 1 \in 0 .. k - 1 BY <1>3
      <4>. QED BY <3>3, <3>4, <4>1
    <3>6. \A n \in 0..k : g[n] = IF n = 0 THEN s ELSE AddItem(g[n - 1], items[n])
      BY <3>4, <3>5
    <3>7. g = [n \in 0..k |-> g[n]] BY DEF g
    <3>8. Adds(g, s, items, k) BY <3>6, <3>7 DEF Adds
    <3>. QED BY <3>8
  <2>. QED BY <2>1, <2>2
<1>. QED BY <1>2, <1>4

LEMMA AddsSound ==
  ASSUME NEW s, AmsSound(s), IsFiniteSet(Destinations), NEW m \in Nat,
         NEW items, \A n \in 1..m : items[n] \in Destinations,
         NEW f, Adds(f, s, items, m)
  PROVE  AmsSound(f[m])
<1>. DEFINE Bad == {n \in Nat : n \in 0..m /\ ~AmsSound(f[n])}
<1>1. SUFFICES ASSUME Bad # {} PROVE FALSE
  OBVIOUS
<1>2. PICK k \in Bad : \A z \in Bad : ~(<<z, k>> \in OpToRel(<, Nat))
  BY <1>1, WFMin, NatLessThanWellFounded
<1>3. k \in Nat /\ k \in 0..m /\ ~AmsSound(f[k]) OBVIOUS
<1>4. \A z \in 0..m : z < k => AmsSound(f[z])
  <2>1. \A z \in Bad : ~(z < k)
    <3>1. Bad \subseteq Nat OBVIOUS
    <3>. HIDE DEF Bad
    <3>. QED BY <1>2, <1>3, <3>1 DEF OpToRel
  <2>. QED BY <2>1
<1>. HIDE DEF Bad
<1>5. f[k] = IF k = 0 THEN s ELSE AddItem(f[k - 1], items[k])
  BY <1>3, Zenon DEF Adds
<1>6. CASE k = 0 BY <1>3, <1>5, <1>6
<1>7. CASE k # 0
  <2>1. k - 1 \in 0..m /\ k - 1 < k /\ k \in 1..m BY <1>3, <1>7
  <2>2. AmsSound(f[k - 1]) /\ items[k] \in Destinations BY <1>4, <2>1
  <2>3. f[k] = AddItem(f[k - 1], items[k]) BY <1>5, <1>7
  <2>4. AmsSound(f[k]) BY <2>2, <2>3, AddedSound
  <2>. QED BY <1>3, <2>4
<1>. QED BY <1>6, <1>7

\* The invariant holds of the window in memory and of the one in the file.
AmsInv == AmsSound(amsState) /\ AmsSound(amsFile)

LEMMA AmsInductive == AmsInv /\ [AmsNext]_amsVars => AmsInv'
<1>. SUFFICES ASSUME AmsInv, [AmsNext]_amsVars PROVE AmsInv'
  OBVIOUS
<1>1. AmsSound(amsState) /\ AmsSound(amsFile) BY DEF AmsInv
<1>2. IsFiniteSet(Destinations) BY AmsAssumption DEF AmsAssumption
<1>3. ASSUME NEW items \in BoundedSeq(Destinations, AmsBatch), CountItems(items)
      PROVE  AmsInv'
  <2>1. items \in Seq(Destinations) BY DEF BoundedSeq, SeqOf
  <2>2. Len(items) \in Nat /\ \A n \in 1..Len(items) : items[n] \in Destinations BY <2>1
  <2>. DEFINE added == CHOOSE f : f = [i \in 0..Len(items) |->
                IF i = 0 THEN amsState ELSE AddItem(f[i - 1], items[i])]
  <2>3. added = [i \in 0..Len(items) |->
                   IF i = 0 THEN amsState ELSE AddItem(added[i - 1], items[i])]
    <3>1. \E f : f = [i \in 0..Len(items) |->
                        IF i = 0 THEN amsState ELSE AddItem(f[i - 1], items[i])]
      <4>1. Len(items) \in Nat BY <2>2
      <4>. HIDE DEF added
      <4>2. \E f : Adds(f, amsState, items, Len(items)) BY <4>1, AddsExist
      <4>. QED BY <4>2, Zenon DEF Adds
    <3>. QED BY <3>1
  <2>4. Adds(added, amsState, items, Len(items)) BY <2>3, Zenon DEF Adds
  <2>5. amsState' = added[Len(items)] /\ amsFile' \in {amsState', amsFile}
    BY <1>3, Zenon DEF CountItems
  <2>. HIDE DEF added
  <2>6. AmsSound(added[Len(items)]) BY <1>1, <1>2, <2>2, <2>4, AddsSound
  <2>7. AmsSound(amsState') BY <2>5, <2>6
  <2>8. AmsSound(amsFile') BY <1>1, <2>5, <2>7
  <2>. QED BY <2>7, <2>8 DEF AmsInv, AmsSound
<1>4. CASE EvictWindow
  <2>1. AmsSound(Fresh) BY <1>2, FreshSound
  <2>2. amsState' = Fresh /\ amsFile' \in {Fresh, amsFile} BY <1>4 DEF EvictWindow
  <2>3. AmsSound(amsState') /\ AmsSound(amsFile') BY <1>1, <2>1, <2>2
  <2>. QED BY <2>3 DEF AmsInv, AmsSound
<1>5. CASE AmsRestart
  <2>1. AmsSound(amsState') /\ AmsSound(amsFile') BY <1>1, <1>5 DEF AmsRestart
  <2>. QED BY <2>1 DEF AmsInv, AmsSound
<1>6. CASE UNCHANGED amsVars
  <2>1. AmsSound(amsState') /\ AmsSound(amsFile') BY <1>1, <1>6 DEF amsVars
  <2>. QED BY <2>1 DEF AmsInv, AmsSound
<1>. QED BY <1>3, <1>4, <1>5, <1>6 DEF AmsNext

\* The invariant says what AmsUnbiased says, for an estimator without the factor n.
LEMMA MomentUnbiased == AmsSound(amsState) => AmsUnbiased
<1>. SUFFICES ASSUME AmsSound(amsState)
     PROVE  SumFunction([o \in DOMAIN amsState.tracking |->
                           amsState.tracking[o] * Estimator(amsState, o)])
              = SumFunction(amsState.tracking) * SecondMoment(amsState)
  BY DEF AmsUnbiased, SecondMoment
<1>. DEFINE dist == amsState.tracking
            D == DOMAIN dist
            n == amsState.n
            f == [o \in D |-> dist[o] * [q \in D |-> 2 * q[2] - 1][o]]
            g == [o \in D |-> dist[o] * Estimator(amsState, o)]
<1>1. /\ n \in Int /\ IsFiniteSet(D)
      /\ \A o \in D : dist[o] \in Int /\ o[2] \in Int
  BY DEF AmsSound, WeightsOn, IntsOn
<1>2. IntsOn(f, D) BY <1>1 DEF IntsOn
<1>3. ASSUME NEW o \in D PROVE g[o] = n * f[o] + 0 * f[o]
  <2>1. g[o] = dist[o] * (n * (2 * o[2] - 1)) BY DEF Estimator
  <2>2. f[o] = dist[o] * (2 * o[2] - 1) OBVIOUS
  <2>3. \A a, b, c \in Int : a * (b * (2 * c - 1)) = b * (a * (2 * c - 1)) + 0 * (a * (2 * c - 1))
    OBVIOUS
  <2>4. dist[o] \in Int /\ o[2] \in Int BY <1>1
  <2>. HIDE DEF f, g, n
  <2>. QED BY <1>1, <2>1, <2>2, <2>3, <2>4
<1>4. Twice(amsState) = SumOn(f, D) BY DEF Twice, Weighted
<1>5. SumFunction(g) = SumOn(g, D)
  <2>1. DOMAIN g = D OBVIOUS
  <2>. QED BY <2>1 DEF SumFunction, SumOn
<1>6. n * Twice(amsState) = SumFunction(dist) * SecondMoment(amsState) BY DEF AmsSound
<1>7. Combines(g, n, f, 0, f, D) BY <1>3 DEF Combines
<1>. HIDE DEF f, g, D
<1>8. SumOn(g, D) = n * SumOn(f, D) + 0 * SumOn(f, D) BY <1>1, <1>2, <1>7, SumLinear
<1>9. SumOn(f, D) \in Int BY <1>1, <1>2, SumStep DEF IntsOn
<1>10. SumOn(g, D) = n * SumOn(f, D) BY <1>1, <1>8, <1>9
<1>. QED BY <1>4, <1>5, <1>6, <1>10 DEF g, D

\* The second moment of a window is estimated without bias, beside the exact one, for any
\* destinations, any batches and any restarts (AMSF2.add and process_batch).
THEOREM SecondMomentUnbiased == AmsSpec => []AmsUnbiased
<1>1. AmsInit => AmsInv
  <2>. SUFFICES ASSUME AmsInit PROVE AmsInv
    OBVIOUS
  <2>1. AmsSound(Fresh) BY AmsAssumption, FreshSound DEF AmsAssumption
  <2>. QED BY <2>1 DEF AmsInit, AmsInv
<1>2. AmsInv => AmsUnbiased BY MomentUnbiased DEF AmsInv
<1>. QED BY <1>1, <1>2, AmsInductive, PTL DEF AmsSpec

-----------------------------------------------------------------------------
(* Decaying counters: powers of two and what division by them leaves.       *)

\* g holds the powers of b up to the m-th.
Powers(g, b, m) == g = [n \in 0..m |-> IF n = 0 THEN 1 ELSE b * g[n - 1]]

LEMMA PowersExist ==
  ASSUME NEW b, NEW m \in Nat
  PROVE  \E g : Powers(g, b, m)
<1>. DEFINE Bad == {q \in Nat : ~ \E f : Powers(f, b, q)}
<1>1. SUFFICES ASSUME Bad # {} PROVE FALSE
  OBVIOUS
<1>2. PICK k \in Bad : \A z \in Bad : ~(<<z, k>> \in OpToRel(<, Nat))
  BY <1>1, WFMin, NatLessThanWellFounded
<1>3. k \in Nat /\ \A z \in Nat : z < k => \E f : Powers(f, b, z)
  BY <1>2 DEF OpToRel
<1>4. \E f : Powers(f, b, k)
  <2>1. CASE k = 0
    <3>1. Powers([i \in 0..k |-> 1], b, k) BY <2>1 DEF Powers
    <3>. QED BY <3>1
  <2>2. CASE k # 0
    <3>1. k - 1 \in Nat /\ k - 1 < k BY <1>3, <2>2
    <3>2. PICK f : Powers(f, b, k - 1) BY <1>3, <3>1
    <3>. DEFINE v(i) == IF i = 0 THEN 1 ELSE b * f[i - 1]
                g == [i \in 0..k |-> v(i)]
    <3>3. \A i \in 0 .. k - 1 : f[i] = v(i) BY <3>2, Zenon DEF Powers
    <3>4. \A i \in 0..k : g[i] = v(i) OBVIOUS
    <3>. HIDE DEF g
    <3>5. \A i \in 0..k : i # 0 => g[i - 1] = f[i - 1]
      <4>. HIDE DEF v
      <4>1. \A i \in 0..k : i # 0 => i - 1 \in 0..k /\ i - 1 \in 0 .. k - 1 BY <1>3
      <4>. QED BY <3>3, <3>4, <4>1
    <3>6. \A i \in 0..k : g[i] = IF i = 0 THEN 1 ELSE b * g[i - 1] BY <3>4, <3>5
    <3>7. g = [i \in 0..k |-> g[i]] BY DEF g
    <3>8. Powers(g, b, k) BY <3>6, <3>7, Zenon DEF Powers
    <3>. QED BY <3>8
  <2>. QED BY <2>1, <2>2
<1>. QED BY <1>2, <1>4

LEMMA PowersAgree ==
  ASSUME NEW b, NEW m \in Nat, NEW f, Powers(f, b, m), NEW k \in Nat, NEW g, Powers(g, b, k),
         NEW n \in Nat, n <= m, n <= k
  PROVE  f[n] = g[n]
<1>. DEFINE Bad == {i \in Nat : i <= m /\ i <= k /\ f[i] # g[i]}
<1>1. SUFFICES ASSUME Bad # {} PROVE FALSE
  OBVIOUS
<1>2. PICK i \in Bad : \A z \in Bad : ~(<<z, i>> \in OpToRel(<, Nat))
  BY <1>1, WFMin, NatLessThanWellFounded
<1>3. i \in 0..m /\ i \in 0..k /\ f[i] # g[i] OBVIOUS
<1>4. \A z \in Nat : z < i => f[z] = g[z]
  <2>1. \A z \in Bad : ~(z < i)
    <3>1. Bad \subseteq Nat OBVIOUS
    <3>. HIDE DEF Bad
    <3>. QED BY <1>2, <1>3, <3>1 DEF OpToRel
  <2>. QED BY <1>3, <2>1
<1>. HIDE DEF Bad
<1>5. /\ f[i] = IF i = 0 THEN 1 ELSE b * f[i - 1]
      /\ g[i] = IF i = 0 THEN 1 ELSE b * g[i - 1]
  BY <1>3, Zenon DEF Powers
<1>6. i # 0 => i - 1 \in Nat /\ i - 1 < i BY <1>3
<1>7. i # 0 => f[i - 1] = g[i - 1] BY <1>4, <1>6
<1>. QED BY <1>3, <1>5, <1>7

LEMMA TwoToStep ==
  ASSUME NEW n \in Nat
  PROVE  TwoTo[n] = IF n = 0 THEN 1 ELSE 2 * TwoTo[n - 1]
<1>1. TwoTo = [i \in Nat |-> IF i = 0 THEN 1 ELSE 2 * TwoTo[i - 1]]
  <2>1. \E h : h = [i \in Nat |-> IF i = 0 THEN 1 ELSE 2 * h[i - 1]]
    <3>. DEFINE part(i) == CHOOSE g : Powers(g, 2, i)
                h == [i \in Nat |-> part(i)[i]]
    <3>1. \A i \in Nat : Powers(part(i), 2, i) BY PowersExist
    <3>2. \A i \in Nat : h[i] = part(i)[i] OBVIOUS
    <3>. HIDE DEF part
    <3>3. ASSUME NEW i \in Nat PROVE h[i] = IF i = 0 THEN 1 ELSE 2 * h[i - 1]
      <4>1. i \in 0..i OBVIOUS
      <4>2. part(i)[i] = IF i = 0 THEN 1 ELSE 2 * part(i)[i - 1]
        <5>1. Powers(part(i), 2, i) BY <3>1
        <5>. QED BY <4>1, <5>1, Zenon DEF Powers
      <4>3. i # 0 => i - 1 \in Nat /\ i - 1 <= i /\ i - 1 <= i - 1 OBVIOUS
      <4>4. i # 0 => part(i)[i - 1] = part(i - 1)[i - 1] BY <3>1, <4>3, PowersAgree
      <4>. HIDE DEF h
      <4>. QED BY <3>2, <4>2, <4>3, <4>4
    <3>4. h = [i \in Nat |-> h[i]] OBVIOUS
    <3>. HIDE DEF h
    <3>5. h = [i \in Nat |-> IF i = 0 THEN 1 ELSE 2 * h[i - 1]] BY <3>3, <3>4, Zenon
    <3>. QED BY <3>5
  <2>. QED BY <2>1 DEF TwoTo
<1>. QED BY <1>1, Zenon

LEMMA TwoToNat ==
  ASSUME NEW n \in Nat
  PROVE  TwoTo[n] \in Nat \ {0}
<1>. DEFINE Bad == {i \in Nat : TwoTo[i] \notin Nat \ {0}}
<1>1. SUFFICES ASSUME Bad # {} PROVE FALSE
  OBVIOUS
<1>2. PICK i \in Bad : \A z \in Bad : ~(<<z, i>> \in OpToRel(<, Nat))
  BY <1>1, WFMin, NatLessThanWellFounded
<1>3. i \in Nat /\ TwoTo[i] \notin Nat \ {0} /\ \A z \in Nat : z < i => TwoTo[z] \in Nat \ {0}
  BY <1>2 DEF OpToRel
<1>. HIDE DEF Bad
<1>4. TwoTo[i] = IF i = 0 THEN 1 ELSE 2 * TwoTo[i - 1] BY <1>3, TwoToStep
<1>5. i # 0 => i - 1 \in Nat /\ i - 1 < i BY <1>3
<1>6. i # 0 => TwoTo[i - 1] \in Nat \ {0} BY <1>3, <1>5
<1>. QED BY <1>3, <1>4, <1>6

LEMMA TwoToSum ==
  ASSUME NEW a \in Nat, NEW b \in Nat
  PROVE  TwoTo[a + b] = TwoTo[a] * TwoTo[b]
<1>. DEFINE Bad == {i \in Nat : TwoTo[a + i] # TwoTo[a] * TwoTo[i]}
<1>1. SUFFICES ASSUME Bad # {} PROVE FALSE
  OBVIOUS
<1>2. PICK i \in Bad : \A z \in Bad : ~(<<z, i>> \in OpToRel(<, Nat))
  BY <1>1, WFMin, NatLessThanWellFounded
<1>3. /\ i \in Nat /\ TwoTo[a + i] # TwoTo[a] * TwoTo[i]
      /\ \A z \in Nat : z < i => TwoTo[a + z] = TwoTo[a] * TwoTo[z]
  BY <1>2 DEF OpToRel
<1>. HIDE DEF Bad
<1>4. TwoTo[i] = IF i = 0 THEN 1 ELSE 2 * TwoTo[i - 1] BY <1>3, TwoToStep
<1>5. TwoTo[a] \in Nat BY TwoToNat
<1>6. CASE i = 0
  <2>1. a + i = a /\ TwoTo[i] = 1 BY <1>4, <1>6
  <2>. QED BY <1>3, <1>5, <2>1
<1>7. CASE i # 0
  <2>1. i - 1 \in Nat /\ i - 1 < i /\ a + i \in Nat /\ a + i # 0 /\ (a + i) - 1 = a + (i - 1)
    BY <1>3, <1>7
  <2>2. TwoTo[a + i] = 2 * TwoTo[a + (i - 1)] BY <2>1, TwoToStep
  <2>3. TwoTo[a + (i - 1)] = TwoTo[a] * TwoTo[i - 1] BY <1>3, <2>1
  <2>4. TwoTo[i - 1] \in Nat BY <2>1, TwoToNat
  <2>5. 2 * (TwoTo[a] * TwoTo[i - 1]) = TwoTo[a] * (2 * TwoTo[i - 1]) BY <1>5, <2>4
  <2>. QED BY <1>3, <1>4, <1>7, <2>2, <2>3, <2>5
<1>. QED BY <1>6, <1>7

LEMMA DivBounds ==
  ASSUME NEW x \in Nat, NEW p \in Nat \ {0}
  PROVE  /\ x \div p \in Nat /\ (x \div p) * p <= x /\ x < (x \div p) * p + p
OBVIOUS

LEMMA DivExact ==
  ASSUME NEW x \in Nat, NEW p \in Nat \ {0}, x % p = 0
  PROVE  (x \div p) * p = x
OBVIOUS

LEMMA DivUnique ==
  ASSUME NEW x \in Nat, NEW p \in Nat \ {0}, NEW q \in Int
  PROVE  /\ q * p <= x => q <= x \div p
         /\ x < q * p + p => x \div p <= q
<1>. DEFINE d == x \div p
<1>1. d \in Int /\ d * p <= x /\ x < d * p + p BY DivBounds
<1>. HIDE DEF d
<1>2. ASSUME q * p <= x PROVE q <= d
  <2>1. SUFFICES ASSUME q >= d + 1 PROVE FALSE BY <1>1
  <2>2. q * p >= (d + 1) * p BY <1>1, <2>1
  <2>3. (d + 1) * p = d * p + p BY <1>1
  <2>. QED BY <1>1, <1>2, <2>2, <2>3
<1>3. ASSUME x < q * p + p PROVE d <= q
  <2>1. SUFFICES ASSUME d >= q + 1 PROVE FALSE BY <1>1
  <2>2. d * p >= (q + 1) * p BY <1>1, <2>1
  <2>3. (q + 1) * p = q * p + p OBVIOUS
  <2>. QED BY <1>1, <1>3, <2>2, <2>3
<1>. QED BY <1>2, <1>3 DEF d

LEMMA DivDiv ==
  ASSUME NEW x \in Nat, NEW p \in Nat \ {0}, NEW q \in Nat \ {0}
  PROVE  (x \div p) \div q = x \div (p * q)
<1>. DEFINE d == x \div p
            e == d \div q
<1>1. d \in Nat /\ d * p <= x /\ x < d * p + p BY DivBounds
<1>2. e \in Nat /\ e * q <= d /\ d < e * q + q BY <1>1, DivBounds
<1>3. p * q \in Nat \ {0}
  <2>1. \A i, j \in Nat : i # 0 /\ j # 0 => i * j \in Nat /\ i * j # 0 OBVIOUS
  <2>. QED BY <2>1
<1>. HIDE DEF d, e
<1>4. e * (p * q) <= x
  <2>1. (e * q) * p <= d * p BY <1>1, <1>2
  <2>2. (e * q) * p = e * (p * q) BY <1>2
  <2>. QED BY <1>1, <1>2, <2>1, <2>2
<1>5. x < e * (p * q) + p * q
  <2>1. d + 1 <= e * q + q BY <1>1, <1>2
  <2>2. (d + 1) * p <= (e * q + q) * p
    <3>1. e * q + q \in Int BY <1>2
    <3>. QED BY <1>1, <2>1, <3>1
  <2>3. (d + 1) * p = d * p + p BY <1>1
  <2>4. (e * q + q) * p = e * (p * q) + p * q BY <1>2
  <2>5. d * p \in Int /\ (e * q + q) * p \in Int BY <1>1, <1>2
  <2>. QED BY <1>1, <2>2, <2>3, <2>4, <2>5
<1>6. x \div (p * q) \in Nat /\ e <= x \div (p * q) /\ x \div (p * q) <= e
  BY <1>2, <1>3, <1>4, <1>5, DivUnique, DivBounds
<1>. QED BY <1>2, <1>6 DEF e, d

Counter == [score : Nat, last : Nat]

\* The score b of a table beside the score a it would have without pruning.
Close(a, b) == b <= a /\ a < b + 2 * Epsilon /\ a <= 2 * b + 1

LEMMA Weighing == /\ Unit \in Nat \ {0} /\ Epsilon \in Nat \ {0} /\ 2 * Epsilon <= Unit
                  /\ HalfLives \subseteq Nat \ {0}
<1>1. /\ HalfLives \subseteq Nat \ {0} /\ MaxClock \in Nat /\ Epsilon \in 1..(Unit \div 2)
  BY DecayAssumption DEF DecayAssumption
<1>2. Unit \in Nat \ {0} BY <1>1, TwoToNat DEF Unit
<1>. QED BY <1>1, <1>2

\* Closeness outlives every decay, although each score is rounded by itself.
LEMMA HalvedClose ==
  ASSUME NEW a \in Nat, NEW b \in Nat, Close(a, b), NEW p \in Nat \ {0}
  PROVE  Close(a \div p, b \div p)
<1>. DEFINE x == a \div p
            y == b \div p
            E == 2 * Epsilon
<1>1. E \in Nat /\ E >= 2 BY Weighing
<1>2. b <= a /\ a < b + E /\ a <= 2 * b + 1 BY DEF Close
<1>3. /\ x \in Nat /\ y \in Nat /\ y * p <= b /\ b < y * p + p
      /\ y * p \in Nat
  BY DivBounds
<1>. HIDE DEF x, y, E
<1>4. y <= x
  <2>1. y * p <= a BY <1>2, <1>3
  <2>. QED BY <1>3, <2>1, DivUnique DEF x
<1>5. x < y + E
  <2>1. (E - 1) * (p - 1) >= 0
    <3>1. \A i, j \in Nat : i * j >= 0 OBVIOUS
    <3>2. E - 1 \in Nat /\ p - 1 \in Nat BY <1>1
    <3>. QED BY <3>1, <3>2
  <2>2. (E - 1) * (p - 1) = E * p - E - p + 1 BY <1>1
  <2>3. (y + (E - 1)) * p + p = y * p + E * p BY <1>1, <1>3
  <2>4. E * p \in Nat BY <1>1
  <2>5. a < (y + (E - 1)) * p + p BY <1>1, <1>2, <1>3, <2>1, <2>2, <2>3, <2>4
  <2>6. y + (E - 1) \in Int BY <1>1, <1>3
  <2>7. x <= y + (E - 1) BY <2>5, <2>6, DivUnique DEF x
  <2>. QED BY <1>1, <1>3, <2>7
<1>6. x <= 2 * y + 1
  <2>1. (2 * y + 1) * p + p = 2 * (y * p) + 2 * p BY <1>3
  <2>2. b <= y * p + p - 1 BY <1>3
  <2>3. 2 * b + 1 <= 2 * (y * p) + 2 * p - 1 BY <1>3, <2>2
  <2>4. a < 2 * (y * p) + 2 * p BY <1>2, <1>3, <2>3
  <2>5. a < (2 * y + 1) * p + p BY <2>1, <2>4
  <2>6. 2 * y + 1 \in Int BY <1>3
  <2>. QED BY <2>5, <2>6, DivUnique DEF x
<1>. QED BY <1>4, <1>5, <1>6 DEF Close, x, y, E

LEMMA ValueNat ==
  ASSUME NEW c \in Counter, NEW h \in HalfLives, NEW t \in Nat
  PROVE  Value(c, h, t) \in Nat /\ (c.last >= t => Value(c, h, t) = c.score)
<1>1. h \in Nat \ {0} /\ c.score \in Nat /\ c.last \in Nat BY Weighing DEF Counter
<1>2. CASE t > c.last
  <2>. DEFINE n == (t - c.last) \div h
  <2>1. t - c.last \in Nat BY <1>1, <1>2
  <2>2. n \in Nat BY <1>1, <2>1, DivBounds
  <2>. HIDE DEF n
  <2>3. TwoTo[n] \in Nat \ {0} BY <2>2, TwoToNat
  <2>4. c.score \div TwoTo[n] \in Nat BY <1>1, <2>3, DivBounds
  <2>. QED BY <1>1, <1>2, <2>4 DEF Value, n
<1>3. CASE ~(t > c.last) BY <1>1, <1>3 DEF Value
<1>. QED BY <1>1, <1>2, <1>3

\* A half-life that divides the time passed halves the value as often.
LEMMA ValueLater ==
  ASSUME NEW c \in Counter, NEW h \in HalfLives, NEW t \in Nat, c.last <= t,
         NEW d \in Nat, d % h = 0
  PROVE  /\ Value(c, h, t + d) = Value(c, h, t) \div TwoTo[d \div h]
         /\ TwoTo[d \div h] \in Nat \ {0}
<1>. DEFINE m == d \div h
            s == t - c.last
            n == s \div h
<1>1. h \in Nat \ {0} /\ c.score \in Nat /\ c.last \in Nat /\ s \in Nat
  BY Weighing DEF Counter
<1>2. m \in Nat /\ m * h = d /\ n \in Nat /\ n * h <= s /\ s < n * h + h
  <2>1. m \in Nat BY <1>1, DivBounds
  <2>2. m * h = d BY <1>1, DivExact
  <2>. HIDE DEF s
  <2>3. n \in Nat /\ n * h <= s /\ s < n * h + h BY <1>1, DivBounds
  <2>. QED BY <2>1, <2>2, <2>3
<1>. HIDE DEF m, s, n
<1>3. (s + d) \div h = n + m
  <2>1. (n + m) * h = n * h + d BY <1>1, <1>2
  <2>2. n + m \in Int /\ s + d \in Nat /\ n * h \in Int BY <1>1, <1>2
  <2>3. (n + m) * h <= s + d /\ s + d < (n + m) * h + h BY <1>1, <1>2, <2>1, <2>2
  <2>4. n + m <= (s + d) \div h /\ (s + d) \div h <= n + m BY <1>1, <2>2, <2>3, DivUnique
  <2>5. (s + d) \div h \in Int BY <1>1, <2>2, DivBounds
  <2>. QED BY <2>2, <2>4, <2>5
<1>4. TwoTo[m] \in Nat \ {0} /\ TwoTo[n] \in Nat \ {0} BY <1>2, TwoToNat
<1>5. TwoTo[n + m] = TwoTo[n] * TwoTo[m] BY <1>2, TwoToSum
<1>6. (c.score \div TwoTo[n]) \div TwoTo[m] = c.score \div TwoTo[n + m]
  BY <1>1, <1>4, <1>5, DivDiv
<1>7. TwoTo[0] = 1 BY TwoToStep
<1>8. \A x \in Nat : x \div 1 = x OBVIOUS
<1>9. Value(c, h, t) = c.score \div TwoTo[n]
  <2>1. CASE t > c.last BY <2>1 DEF Value, n, s
  <2>2. CASE t = c.last
    <3>1. s = 0 BY <1>1, <2>2 DEF s
    <3>2. n = 0 BY <1>1, <3>1 DEF n
    <3>. QED BY <1>1, <1>7, <1>8, <2>2, <3>2 DEF Value
  <2>. QED BY <1>1, <2>1, <2>2
<1>10. Value(c, h, t + d) = c.score \div TwoTo[n + m]
  <2>1. CASE t + d > c.last
    <3>1. (t + d) - c.last = s + d BY <1>1 DEF s
    <3>2. Value(c, h, t + d) = c.score \div TwoTo[((t + d) - c.last) \div h] BY <2>1 DEF Value
    <3>. QED BY <1>3, <3>1, <3>2
  <2>2. CASE ~(t + d > c.last)
    <3>1. s = 0 /\ d = 0 BY <1>1, <2>2 DEF s
    <3>2. n = 0 /\ m = 0 BY <1>1, <3>1 DEF n, m
    <3>3. n + m = 0 BY <3>2
    <3>. QED BY <1>1, <1>7, <1>8, <2>2, <3>3 DEF Value
  <2>. QED BY <2>1, <2>2
<1>. QED BY <1>4, <1>6, <1>9, <1>10 DEF m

LEMMA ValueClose ==
  ASSUME NEW b \in Counter, NEW a \in Counter, a.last = b.last, Close(a.score, b.score),
         NEW h \in HalfLives, NEW t \in Nat
  PROVE  Close(Value(a, h, t), Value(b, h, t))
<1>1. h \in Nat \ {0} /\ a.score \in Nat /\ b.score \in Nat /\ a.last \in Nat
  BY Weighing DEF Counter
<1>2. CASE t > a.last
  <2>. DEFINE n == (t - a.last) \div h
  <2>1. t - a.last \in Nat BY <1>1, <1>2
  <2>2. n \in Nat BY <1>1, <2>1, DivBounds
  <2>3. Value(a, h, t) = a.score \div TwoTo[n] /\ Value(b, h, t) = b.score \div TwoTo[n]
    BY <1>2 DEF Value
  <2>. HIDE DEF n
  <2>4. TwoTo[n] \in Nat \ {0} BY <2>2, TwoToNat
  <2>. QED BY <1>1, <2>3, <2>4, HalvedClose
<1>3. CASE ~(t > a.last) BY <1>3 DEF Value
<1>. QED BY <1>2, <1>3

LEMMA RaisedIs ==
  ASSUME NEW c \in Counter, NEW h \in HalfLives, NEW t \in Nat, c.last <= t, NEW n \in Nat
  PROVE  /\ Raised(c, h, n, t) \in Counter
         /\ Raised(c, h, n, t).score = Value(c, h, t) + n * Unit
         /\ Raised(c, h, n, t).last = t
         /\ Value(Raised(c, h, n, t), h, t) = Value(c, h, t) + n * Unit
<1>1. c.last \in Nat BY DEF Counter
<1>2. Value(c, h, t) \in Nat BY ValueNat
<1>3. n * Unit \in Nat BY Weighing
<1>4. Raised(c, h, n, t) = [score |-> Value(c, h, t) + n * Unit, last |-> t]
  BY <1>1 DEF Raised
<1>. DEFINE r == [score |-> Value(c, h, t) + n * Unit, last |-> t]
<1>5. r.score = Value(c, h, t) + n * Unit /\ r.last = t OBVIOUS
<1>6. r \in Counter BY <1>2, <1>3 DEF Counter
<1>. HIDE DEF r
<1>7. Value(r, h, t) = r.score BY <1>5, <1>6, ValueNat
<1>. QED BY <1>4, <1>5, <1>6, <1>7 DEF r

-----------------------------------------------------------------------------
(* Decaying counters: the tables.                                           *)

LEMMA SumSubset ==
  ASSUME NEW S, IsFiniteSet(S), NEW f, \A x \in S : f[x] \in Nat, NEW T \in SUBSET S
  PROVE  SumOn(f, T) <= SumOn(f, S)
<1>. DEFINE Bad == {n \in Nat : \E s \in SUBSET S :
                      T \subseteq s /\ Cardinality(s) = n /\ ~(SumOn(f, T) <= SumOn(f, s))}
<1>1. SUFFICES ASSUME ~(SumOn(f, T) <= SumOn(f, S)) PROVE FALSE
  OBVIOUS
<1>2. Bad # {}
  <2>1. Cardinality(S) \in Nat BY FS_CardinalityType
  <2>. QED BY <1>1, <2>1
<1>2a. \E k \in Bad : \A z \in Bad : ~(<<z, k>> \in OpToRel(<, Nat))
  <2>1. Bad \subseteq Nat OBVIOUS
  <2>. HIDE DEF Bad
  <2>. QED BY <1>2, <2>1, WFMin, NatLessThanWellFounded
<1>3. PICK k \in Bad : \A z \in Bad : ~(<<z, k>> \in OpToRel(<, Nat))
  BY <1>2a
<1>4. PICK s \in SUBSET S :
        T \subseteq s /\ Cardinality(s) = k /\ ~(SumOn(f, T) <= SumOn(f, s))
  OBVIOUS
<1>5. \A u \in SUBSET S : T \subseteq u /\ Cardinality(u) \in Nat /\ Cardinality(u) < k
        => SumOn(f, T) <= SumOn(f, u)
  <2>1. k \in Nat /\ \A z \in Bad : ~(z < k)
    <3>1. Bad \subseteq Nat OBVIOUS
    <3>. HIDE DEF Bad
    <3>. QED BY <1>3, <3>1 DEF OpToRel
  <2>. QED BY <2>1
<1>. HIDE DEF Bad
<1>6. IsFiniteSet(s) /\ IsFiniteSet(T) BY FS_Subset
<1>7. \A u \in SUBSET S : \A x \in u : f[x] \in Int OBVIOUS
<1>8. SumOn(f, T) \in Int BY <1>6, <1>7, SumStep
<1>9. s # T BY <1>4, <1>8
<1>10. PICK x \in s : x \notin T BY <1>4, <1>9
<1>11. Cardinality(s) \in Nat /\ Cardinality(s \ {x}) = Cardinality(s) - 1
       /\ Cardinality(s \ {x}) \in Nat
  <2>1. IsFiniteSet(s \ {x}) BY <1>6, FS_Subset
  <2>. QED BY <1>6, <1>10, <2>1, FS_RemoveElement, FS_CardinalityType
<1>12. SumOn(f, T) <= SumOn(f, s \ {x})
  <2>1. s \ {x} \in SUBSET S /\ T \subseteq s \ {x} BY <1>4, <1>10
  <2>. QED BY <1>4, <1>5, <1>11, <2>1
<1>13. SumOn(f, s) = f[x] + SumOn(f, s \ {x}) BY <1>6, <1>7, <1>10, SumStep
<1>14. SumOn(f, s \ {x}) \in Int
  <2>1. IsFiniteSet(s \ {x}) BY <1>6, FS_Subset
  <2>. QED BY <1>7, <2>1, SumStep
<1>15. f[x] \in Nat OBVIOUS
<1>. QED BY <1>4, <1>8, <1>12, <1>13, <1>14, <1>15

LEMMA SumNat ==
  ASSUME NEW S, IsFiniteSet(S), NEW f, \A x \in S : f[x] \in Nat
  PROVE  SumOn(f, S) \in Nat
<1>1. SumOn(f, {}) = 0 BY FS_EmptySet, SumChosen
<1>2. SumOn(f, {}) <= SumOn(f, S) BY SumSubset
<1>3. SumOn(f, S) \in Int BY SumStep
<1>. QED BY <1>1, <1>2, <1>3

LEMMA SumMonotone ==
  ASSUME NEW S, IsFiniteSet(S), NEW f, NEW g, IntsOn(f, S), IntsOn(g, S),
         \A x \in S : f[x] <= g[x]
  PROVE  SumOn(f, S) <= SumOn(g, S)
<1>. DEFINE h == [x \in S |-> g[x] - f[x]]
<1>1. \A x \in S : h[x] \in Nat /\ h[x] = 1 * g[x] + (-1) * f[x] BY DEF IntsOn
<1>. HIDE DEF h
<1>2. Combines(h, 1, g, -1, f, S) BY <1>1 DEF Combines
<1>3. SumOn(h, S) = 1 * SumOn(g, S) + (-1) * SumOn(f, S) BY <1>2, SumLinear
<1>4. SumOn(h, S) \in Nat BY <1>1, SumNat
<1>5. SumOn(f, S) \in Int /\ SumOn(g, S) \in Int BY SumStep DEF IntsOn
<1>. QED BY <1>3, <1>4, <1>5

\* A key of a table without pruning beside the same key of the table.
KeySound(kept, whole, h, t, k) ==
  /\ whole[k] \in Counter /\ whole[k].last <= t
  /\ k \in DOMAIN kept =>
       /\ kept[k] \in Counter /\ whole[k].last = kept[k].last
       /\ Close(whole[k].score, kept[k].score)
  /\ k \notin DOMAIN kept => Value(whole[k], h, t) < 2 * Epsilon

TableSound(kept, whole, h, t) ==
  /\ IsFiniteSet(DOMAIN kept) /\ DOMAIN kept \subseteq DOMAIN whole
  /\ \A k \in DOMAIN whole : KeySound(kept, whole, h, t, k)

\* What the keys of a table score together.
ScoreSum(kept, h, t) == SumOn([k \in DOMAIN kept |-> Value(kept[k], h, t)], DOMAIN kept)

LEMMA ScoreSumNat ==
  ASSUME NEW kept, NEW whole, NEW h \in HalfLives, NEW t \in Nat,
         TableSound(kept, whole, h, t)
  PROVE  /\ ScoreSum(kept, h, t) \in Nat
         /\ \A k \in DOMAIN kept : kept[k] \in Counter /\ kept[k].last <= t
                                   /\ Value(kept[k], h, t) \in Nat
<1>1. \A k \in DOMAIN kept : kept[k] \in Counter /\ kept[k].last <= t
  BY DEF TableSound, KeySound
<1>2. \A k \in DOMAIN kept : Value(kept[k], h, t) \in Nat BY <1>1, ValueNat
<1>. DEFINE f == [k \in DOMAIN kept |-> Value(kept[k], h, t)]
<1>3. \A k \in DOMAIN kept : f[k] \in Nat BY <1>2
<1>4. ScoreSum(kept, h, t) = SumOn(f, DOMAIN kept) BY DEF ScoreSum
<1>5. IsFiniteSet(DOMAIN kept) BY DEF TableSound
<1>. HIDE DEF f
<1>6. SumOn(f, DOMAIN kept) \in Nat BY <1>3, <1>5, SumNat
<1>. QED BY <1>1, <1>2, <1>4, <1>6

\* Time passes.
LEMMA LaterSound ==
  ASSUME NEW kept, NEW whole, NEW h \in HalfLives, NEW t \in Nat,
         TableSound(kept, whole, h, t), NEW d \in Nat, d % h = 0
  PROVE  /\ TableSound(kept, whole, h, t + d)
         /\ ScoreSum(kept, h, t + d) <= ScoreSum(kept, h, t) \div TwoTo[d \div h]
<1>. DEFINE p == TwoTo[d \div h]
            D == DOMAIN kept
            f == [k \in D |-> Value(kept[k], h, t)]
            g == [k \in D |-> Value(kept[k], h, t + d)]
            q == [k \in D |-> p * g[k] + 0 * g[k]]
<1>1. p \in Nat \ {0}
  <2>1. h \in Nat \ {0} BY Weighing
  <2>2. d \div h \in Nat BY <2>1, DivBounds
  <2>. QED BY <2>2, TwoToNat
<1>2. /\ ScoreSum(kept, h, t) \in Nat
      /\ \A k \in D : kept[k] \in Counter /\ kept[k].last <= t /\ Value(kept[k], h, t) \in Nat
  BY ScoreSumNat
<1>3. IsFiniteSet(D) BY DEF TableSound
<1>4. ASSUME NEW k \in DOMAIN whole PROVE KeySound(kept, whole, h, t + d, k)
  <2>1. KeySound(kept, whole, h, t, k) BY DEF TableSound
  <2>2. whole[k] \in Counter /\ whole[k].last <= t BY <2>1 DEF KeySound
  <2>3. whole[k].last \in Nat BY <2>2 DEF Counter
  <2>4. whole[k].last <= t + d BY <2>2, <2>3
  <2>. DEFINE v == Value(whole[k], h, t)
  <2>5. v \in Nat BY <2>2, ValueNat
  <2>6. Value(whole[k], h, t + d) = v \div p BY <2>2, ValueLater
  <2>. HIDE DEF v, p
  <2>7. v \div p <= v
    <3>1. v < v * p + p
      <4>1. \A i, j \in Nat : j # 0 => i < i * j + j OBVIOUS
      <4>. QED BY <1>1, <2>5, <4>1
    <3>. QED BY <1>1, <2>5, <3>1, DivUnique
  <2>8. v \div p \in Nat BY <1>1, <2>5, DivBounds
  <2>9. k \notin D => v < 2 * Epsilon BY <2>1 DEF KeySound, v
  <2>10. k \notin D => Value(whole[k], h, t + d) < 2 * Epsilon
    BY <2>5, <2>6, <2>7, <2>8, <2>9, Weighing
  <2>. QED BY <2>1, <2>2, <2>4, <2>10 DEF KeySound
<1>5. ASSUME NEW k \in D PROVE g[k] \in Nat /\ q[k] \in Int /\ q[k] <= f[k]
  <2>1. g[k] = f[k] \div p /\ f[k] \in Nat BY <1>2, ValueLater
  <2>2. q[k] = p * g[k] + 0 * g[k] OBVIOUS
  <2>. HIDE DEF f, g, q, p
  <2>3. g[k] \in Nat /\ g[k] * p <= f[k] BY <1>1, <2>1, DivBounds
  <2>4. \A i, j \in Nat : i * j + 0 * j = j * i /\ i * j + 0 * j \in Int OBVIOUS
  <2>. QED BY <1>1, <2>1, <2>2, <2>3, <2>4
<1>6. ScoreSum(kept, h, t) = SumOn(f, D) /\ ScoreSum(kept, h, t + d) = SumOn(g, D)
  BY DEF ScoreSum
<1>7. Combines(q, p, g, 0, g, D) BY DEF Combines
<1>8. IntsOn(f, D) /\ IntsOn(g, D) /\ IntsOn(q, D)
  <2>1. \A k \in D : f[k] \in Int BY <1>2
  <2>2. \A k \in D : g[k] \in Int /\ q[k] \in Int
    <3>. HIDE DEF g, q
    <3>. QED BY <1>5
  <2>. HIDE DEF f, g, q
  <2>. QED BY <2>1, <2>2 DEF IntsOn
<1>. HIDE DEF f, g, q, p
<1>9. SumOn(q, D) = p * SumOn(g, D) + 0 * SumOn(g, D) BY <1>1, <1>3, <1>7, <1>8, SumLinear
<1>10. SumOn(q, D) <= SumOn(f, D) BY <1>3, <1>5, <1>8, SumMonotone
<1>11. SumOn(g, D) \in Int BY <1>3, <1>8, SumStep DEF IntsOn
<1>12. SumOn(g, D) * p <= SumOn(f, D)
  <2>1. p * SumOn(g, D) + 0 * SumOn(g, D) = SumOn(g, D) * p BY <1>1, <1>11
  <2>. QED BY <1>9, <1>10, <2>1
<1>13. SumOn(g, D) <= SumOn(f, D) \div p BY <1>1, <1>2, <1>6, <1>11, <1>12, DivUnique
<1>14. TableSound(kept, whole, h, t + d)
  <2>1. DOMAIN kept \subseteq DOMAIN whole BY DEF TableSound
  <2>. QED BY <1>3, <1>4, <2>1 DEF TableSound
<1>. QED BY <1>6, <1>13, <1>14 DEF p

\* A key is counted, with and without a limit on the keys.
LEMMA KeyAddedSound ==
  ASSUME NEW kept, NEW whole, NEW h \in HalfLives, NEW t \in Nat,
         TableSound(kept, whole, h, t), NEW k, NEW n \in Nat \ {0}
  PROVE  /\ TableSound(KeyAdded(kept, h, k, n, t), KeyAdded(whole, h, k, n, t), h, t)
         /\ ScoreSum(KeyAdded(kept, h, k, n, t), h, t) = ScoreSum(kept, h, t) + n * Unit
<1>. DEFINE D == DOMAIN kept
            E == DOMAIN whole
            none == [score |-> 0, last |-> t]
            b == IF k \in D THEN kept[k] ELSE none
            a == IF k \in E THEN whole[k] ELSE none
            new == KeyAdded(kept, h, k, n, t)
            wide == KeyAdded(whole, h, k, n, t)
            f == [x \in D |-> Value(kept[x], h, t)]
            g == [x \in D \union {k} |-> Value(new[x], h, t)]
            rest == D \ {k}
<1>1. IsFiniteSet(D) /\ D \subseteq E /\ \A x \in E : KeySound(kept, whole, h, t, x)
  BY DEF TableSound
<1>2. n * Unit \in Nat /\ n * Unit >= 2 * Epsilon /\ Epsilon \in Nat
  <2>1. Unit \in Nat /\ Epsilon \in Nat /\ 2 * Epsilon <= Unit BY Weighing
  <2>2. n * Unit = (n - 1) * Unit + Unit BY <2>1
  <2>3. (n - 1) * Unit \in Nat BY <2>1
  <2>. QED BY <2>1, <2>2, <2>3
<1>3. none \in Counter /\ none.last = t /\ none.score = 0 BY DEF Counter
<1>4. Value(none, h, t) = 0
  <2>. HIDE DEF none
  <2>. QED BY <1>3, ValueNat
<1>5. new = [x \in D \union {k} |-> IF x # k THEN kept[x] ELSE Raised(b, h, n, t)]
  BY DEF KeyAdded
<1>6. wide = [x \in E \union {k} |-> IF x # k THEN whole[x] ELSE Raised(a, h, n, t)]
  BY DEF KeyAdded
<1>7. /\ DOMAIN new = D \union {k} /\ DOMAIN wide = E \union {k}
      /\ new[k] = Raised(b, h, n, t) /\ wide[k] = Raised(a, h, n, t)
      /\ \A x \in rest : new[x] = kept[x]
      /\ \A x \in E \ {k} : wide[x] = whole[x]
  <2>. HIDE DEF new, wide, a, b
  <2>. QED BY <1>5, <1>6
<1>8. /\ a \in Counter /\ a.last <= t /\ b \in Counter /\ b.last <= t
      /\ Value(b, h, t) <= Value(a, h, t)
      /\ Value(a, h, t) < Value(b, h, t) + 2 * Epsilon
      /\ Value(b, h, t) = 0 \/ Value(a, h, t) <= 2 * Value(b, h, t) + 1
  <2>1. CASE k \in D
    <3>1. k \in E /\ a = whole[k] /\ b = kept[k] BY <1>1, <2>1
    <3>2. KeySound(kept, whole, h, t, k) BY <1>1, <3>1
    <3>3. /\ a \in Counter /\ a.last <= t /\ b \in Counter /\ a.last = b.last
          /\ Close(a.score, b.score)
      BY <2>1, <3>1, <3>2 DEF KeySound
    <3>4. Close(Value(a, h, t), Value(b, h, t)) BY <3>3, ValueClose
    <3>. QED BY <3>3, <3>4 DEF Close
  <2>2. CASE k \notin D /\ k \in E
    <3>1. a = whole[k] /\ b = none BY <2>2
    <3>2. KeySound(kept, whole, h, t, k) BY <1>1, <2>2
    <3>3. a \in Counter /\ a.last <= t /\ Value(a, h, t) < 2 * Epsilon
      BY <2>2, <3>1, <3>2 DEF KeySound
    <3>4. Value(a, h, t) \in Nat BY <3>3, ValueNat
    <3>5. b \in Counter /\ b.last = t /\ Value(b, h, t) = 0 BY <1>3, <1>4, <3>1
    <3>. HIDE DEF a, b, none
    <3>. QED BY <1>2, <3>3, <3>4, <3>5
  <2>3. CASE k \notin E
    <3>1. a = none /\ b = none BY <1>1, <2>3
    <3>. HIDE DEF a, b, none
    <3>. QED BY <1>2, <1>3, <1>4, <3>1, Weighing
  <2>. QED BY <1>1, <2>1, <2>2, <2>3
<1>. HIDE DEF new, wide, a, b, none
<1>9. /\ Value(a, h, t) \in Nat /\ Value(b, h, t) \in Nat BY <1>8, ValueNat
<1>10. /\ new[k] \in Counter /\ wide[k] \in Counter /\ new[k].last = t /\ wide[k].last = t
       /\ new[k].score = Value(b, h, t) + n * Unit
       /\ wide[k].score = Value(a, h, t) + n * Unit
       /\ Value(new[k], h, t) = Value(b, h, t) + n * Unit
  BY <1>7, <1>8, RaisedIs
<1>11. Close(wide[k].score, new[k].score) BY <1>2, <1>8, <1>9, <1>10 DEF Close
<1>12. IsFiniteSet(D \union {k}) BY <1>1, FS_AddElement
<1>13. TableSound(new, wide, h, t)
  <2>1. ASSUME NEW x \in E \union {k} PROVE KeySound(new, wide, h, t, x)
    <3>1. CASE x = k
      <4>1. k \in DOMAIN new BY <1>7
      <4>. QED BY <1>10, <1>11, <3>1, <4>1 DEF KeySound
    <3>2. CASE x # k
      <4>1. KeySound(kept, whole, h, t, x) /\ wide[x] = whole[x] BY <1>1, <1>7, <2>1, <3>2
      <4>2. x \in DOMAIN new <=> x \in D BY <1>7, <3>2
      <4>3. x \in D => new[x] = kept[x] BY <1>7, <3>2
      <4>. QED BY <4>1, <4>2, <4>3 DEF KeySound
    <3>. QED BY <3>1, <3>2
  <2>. QED BY <1>1, <1>7, <1>12, <2>1 DEF TableSound
<1>14. ScoreSum(kept, h, t) = SumOn(f, D) BY DEF ScoreSum
<1>15. ScoreSum(new, h, t) = SumOn(g, D \union {k}) BY <1>7 DEF ScoreSum
<1>16. \A x \in D : f[x] \in Nat BY ScoreSumNat
<1>17. g[k] = Value(b, h, t) + n * Unit BY <1>10
<1>18. \A x \in rest : g[x] = f[x] BY <1>7
<1>19. k \in D => f[k] = Value(b, h, t) BY DEF b
<1>20. k \notin D => Value(b, h, t) = 0 BY <1>4 DEF b
<1>. HIDE DEF f, g
<1>21. \A x \in D \union {k} : g[x] \in Int BY <1>2, <1>9, <1>16, <1>17, <1>18
<1>22. (D \union {k}) \ {k} = rest /\ IsFiniteSet(rest) BY <1>1, FS_Subset
<1>23. SumOn(g, D \union {k}) = g[k] + SumOn(g, (D \union {k}) \ {k})
  BY <1>12, <1>21, SumStep
<1>24. SumOn(g, (D \union {k}) \ {k}) = SumOn(g, rest) BY <1>22, Zenon
<1>25. SumOn(g, rest) = SumOn(f, rest) BY <1>18, <1>22, SumEqual
<1>26. SumOn(f, rest) \in Int BY <1>16, <1>22, SumStep
<1>27. SumOn(f, D) = Value(b, h, t) + SumOn(f, rest)
  <2>1. CASE k \in D BY <1>1, <1>16, <1>19, <2>1, SumStep
  <2>2. CASE k \notin D
    <3>1. rest = D BY <2>2
    <3>2. SumOn(f, rest) = SumOn(f, D) BY <3>1, Zenon
    <3>. QED BY <1>20, <1>26, <2>2, <3>2
  <2>. QED BY <2>1, <2>2
<1>28. ScoreSum(new, h, t) = ScoreSum(kept, h, t) + n * Unit
  BY <1>2, <1>9, <1>14, <1>15, <1>17, <1>23, <1>24, <1>25, <1>26, <1>27
<1>. QED BY <1>13, <1>28 DEF new, wide

LEMMA PrunedSound ==
  ASSUME NEW kept, NEW whole, NEW h \in HalfLives, NEW t \in Nat,
         TableSound(kept, whole, h, t)
  PROVE  /\ TableSound(Pruned(kept, h, t), whole, h, t)
         /\ ScoreSum(Pruned(kept, h, t), h, t) <= ScoreSum(kept, h, t)
<1>. DEFINE D == DOMAIN kept
            T == {x \in D : Value(kept[x], h, t) >= Epsilon}
            new == Pruned(kept, h, t)
            f == [x \in D |-> Value(kept[x], h, t)]
            g == [x \in T |-> Value(new[x], h, t)]
<1>1. IsFiniteSet(D) /\ D \subseteq DOMAIN whole
      /\ \A x \in DOMAIN whole : KeySound(kept, whole, h, t, x)
  BY DEF TableSound
<1>2. new = [x \in T |-> kept[x]] BY DEF Pruned, Restrict
<1>3. DOMAIN new = T /\ \A x \in T : new[x] = kept[x] BY <1>2
<1>4. IsFiniteSet(T) BY <1>1, FS_Subset
<1>5. Epsilon \in Nat BY Weighing
<1>. HIDE DEF new
<1>6. ASSUME NEW x \in DOMAIN whole PROVE KeySound(new, whole, h, t, x)
  <2>1. KeySound(kept, whole, h, t, x) BY <1>1
  <2>2. CASE x \in T BY <1>3, <2>1, <2>2 DEF KeySound
  <2>3. CASE x \in D /\ x \notin T
    <3>1. /\ whole[x] \in Counter /\ kept[x] \in Counter /\ whole[x].last = kept[x].last
          /\ Close(whole[x].score, kept[x].score)
      BY <2>1, <2>3 DEF KeySound
    <3>2. Value(whole[x], h, t) \in Nat /\ Value(kept[x], h, t) \in Nat BY <3>1, ValueNat
    <3>3. Close(Value(whole[x], h, t), Value(kept[x], h, t)) BY <3>1, ValueClose
    <3>4. ~(Value(kept[x], h, t) >= Epsilon) BY <2>3
    <3>5. Value(whole[x], h, t) < 2 * Epsilon BY <1>5, <3>2, <3>3, <3>4 DEF Close
    <3>. QED BY <1>3, <2>1, <2>3, <3>5 DEF KeySound
  <2>4. CASE x \notin D BY <1>3, <2>1, <2>4 DEF KeySound
  <2>. QED BY <2>2, <2>3, <2>4
<1>7. TableSound(new, whole, h, t) BY <1>1, <1>3, <1>4, <1>6 DEF TableSound
<1>8. \A x \in D : f[x] \in Nat BY ScoreSumNat
<1>9. \A x \in T : g[x] = f[x] BY <1>3
<1>10. T \in SUBSET D OBVIOUS
<1>11. ScoreSum(kept, h, t) = SumOn(f, D) BY DEF ScoreSum
<1>12. ScoreSum(new, h, t) = SumOn(g, T) BY <1>3 DEF ScoreSum
<1>. HIDE DEF f, g, T, D
<1>13. SumOn(g, T) = SumOn(f, T) BY <1>4, <1>9, SumEqual
<1>14. SumOn(f, T) <= SumOn(f, D) BY <1>1, <1>8, <1>10, SumSubset
<1>15. ScoreSum(new, h, t) <= ScoreSum(kept, h, t) BY <1>11, <1>12, <1>13, <1>14
<1>. QED BY <1>7, <1>15 DEF new

LEMMA AddedPruningSound ==
  ASSUME NEW kept, NEW whole, NEW h \in HalfLives, NEW t \in Nat,
         TableSound(kept, whole, h, t), NEW k, NEW n \in Nat \ {0}
  PROVE  /\ TableSound(AddedPruning(kept, h, k, n, t), KeyAdded(whole, h, k, n, t), h, t)
         /\ ScoreSum(AddedPruning(kept, h, k, n, t), h, t) <= ScoreSum(kept, h, t) + n * Unit
<1>. DEFINE new == KeyAdded(kept, h, k, n, t)
            wide == KeyAdded(whole, h, k, n, t)
<1>1. TableSound(new, wide, h, t) /\ ScoreSum(new, h, t) = ScoreSum(kept, h, t) + n * Unit
  BY KeyAddedSound
<1>2. AddedPruning(kept, h, k, n, t) \in {new, Pruned(new, h, t)} BY DEF AddedPruning
<1>. HIDE DEF new, wide
<1>3. /\ TableSound(Pruned(new, h, t), wide, h, t)
      /\ ScoreSum(Pruned(new, h, t), h, t) <= ScoreSum(new, h, t)
  BY <1>1, PrunedSound
<1>4. ScoreSum(new, h, t) \in Nat BY <1>1, ScoreSumNat
<1>. QED BY <1>1, <1>2, <1>3, <1>4 DEF wide


\* f holds a table while the first m keys of a batch are counted, and g the one without limit.
Fills(f, start, h, keys, counts, t, m) ==
  f = [i \in 0..m |-> IF i = 0 THEN start
                      ELSE AddedPruning(f[i - 1], h, keys[i], counts[keys[i]], t)]

FillsUnlimited(g, start, h, keys, counts, t, m) ==
  g = [i \in 0..m |-> IF i = 0 THEN start
                      ELSE KeyAdded(g[i - 1], h, keys[i], counts[keys[i]], t)]

LEMMA FillsExist ==
  ASSUME NEW start, NEW h, NEW keys, NEW counts, NEW t, NEW m \in Nat
  PROVE  \E f : Fills(f, start, h, keys, counts, t, m)
<1>. DEFINE Bad == {q \in Nat : ~ \E f : Fills(f, start, h, keys, counts, t, q)}
<1>1. SUFFICES ASSUME Bad # {} PROVE FALSE
  OBVIOUS
<1>2. PICK k \in Bad : \A z \in Bad : ~(<<z, k>> \in OpToRel(<, Nat))
  BY <1>1, WFMin, NatLessThanWellFounded
<1>3. k \in Nat /\ \A z \in Nat : z < k => \E f : Fills(f, start, h, keys, counts, t, z)
  BY <1>2 DEF OpToRel
<1>4. \E f : Fills(f, start, h, keys, counts, t, k)
  <2>1. CASE k = 0
    <3>1. Fills([i \in 0..k |-> start], start, h, keys, counts, t, k) BY <2>1 DEF Fills
    <3>. QED BY <3>1
  <2>2. CASE k # 0
    <3>1. k - 1 \in Nat /\ k - 1 < k BY <1>3, <2>2
    <3>2. PICK f : Fills(f, start, h, keys, counts, t, k - 1) BY <1>3, <3>1
    <3>. DEFINE v(i) == IF i = 0 THEN start
                        ELSE AddedPruning(f[i - 1], h, keys[i], counts[keys[i]], t)
                g == [i \in 0..k |-> v(i)]
    <3>3. \A i \in 0 .. k - 1 : f[i] = v(i) BY <3>2, Zenon DEF Fills
    <3>4. \A i \in 0..k : g[i] = v(i) OBVIOUS
    <3>. HIDE DEF g
    <3>5. \A i \in 0..k : i # 0 => g[i - 1] = f[i - 1]
      <4>. HIDE DEF v
      <4>1. \A i \in 0..k : i # 0 => i - 1 \in 0..k /\ i - 1 \in 0 .. k - 1 BY <1>3
      <4>. QED BY <3>3, <3>4, <4>1
    <3>6. \A i \in 0..k :
            g[i] = IF i = 0 THEN start
                   ELSE AddedPruning(g[i - 1], h, keys[i], counts[keys[i]], t)
      BY <3>4, <3>5
    <3>7. g = [i \in 0..k |-> g[i]] BY DEF g
    <3>8. Fills(g, start, h, keys, counts, t, k) BY <3>6, <3>7, Zenon DEF Fills
    <3>. QED BY <3>8
  <2>. QED BY <2>1, <2>2
<1>. QED BY <1>2, <1>4

LEMMA FillsUnlimitedExist ==
  ASSUME NEW start, NEW h, NEW keys, NEW counts, NEW t, NEW m \in Nat
  PROVE  \E f : FillsUnlimited(f, start, h, keys, counts, t, m)
<1>. DEFINE Bad == {q \in Nat : ~ \E f : FillsUnlimited(f, start, h, keys, counts, t, q)}
<1>1. SUFFICES ASSUME Bad # {} PROVE FALSE
  OBVIOUS
<1>2. PICK k \in Bad : \A z \in Bad : ~(<<z, k>> \in OpToRel(<, Nat))
  BY <1>1, WFMin, NatLessThanWellFounded
<1>3. k \in Nat /\ \A z \in Nat : z < k => \E f : FillsUnlimited(f, start, h, keys, counts, t, z)
  BY <1>2 DEF OpToRel
<1>4. \E f : FillsUnlimited(f, start, h, keys, counts, t, k)
  <2>1. CASE k = 0
    <3>1. FillsUnlimited([i \in 0..k |-> start], start, h, keys, counts, t, k) BY <2>1 DEF FillsUnlimited
    <3>. QED BY <3>1
  <2>2. CASE k # 0
    <3>1. k - 1 \in Nat /\ k - 1 < k BY <1>3, <2>2
    <3>2. PICK f : FillsUnlimited(f, start, h, keys, counts, t, k - 1) BY <1>3, <3>1
    <3>. DEFINE v(i) == IF i = 0 THEN start
                        ELSE KeyAdded(f[i - 1], h, keys[i], counts[keys[i]], t)
                g == [i \in 0..k |-> v(i)]
    <3>3. \A i \in 0 .. k - 1 : f[i] = v(i) BY <3>2, Zenon DEF FillsUnlimited
    <3>4. \A i \in 0..k : g[i] = v(i) OBVIOUS
    <3>. HIDE DEF g
    <3>5. \A i \in 0..k : i # 0 => g[i - 1] = f[i - 1]
      <4>. HIDE DEF v
      <4>1. \A i \in 0..k : i # 0 => i - 1 \in 0..k /\ i - 1 \in 0 .. k - 1 BY <1>3
      <4>. QED BY <3>3, <3>4, <4>1
    <3>6. \A i \in 0..k :
            g[i] = IF i = 0 THEN start
                   ELSE KeyAdded(g[i - 1], h, keys[i], counts[keys[i]], t)
      BY <3>4, <3>5
    <3>7. g = [i \in 0..k |-> g[i]] BY DEF g
    <3>8. FillsUnlimited(g, start, h, keys, counts, t, k) BY <3>6, <3>7, Zenon DEF FillsUnlimited
    <3>. QED BY <3>8
  <2>. QED BY <2>1, <2>2
<1>. QED BY <1>2, <1>4

\* Each key of counts is in keys once.
Listed(keys, counts) ==
  /\ Len(keys) \in Nat /\ IsFiniteSet(DOMAIN counts)
  /\ \A i \in 1..Len(keys) : keys[i] \in DOMAIN counts
  /\ \A i, j \in 1..Len(keys) : i # j => keys[i] # keys[j]
  /\ \A k \in DOMAIN counts : counts[k] \in Nat \ {0}

LEMMA FilledTables ==
  ASSUME NEW kept, NEW whole, NEW h \in HalfLives, NEW t \in Nat,
         TableSound(kept, whole, h, t), NEW counts, NEW keys, Listed(keys, counts),
         NEW f, Fills(f, kept, h, keys, counts, t, Len(keys)),
         NEW g, FillsUnlimited(g, whole, h, keys, counts, t, Len(keys))
  PROVE  /\ TableSound(f[Len(keys)], g[Len(keys)], h, t)
         /\ ScoreSum(f[Len(keys)], h, t)
              <= ScoreSum(kept, h, t) + SumOn(counts, DOMAIN counts) * Unit
<1>. DEFINE m == Len(keys)
            done(i) == {keys[j] : j \in 1..i}
            ok(i) == /\ TableSound(f[i], g[i], h, t)
                     /\ ScoreSum(f[i], h, t)
                          <= ScoreSum(kept, h, t) + SumOn(counts, done(i)) * Unit
            Bad == {i \in Nat : i \in 0..m /\ ~ok(i)}
<1>1. /\ m \in Nat /\ IsFiniteSet(DOMAIN counts)
      /\ \A i \in 1..m : keys[i] \in DOMAIN counts
      /\ \A i, j \in 1..m : i # j => keys[i] # keys[j]
      /\ \A k \in DOMAIN counts : counts[k] \in Nat \ {0}
  BY DEF Listed
<1>2. ScoreSum(kept, h, t) \in Nat BY ScoreSumNat
<1>3. Unit \in Nat BY Weighing
<1>. HIDE DEF m
<1>4. \A i \in 0..m : done(i) \in SUBSET DOMAIN counts BY <1>1
<1>5. Bad = {}
  <2>1. SUFFICES ASSUME Bad # {} PROVE FALSE
    OBVIOUS
  <2>2. \E k \in Bad : \A z \in Bad : ~(<<z, k>> \in OpToRel(<, Nat))
    <3>1. Bad \subseteq Nat OBVIOUS
    <3>. HIDE DEF Bad
    <3>. QED BY <2>1, <3>1, WFMin, NatLessThanWellFounded
  <2>3. PICK k \in Bad : \A z \in Bad : ~(<<z, k>> \in OpToRel(<, Nat))
    BY <2>2
  <2>4. k \in Nat /\ k \in 0..m /\ ~ok(k)
    <3>. HIDE DEF ok
    <3>. QED OBVIOUS
  <2>5. \A z \in 0..m : z < k => ok(z)
    <3>1. \A z \in Bad : ~(z < k)
      <4>1. Bad \subseteq Nat OBVIOUS
      <4>. HIDE DEF Bad
      <4>. QED BY <2>3, <2>4, <4>1 DEF OpToRel
    <3>. HIDE DEF ok
    <3>. QED BY <1>1, <3>1
  <2>. HIDE DEF Bad
  <2>6. /\ f[k] = IF k = 0 THEN kept ELSE AddedPruning(f[k - 1], h, keys[k], counts[keys[k]], t)
        /\ g[k] = IF k = 0 THEN whole ELSE KeyAdded(g[k - 1], h, keys[k], counts[keys[k]], t)
    BY <2>4, Zenon DEF Fills, FillsUnlimited, m
  <2>7. CASE k = 0
    <3>1. f[0] = kept /\ g[0] = whole BY <2>6, <2>7
    <3>2. done(0) = {} OBVIOUS
    <3>. HIDE DEF done
    <3>3. SumOn(counts, done(0)) = 0 BY <3>2, FS_EmptySet, SumChosen
    <3>4. ScoreSum(kept, h, t) <= ScoreSum(kept, h, t) + 0 * Unit BY <1>2, <1>3
    <3>5. ok(0) BY <3>1, <3>3, <3>4
    <3>. QED BY <2>4, <2>7, <3>5
  <2>8. CASE k # 0
    <3>. DEFINE n == counts[keys[k]]
                old == done(k - 1)
                sum == SumOn(counts, old)
    <3>1. k - 1 \in 0..m /\ k - 1 < k /\ k \in 1..m BY <1>1, <2>4, <2>8
    <3>2. keys[k] \in DOMAIN counts /\ n \in Nat \ {0} BY <1>1, <3>1
    <3>3. done(k) = old \union {keys[k]} BY <2>4, <3>1
    <3>4. keys[k] \notin old
      <4>1. ASSUME NEW j \in 1 .. k - 1 PROVE keys[j] # keys[k]
        <5>1. j \in 1..m /\ j # k BY <1>1, <3>1
        <5>. QED BY <1>1, <3>1, <5>1
      <4>. QED BY <4>1
    <3>5. IsFiniteSet(old) /\ IsFiniteSet(done(k)) /\ old \in SUBSET DOMAIN counts
      /\ done(k) \in SUBSET DOMAIN counts
      <4>1. old \in SUBSET DOMAIN counts /\ done(k) \in SUBSET DOMAIN counts
        BY <1>4, <2>4, <3>1
      <4>. HIDE DEF old, done
      <4>. QED BY <1>1, <4>1, FS_Subset
    <3>6. ok(k - 1)
      <4>. HIDE DEF ok
      <4>. QED BY <2>5, <3>1
    <3>7. /\ TableSound(f[k - 1], g[k - 1], h, t)
          /\ ScoreSum(f[k - 1], h, t) <= ScoreSum(kept, h, t) + sum * Unit
      BY <3>6
    <3>8. /\ f[k] = AddedPruning(f[k - 1], h, keys[k], n, t)
          /\ g[k] = KeyAdded(g[k - 1], h, keys[k], n, t)
      BY <2>6, <2>8
    <3>. HIDE DEF done, old, sum, n, ok
    <3>9. /\ TableSound(f[k], g[k], h, t)
          /\ ScoreSum(f[k], h, t) <= ScoreSum(f[k - 1], h, t) + n * Unit
      BY <3>2, <3>7, <3>8, AddedPruningSound
    <3>10. SumOn(counts, done(k)) = n + sum
      <4>1. \A x \in done(k) : counts[x] \in Int BY <1>1, <3>5
      <4>2. keys[k] \in done(k) /\ done(k) \ {keys[k]} = old BY <3>3, <3>4
      <4>3. SumOn(counts, done(k)) = counts[keys[k]] + SumOn(counts, done(k) \ {keys[k]})
        BY <3>5, <4>1, <4>2, SumStep
      <4>4. SumOn(counts, done(k) \ {keys[k]}) = sum BY <4>2, Zenon DEF sum
      <4>. QED BY <4>3, <4>4 DEF n
    <3>11. sum \in Nat
      <4>1. \A x \in old : counts[x] \in Nat BY <1>1, <3>5
      <4>. QED BY <3>5, <4>1, SumNat DEF sum
    <3>12. ScoreSum(f[k - 1], h, t) \in Nat /\ ScoreSum(f[k], h, t) \in Nat
      BY <3>7, <3>9, ScoreSumNat
    <3>13. n * Unit \in Nat /\ sum * Unit \in Nat /\ (n + sum) * Unit = n * Unit + sum * Unit
      BY <1>3, <3>2, <3>11
    <3>14. ScoreSum(f[k], h, t) <= ScoreSum(kept, h, t) + (n + sum) * Unit
      BY <1>2, <3>7, <3>9, <3>12, <3>13
    <3>15. ok(k) BY <3>9, <3>10, <3>14 DEF ok
    <3>. QED BY <2>4, <3>15
  <2>. QED BY <2>7, <2>8
<1>6. ok(m)
  <2>1. m \in Nat /\ m \in 0..m BY <1>1
  <2>. HIDE DEF ok
  <2>. QED BY <1>5, <2>1
<1>7. SumOn(counts, done(m)) * Unit <= SumOn(counts, DOMAIN counts) * Unit
      /\ SumOn(counts, done(m)) * Unit \in Nat /\ SumOn(counts, DOMAIN counts) * Unit \in Nat
  <2>1. done(m) \in SUBSET DOMAIN counts
    <3>1. m \in 0..m BY <1>1
    <3>. QED BY <1>4, <3>1
  <2>. HIDE DEF done
  <2>2. IsFiniteSet(done(m)) BY <1>1, <2>1, FS_Subset
  <2>3. SumOn(counts, done(m)) \in Nat /\ SumOn(counts, DOMAIN counts) \in Nat
    BY <1>1, <2>1, <2>2, SumNat
  <2>4. SumOn(counts, done(m)) <= SumOn(counts, DOMAIN counts) BY <1>1, <2>1, SumSubset
  <2>5. \A a, b, c \in Nat : a <= b => a * c <= b * c /\ a * c \in Nat /\ b * c \in Nat
    OBVIOUS
  <2>. QED BY <1>3, <2>3, <2>4, <2>5
<1>8. TableSound(f[m], g[m], h, t)
      /\ ScoreSum(f[m], h, t) <= ScoreSum(kept, h, t) + SumOn(counts, done(m)) * Unit
  BY <1>6
<1>. HIDE DEF done, ok
<1>9. ScoreSum(f[m], h, t) \in Nat BY <1>8, ScoreSumNat
<1>10. ScoreSum(f[m], h, t) <= ScoreSum(kept, h, t) + SumOn(counts, DOMAIN counts) * Unit
  BY <1>2, <1>7, <1>8, <1>9
<1>. QED BY <1>8, <1>10 DEF m

LEMMA BatchFilled ==
  ASSUME NEW kept, NEW whole, NEW h \in HalfLives, NEW t \in Nat,
         TableSound(kept, whole, h, t), NEW counts, NEW keys, Listed(keys, counts)
  PROVE  /\ TableSound(Filled(kept, h, keys, counts, t),
                       FilledUnlimited(whole, h, keys, counts, t), h, t)
         /\ ScoreSum(Filled(kept, h, keys, counts, t), h, t)
              <= ScoreSum(kept, h, t) + SumOn(counts, DOMAIN counts) * Unit
<1>. DEFINE f == CHOOSE f : f = [i \in 0..Len(keys) |-> IF i = 0 THEN kept
                   ELSE AddedPruning(f[i - 1], h, keys[i], counts[keys[i]], t)]
            g == CHOOSE g : g = [i \in 0..Len(keys) |-> IF i = 0 THEN whole
                   ELSE KeyAdded(g[i - 1], h, keys[i], counts[keys[i]], t)]
<1>1. Len(keys) \in Nat BY DEF Listed
<1>2. Filled(kept, h, keys, counts, t) = f[Len(keys)] BY Zenon DEF Filled
<1>3. FilledUnlimited(whole, h, keys, counts, t) = g[Len(keys)] BY Zenon DEF FilledUnlimited
<1>4. Fills(f, kept, h, keys, counts, t, Len(keys))
  <2>1. \E q : q = [i \in 0..Len(keys) |-> IF i = 0 THEN kept
                   ELSE AddedPruning(q[i - 1], h, keys[i], counts[keys[i]], t)]
    <3>. HIDE DEF f, g
    <3>1. \E q : Fills(q, kept, h, keys, counts, t, Len(keys)) BY <1>1, FillsExist
    <3>. QED BY <3>1, Zenon DEF Fills
  <2>2. f = [i \in 0..Len(keys) |-> IF i = 0 THEN kept
                   ELSE AddedPruning(f[i - 1], h, keys[i], counts[keys[i]], t)]
    BY <2>1
  <2>. HIDE DEF f, g
  <2>. QED BY <2>2, Zenon DEF Fills
<1>5. FillsUnlimited(g, whole, h, keys, counts, t, Len(keys))
  <2>1. \E q : q = [i \in 0..Len(keys) |-> IF i = 0 THEN whole
                   ELSE KeyAdded(q[i - 1], h, keys[i], counts[keys[i]], t)]
    <3>. HIDE DEF f, g
    <3>1. \E q : FillsUnlimited(q, whole, h, keys, counts, t, Len(keys))
      BY <1>1, FillsUnlimitedExist
    <3>. QED BY <3>1, Zenon DEF FillsUnlimited
  <2>2. g = [i \in 0..Len(keys) |-> IF i = 0 THEN whole
                   ELSE KeyAdded(g[i - 1], h, keys[i], counts[keys[i]], t)]
    BY <2>1
  <2>. HIDE DEF f, g
  <2>. QED BY <2>2, Zenon DEF FillsUnlimited
<1>. HIDE DEF f, g
<1>6. /\ TableSound(f[Len(keys)], g[Len(keys)], h, t)
      /\ ScoreSum(f[Len(keys)], h, t)
           <= ScoreSum(kept, h, t) + SumOn(counts, DOMAIN counts) * Unit
  BY <1>4, <1>5, FilledTables
<1>. QED BY <1>2, <1>3, <1>6
LEMMA OrderListed ==
  ASSUME NEW b \in KeyCounts, NEW y \in KeyTypes, NEW keys \in Orders(b.counts[y])
  PROVE  /\ Listed(keys, b.counts[y]) /\ b.rows \in Nat \ {0}
         /\ SumOn(b.counts[y], DOMAIN b.counts[y]) <= b.rows
         /\ SumOn(b.counts[y], DOMAIN b.counts[y]) \in Nat
<1>. DEFINE counts == b.counts[y]
            S == DOMAIN counts
<1>1. /\ b.rows \in Nat \ {0} /\ IsFiniteSet(S) /\ SumFunction(counts) <= b.rows
      /\ \A k \in S : counts[k] \in Nat \ {0}
  BY DecayAssumption DEF DecayAssumption
<1>2. keys \in SetToSeqs(S) BY DEF Orders
<1>. HIDE DEF S, counts
<1>3. Cardinality(S) \in Nat BY <1>1, FS_CardinalityType
<1>4. /\ keys \in [1..Cardinality(S) -> S]
      /\ \A i, j \in 1..Cardinality(S) : i # j => keys[i] # keys[j]
  BY <1>2 DEF SetToSeqs
<1>5. Len(keys) = Cardinality(S)
  <2>1. keys \in Seq(S) BY <1>3, <1>4
  <2>2. DOMAIN keys = 1..Cardinality(S) BY <1>4
  <2>. QED BY <1>3, <2>1, <2>2
<1>6. \A i \in 1..Cardinality(S) : keys[i] \in S BY <1>4
<1>7. Listed(keys, counts) BY <1>1, <1>3, <1>4, <1>5, <1>6 DEF Listed, S
<1>8. SumFunction(counts) = SumOn(counts, S) BY DEF SumFunction, SumOn, S
<1>9. SumOn(counts, S) \in Nat BY <1>1, SumNat
<1>. QED BY <1>1, <1>7, <1>8, <1>9 DEF counts, S

-----------------------------------------------------------------------------
(* Decaying counters: the invariant.                                        *)

\* The counter of all traffic beside the table of one half-life and key type.
PairSound(total, kept, whole, h, t) ==
  TableSound(kept, whole, h, t) /\ ScoreSum(kept, h, t) <= Value(total, h, t)

CountersSound(totals, kept, whole, t) ==
  /\ \A h \in HalfLives : totals[h] \in Counter /\ totals[h].last <= t
  /\ \A x \in Tables : PairSound(totals[x[1]], kept[x], whole[x], x[1], t)

DecayInv ==
  /\ tick \in Nat
  /\ CountersSound(traffic, tables, truth, tick)
  /\ CountersSound(file[1], file[2], file[3], tick)

LEMMA TableOf ==
  ASSUME NEW x \in Tables
  PROVE  x[1] \in HalfLives /\ x[2] \in KeyTypes
BY DEF Tables

LEMMA DecayStarts == DecayInit => DecayInv
<1>. SUFFICES ASSUME DecayInit PROVE DecayInv
  OBVIOUS
<1>1. /\ tick = 0 /\ traffic = NoTraffic /\ tables = NoTables /\ truth = NoTables
      /\ file = <<NoTraffic, NoTables, NoTables>>
  BY DEF DecayInit
<1>. DEFINE none == [k \in {} |-> 0]
            zero == [score |-> 0, last |-> 0]
<1>2. DOMAIN none = {} OBVIOUS
<1>3. zero \in Counter /\ zero.last = 0 /\ zero.score = 0 BY DEF Counter
<1>4. ASSUME NEW h \in HalfLives PROVE NoTraffic[h] = zero
  BY DEF NoTraffic
<1>5. ASSUME NEW x \in Tables PROVE NoTables[x] = none
  BY DEF NoTables
<1>. HIDE DEF none, zero
<1>6. ASSUME NEW h \in HalfLives PROVE PairSound(zero, none, none, h, 0)
  <2>1. Value(zero, h, 0) = 0 BY <1>3, ValueNat
  <2>2. TableSound(none, none, h, 0) BY <1>2, FS_EmptySet DEF TableSound
  <2>. DEFINE f == [k \in DOMAIN none |-> Value(none[k], h, 0)]
  <2>3. ScoreSum(none, h, 0) = SumOn(f, DOMAIN none) BY DEF ScoreSum
  <2>. HIDE DEF f
  <2>4. SumOn(f, {}) = 0 BY FS_EmptySet, SumChosen
  <2>5. SumOn(f, DOMAIN none) = SumOn(f, {}) BY <1>2, Zenon
  <2>. QED BY <2>1, <2>2, <2>3, <2>4, <2>5 DEF PairSound
<1>7. ASSUME NEW x \in Tables
      PROVE  PairSound(NoTraffic[x[1]], NoTables[x], NoTables[x], x[1], 0)
  <2>1. x[1] \in HalfLives BY TableOf
  <2>2. NoTraffic[x[1]] = zero /\ NoTables[x] = none BY <1>4, <1>5, <2>1
  <2>. QED BY <1>6, <2>1, <2>2
<1>8. CountersSound(NoTraffic, NoTables, NoTables, 0)
  BY <1>3, <1>4, <1>7 DEF CountersSound
<1>9. file[1] = NoTraffic /\ file[2] = NoTables /\ file[3] = NoTables BY <1>1
<1>. QED BY <1>1, <1>8, <1>9 DEF DecayInv

\* A batch raises a counter by its rows and a table by at most as much.
LEMMA BatchPair ==
  ASSUME NEW total \in Counter, NEW kept, NEW whole, NEW h \in HalfLives, NEW t \in Nat,
         total.last <= t, PairSound(total, kept, whole, h, t),
         NEW b \in KeyCounts, NEW y \in KeyTypes, NEW keys \in Orders(b.counts[y])
  PROVE  PairSound(Raised(total, h, b.rows, t), Filled(kept, h, keys, b.counts[y], t),
                   FilledUnlimited(whole, h, keys, b.counts[y], t), h, t)
<1>. DEFINE counts == b.counts[y]
            n == SumOn(counts, DOMAIN counts)
            new == Filled(kept, h, keys, counts, t)
            wide == FilledUnlimited(whole, h, keys, counts, t)
<1>1. Listed(keys, counts) /\ b.rows \in Nat /\ n <= b.rows /\ n \in Nat BY OrderListed
<1>2. TableSound(kept, whole, h, t) /\ ScoreSum(kept, h, t) <= Value(total, h, t)
  BY DEF PairSound
<1>3. TableSound(new, wide, h, t) /\ ScoreSum(new, h, t) <= ScoreSum(kept, h, t) + n * Unit
  BY <1>1, <1>2, BatchFilled
<1>. HIDE DEF n, counts, new, wide
<1>4. Value(Raised(total, h, b.rows, t), h, t) = Value(total, h, t) + b.rows * Unit
  BY <1>1, RaisedIs
<1>5. ScoreSum(kept, h, t) \in Nat /\ ScoreSum(new, h, t) \in Nat /\ Value(total, h, t) \in Nat
  BY <1>2, <1>3, ScoreSumNat, ValueNat
<1>6. n * Unit <= b.rows * Unit /\ n * Unit \in Nat /\ b.rows * Unit \in Nat
  <2>1. \A i, j, c \in Nat : i <= j => i * c <= j * c /\ i * c \in Nat /\ j * c \in Nat
    OBVIOUS
  <2>. QED BY <1>1, <2>1, Weighing
<1>7. ScoreSum(new, h, t) <= Value(Raised(total, h, b.rows, t), h, t)
  BY <1>2, <1>3, <1>4, <1>5, <1>6
<1>. QED BY <1>3, <1>7 DEF PairSound, new, wide, counts

\* Time passes: a table halves at least as far as the counter.
LEMMA LaterPair ==
  ASSUME NEW total \in Counter, NEW kept, NEW whole, NEW h \in HalfLives, NEW t \in Nat,
         total.last <= t, PairSound(total, kept, whole, h, t), NEW d \in Nat, d % h = 0
  PROVE  PairSound(total, kept, whole, h, t + d)
<1>. DEFINE p == TwoTo[d \div h]
            s == ScoreSum(kept, h, t)
            v == Value(total, h, t)
<1>1. TableSound(kept, whole, h, t) /\ s <= v BY DEF PairSound
<1>2. TableSound(kept, whole, h, t + d) /\ ScoreSum(kept, h, t + d) <= s \div p
  BY <1>1, LaterSound
<1>3. Value(total, h, t + d) = v \div p /\ p \in Nat \ {0} BY ValueLater
<1>4. s \in Nat /\ v \in Nat BY <1>1, ScoreSumNat, ValueNat
<1>5. ScoreSum(kept, h, t + d) \in Nat
  <2>1. t + d \in Nat OBVIOUS
  <2>. QED BY <1>2, <2>1, ScoreSumNat
<1>. HIDE DEF s, v, p
<1>6. s \div p <= v \div p
  <2>1. s \div p \in Nat /\ (s \div p) * p <= s /\ (s \div p) * p \in Nat
    BY <1>3, <1>4, DivBounds
  <2>2. (s \div p) * p <= v BY <1>1, <1>4, <2>1
  <2>. QED BY <1>3, <1>4, <2>1, <2>2, DivUnique
<1>7. s \div p \in Nat /\ v \div p \in Nat BY <1>3, <1>4, DivBounds
<1>8. ScoreSum(kept, h, t + d) <= Value(total, h, t + d) BY <1>2, <1>3, <1>5, <1>6, <1>7
<1>. QED BY <1>2, <1>8 DEF PairSound

LEMMA LaterCounters ==
  ASSUME NEW totals, NEW kept, NEW whole, NEW t \in Nat,
         CountersSound(totals, kept, whole, t), NEW d \in Steps
  PROVE  CountersSound(totals, kept, whole, t + d)
<1>1. d \in Nat /\ \A h \in HalfLives : d % h = 0
  BY DecayAssumption DEF DecayAssumption
<1>2. ASSUME NEW h \in HalfLives PROVE totals[h] \in Counter /\ totals[h].last <= t + d
  <2>1. totals[h] \in Counter /\ totals[h].last <= t BY DEF CountersSound
  <2>2. totals[h].last \in Nat BY <2>1 DEF Counter
  <2>. QED BY <1>1, <2>1, <2>2
<1>3. ASSUME NEW x \in Tables
      PROVE  PairSound(totals[x[1]], kept[x], whole[x], x[1], t + d)
  <2>1. x[1] \in HalfLives BY TableOf
  <2>2. totals[x[1]] \in Counter /\ totals[x[1]].last <= t BY <2>1 DEF CountersSound
  <2>3. PairSound(totals[x[1]], kept[x], whole[x], x[1], t) BY DEF CountersSound
  <2>4. d % x[1] = 0 BY <1>1, <2>1
  <2>. QED BY <1>1, <2>1, <2>2, <2>3, <2>4, LaterPair
<1>. QED BY <1>2, <1>3 DEF CountersSound

LEMMA DecaySteps == DecayInv /\ [DecayNext]_decayVars => DecayInv'
<1>. SUFFICES ASSUME DecayInv, [DecayNext]_decayVars PROVE DecayInv'
  OBVIOUS
<1>1. /\ tick \in Nat /\ CountersSound(traffic, tables, truth, tick)
      /\ CountersSound(file[1], file[2], file[3], tick)
  BY DEF DecayInv
<1>2. SUFFICES /\ tick' \in Nat /\ CountersSound(traffic', tables', truth', tick')
               /\ CountersSound(file'[1], file'[2], file'[3], tick')
  BY DEF DecayInv
<1>3. ASSUME NEW b \in KeyCounts, DecayBatch(b)
      PROVE  /\ tick' \in Nat /\ CountersSound(traffic', tables', truth', tick')
             /\ CountersSound(file'[1], file'[2], file'[3], tick')
  <2>1. /\ traffic' = [h \in HalfLives |-> Raised(traffic[h], h, b.rows, tick)]
        /\ file' \in {file, <<traffic', tables', truth'>>} /\ tick' = tick
    BY <1>3 DEF DecayBatch
  <2>2. PICK order : /\ \A y \in KeyTypes : order[y] \in Orders(b.counts[y])
                     /\ tables' = [x \in Tables |->
                          Filled(tables[x], x[1], order[x[2]], b.counts[x[2]], tick)]
                     /\ truth' = [x \in Tables |->
                          FilledUnlimited(truth[x], x[1], order[x[2]], b.counts[x[2]], tick)]
    BY <1>3, Zenon DEF DecayBatch
  <2>3. ASSUME NEW h \in HalfLives
        PROVE  /\ traffic'[h] = Raised(traffic[h], h, b.rows, tick)
               /\ traffic'[h] \in Counter /\ traffic'[h].last <= tick
    <3>1. traffic[h] \in Counter /\ traffic[h].last <= tick BY <1>1 DEF CountersSound
    <3>2. b.rows \in Nat BY DecayAssumption DEF DecayAssumption
    <3>3. traffic'[h] = Raised(traffic[h], h, b.rows, tick) BY <2>1
    <3>4. /\ Raised(traffic[h], h, b.rows, tick) \in Counter
          /\ Raised(traffic[h], h, b.rows, tick).last = tick
      BY <1>1, <3>1, <3>2, RaisedIs
    <3>. QED BY <1>1, <3>3, <3>4
  <2>4. ASSUME NEW x \in Tables
        PROVE  PairSound(traffic'[x[1]], tables'[x], truth'[x], x[1], tick)
    <3>1. x[1] \in HalfLives /\ x[2] \in KeyTypes BY TableOf
    <3>2. order[x[2]] \in Orders(b.counts[x[2]]) BY <2>2, <3>1
    <3>3. /\ tables'[x] = Filled(tables[x], x[1], order[x[2]], b.counts[x[2]], tick)
          /\ truth'[x] = FilledUnlimited(truth[x], x[1], order[x[2]], b.counts[x[2]], tick)
      BY <2>2
    <3>4. traffic'[x[1]] = Raised(traffic[x[1]], x[1], b.rows, tick) BY <2>3, <3>1
    <3>5. /\ traffic[x[1]] \in Counter /\ traffic[x[1]].last <= tick
          /\ PairSound(traffic[x[1]], tables[x], truth[x], x[1], tick)
      BY <1>1, <3>1 DEF CountersSound
    <3>6. PairSound(Raised(traffic[x[1]], x[1], b.rows, tick),
                    Filled(tables[x], x[1], order[x[2]], b.counts[x[2]], tick),
                    FilledUnlimited(truth[x], x[1], order[x[2]], b.counts[x[2]], tick),
                    x[1], tick)
      BY <1>1, <3>1, <3>2, <3>5, BatchPair
    <3>. QED BY <3>3, <3>4, <3>6
  <2>5. CountersSound(traffic', tables', truth', tick') BY <2>1, <2>3, <2>4 DEF CountersSound
  <2>6. CASE file' = file BY <1>1, <2>1, <2>5, <2>6
  <2>7. CASE file' = <<traffic', tables', truth'>>
    <3>1. file'[1] = traffic' /\ file'[2] = tables' /\ file'[3] = truth' BY <2>7
    <3>. QED BY <1>1, <2>1, <2>5, <3>1
  <2>. QED BY <2>1, <2>6, <2>7
<1>4. ASSUME DecayTick
      PROVE  /\ tick' \in Nat /\ CountersSound(traffic', tables', truth', tick')
             /\ CountersSound(file'[1], file'[2], file'[3], tick')
  <2>1. PICK d \in Steps : tick' = tick + d BY <1>4 DEF DecayTick
  <2>2. traffic' = traffic /\ tables' = tables /\ truth' = truth /\ file' = file
    BY <1>4 DEF DecayTick
  <2>3. d \in Nat BY DecayAssumption DEF DecayAssumption
  <2>4. /\ CountersSound(traffic, tables, truth, tick + d)
        /\ CountersSound(file[1], file[2], file[3], tick + d)
    BY <1>1, LaterCounters
  <2>. QED BY <1>1, <2>1, <2>2, <2>3, <2>4
<1>5. CASE DecayRestart BY <1>1, <1>5 DEF DecayRestart
<1>6. CASE UNCHANGED decayVars BY <1>1, <1>6 DEF decayVars
<1>. QED BY <1>3, <1>4, <1>5, <1>6 DEF DecayNext

LEMMA DecayBounds == DecayInv => ScoresBounded
<1>. SUFFICES ASSUME DecayInv PROVE ScoresBounded
  OBVIOUS
<1>1. tick \in Nat /\ CountersSound(traffic, tables, truth, tick) BY DEF DecayInv
<1>2. ASSUME NEW x \in Tables
      PROVE  /\ x[1] \in HalfLives /\ TableSound(tables[x], truth[x], x[1], tick)
             /\ ScoreSum(tables[x], x[1], tick) <= Value(traffic[x[1]], x[1], tick)
  BY <1>1, TableOf DEF CountersSound, PairSound
<1>3. ASSUME NEW x \in Tables, NEW k \in DOMAIN truth[x]
      PROVE  /\ Scored(tables[x], x[1], k) <= Scored(truth[x], x[1], k)
             /\ Scored(truth[x], x[1], k) < Scored(tables[x], x[1], k) + 2 * Epsilon
  <2>. DEFINE b == tables[x]
              a == truth[x]
              h == x[1]
  <2>1. h \in HalfLives /\ KeySound(b, a, h, tick, k) BY <1>2 DEF TableSound
  <2>. HIDE DEF a, b, h
  <2>2. Scored(a, h, k) = Value(a[k], h, tick) BY DEF Scored, a
  <2>3. CASE k \in DOMAIN b
    <3>1. Scored(b, h, k) = Value(b[k], h, tick) BY <2>3 DEF Scored
    <3>2. /\ a[k] \in Counter /\ b[k] \in Counter /\ a[k].last = b[k].last
          /\ Close(a[k].score, b[k].score)
      BY <2>1, <2>3 DEF KeySound
    <3>3. Close(Value(a[k], h, tick), Value(b[k], h, tick)) BY <1>1, <2>1, <3>2, ValueClose
    <3>. QED BY <2>2, <3>1, <3>3 DEF Close, a, b, h
  <2>4. CASE k \notin DOMAIN b
    <3>1. Scored(b, h, k) = 0 BY <2>4 DEF Scored
    <3>2. a[k] \in Counter /\ Value(a[k], h, tick) < 2 * Epsilon BY <2>1, <2>4 DEF KeySound
    <3>3. Value(a[k], h, tick) \in Nat BY <1>1, <2>1, <3>2, ValueNat
    <3>. QED BY <2>2, <3>1, <3>2, <3>3, Weighing DEF a, b, h
  <2>. QED BY <2>3, <2>4
<1>4. PruningHarmless BY <1>3 DEF PruningHarmless
<1>5. ASSUME NEW x \in Tables
      PROVE  SumFunction([k \in DOMAIN tables[x] |-> Scored(tables[x], x[1], k)])
               <= Value(traffic[x[1]], x[1], tick)
  <2>. DEFINE D == DOMAIN tables[x]
              f == [k \in D |-> Scored(tables[x], x[1], k)]
              g == [k \in D |-> Value(tables[x][k], x[1], tick)]
  <2>1. IsFiniteSet(D) BY <1>2 DEF TableSound
  <2>2. \A k \in D : f[k] = g[k] BY DEF Scored
  <2>3. DOMAIN f = D OBVIOUS
  <2>4. ScoreSum(tables[x], x[1], tick) = SumOn(g, D) BY DEF ScoreSum
  <2>. HIDE DEF f, g, D
  <2>5. SumOn(f, D) = SumOn(g, D) BY <2>1, <2>2, SumEqual
  <2>6. SumFunction(f) = SumOn(f, D) BY <2>3, Zenon DEF SumFunction, SumOn
  <2>7. SumFunction(f) <= Value(traffic[x[1]], x[1], tick) BY <1>2, <2>4, <2>5, <2>6
  <2>. QED BY <2>7 DEF f, D
<1>6. KeysWithinTraffic BY <1>5 DEF KeysWithinTraffic
<1>. QED BY <1>4, <1>6 DEF ScoresBounded

\* Whatever the keys, their counts and their order, the limit and epsilon, and after a
\* restart from a file of any age, no key of a table loses two epsilons to pruning, and
\* the keys of a table never outscore the traffic (DecayingKeyTable.add and prune,
\* DecayingCounter.add and value, DecayAnalytic.process_batch).
THEOREM ScoresKept == DecaySpec => []ScoresBounded
<1>1. DecayInit => DecayInv BY DecayStarts
<1>2. DecayInv /\ [DecayNext]_decayVars => DecayInv' BY DecaySteps
<1>3. DecayInv => ScoresBounded BY DecayBounds
<1>. QED BY <1>1, <1>2, <1>3, PTL DEF DecaySpec
-----------------------------------------------------------------------------
(* Link analysis: powers, products and common multiples.                    *)

LEMMA PowerStep ==
  ASSUME NEW b \in Nat, NEW n \in Nat
  PROVE  /\ Power(b, 0) = 1
         /\ Power(b, n + 1) = b * Power(b, n)
<1>. DEFINE p(m) == CHOOSE p : p = [i \in 0..m |-> IF i = 0 THEN 1 ELSE b * p[i - 1]]
<1>1. ASSUME NEW m \in Nat PROVE Powers(p(m), b, m) /\ Power(b, m) = p(m)[m]
  <2>1. \E q : q = [i \in 0..m |-> IF i = 0 THEN 1 ELSE b * q[i - 1]]
    <3>1. \E q : Powers(q, b, m) BY PowersExist
    <3>. QED BY <3>1, Zenon DEF Powers
  <2>2. p(m) = [i \in 0..m |-> IF i = 0 THEN 1 ELSE b * p(m)[i - 1]] BY <2>1
  <2>3. Power(b, m) = p(m)[m] BY Zenon DEF Power
  <2>. HIDE DEF p
  <2>. QED BY <2>2, <2>3, Zenon DEF Powers
<1>. HIDE DEF p
<1>2. Power(b, 0) = 1
  <2>1. Powers(p(0), b, 0) /\ Power(b, 0) = p(0)[0] BY <1>1
  <2>2. 0 \in 0..0 OBVIOUS
  <2>3. p(0)[0] = 1 BY <2>1, <2>2, Zenon DEF Powers
  <2>. QED BY <2>1, <2>3
<1>3. Power(b, n + 1) = b * Power(b, n)
  <2>1. /\ n + 1 \in Nat /\ n + 1 \in 0 .. n + 1 /\ n + 1 # 0 /\ (n + 1) - 1 = n
        /\ n <= n + 1 /\ n <= n
    OBVIOUS
  <2>2. Powers(p(n), b, n) /\ Power(b, n) = p(n)[n] BY <1>1
  <2>3. Powers(p(n + 1), b, n + 1) /\ Power(b, n + 1) = p(n + 1)[n + 1] BY <1>1, <2>1
  <2>4. p(n + 1)[n + 1] = IF n + 1 = 0 THEN 1 ELSE b * p(n + 1)[(n + 1) - 1]
    BY <2>1, <2>3, Zenon DEF Powers
  <2>5. p(n + 1)[n] = p(n)[n] BY <2>1, <2>2, <2>3, PowersAgree
  <2>. QED BY <2>1, <2>2, <2>3, <2>4, <2>5
<1>. QED BY <1>2, <1>3

LEMMA PowerNat ==
  ASSUME NEW b \in Nat, NEW n \in Nat
  PROVE  Power(b, n) \in Nat
<1>. DEFINE Bad == {i \in Nat : Power(b, i) \notin Nat}
<1>1. SUFFICES ASSUME Bad # {} PROVE FALSE
  OBVIOUS
<1>2. PICK i \in Bad : \A z \in Bad : ~(<<z, i>> \in OpToRel(<, Nat))
  BY <1>1, WFMin, NatLessThanWellFounded
<1>3. i \in Nat /\ Power(b, i) \notin Nat /\ \A z \in Nat : z < i => Power(b, z) \in Nat
  BY <1>2 DEF OpToRel
<1>. HIDE DEF Bad
<1>4. CASE i = 0
  <2>1. Power(b, 0) = 1 BY PowerStep
  <2>. QED BY <1>3, <1>4, <2>1
<1>5. CASE i # 0
  <2>1. i - 1 \in Nat /\ i - 1 < i /\ (i - 1) + 1 = i BY <1>3, <1>5
  <2>2. Power(b, (i - 1) + 1) = b * Power(b, i - 1) BY <2>1, PowerStep
  <2>3. Power(b, i - 1) \in Nat BY <1>3, <2>1
  <2>4. b * Power(b, i - 1) \in Nat BY <2>3
  <2>. QED BY <1>3, <2>1, <2>2, <2>4
<1>. QED BY <1>4, <1>5

\* it holds the products of the members of D.
ProductTable(it, D) ==
  it = [s \in D |-> IF s = {} THEN 1 ELSE Chosen(s) * it[s \ {Chosen(s)}]]

LEMMA SmallProducts ==
  ASSUME NEW S, IsFiniteSet(S), NEW m \in Nat
  PROVE  \E it : ProductTable(it, Small(S, m))
<1>. DEFINE Bad == {n \in Nat : ~ \E it : ProductTable(it, Small(S, n))}
<1>1. SUFFICES ASSUME Bad # {} PROVE FALSE
  OBVIOUS
<1>2. PICK k \in Bad : \A z \in Bad : ~(<<z, k>> \in OpToRel(<, Nat))
  BY <1>1, WFMin, NatLessThanWellFounded
<1>3. k \in Nat /\ \A z \in Nat : z < k => \E it : ProductTable(it, Small(S, z))
  BY <1>2 DEF OpToRel
<1>4. \E it : ProductTable(it, Small(S, k))
  <2>1. CASE k = 0
    <3>. DEFINE g == [s \in Small(S, k) |-> 1]
    <3>1. \A s \in Small(S, k) : s = {} BY <2>1, SmallRest
    <3>2. g = [s \in Small(S, k) |-> IF s = {} THEN 1 ELSE Chosen(s) * g[s \ {Chosen(s)}]]
      BY <3>1
    <3>. HIDE DEF g
    <3>. QED BY <3>2, Zenon DEF ProductTable
  <2>2. CASE k # 0
    <3>1. k - 1 \in Nat /\ k - 1 < k BY <1>3, <2>2
    <3>2. PICK h : ProductTable(h, Small(S, k - 1)) BY <1>3, <3>1
    <3>. DEFINE v(s) == IF s = {} THEN 1 ELSE Chosen(s) * h[s \ {Chosen(s)}]
                g == [s \in Small(S, k) |-> v(s)]
    <3>3. \A s \in Small(S, k - 1) : h[s] = v(s) BY <3>2, Zenon DEF ProductTable
    <3>4. \A s \in Small(S, k) : g[s] = v(s) OBVIOUS
    <3>. HIDE DEF g
    <3>5. \A s \in Small(S, k) : s # {} => g[s \ {Chosen(s)}] = h[s \ {Chosen(s)}]
      <4>. HIDE DEF v
      <4>1. \A s \in Small(S, k) : s # {} =>
              s \ {Chosen(s)} \in Small(S, k - 1) /\ s \ {Chosen(s)} \in Small(S, k)
        BY <1>3, SmallRest
      <4>. QED BY <3>3, <3>4, <4>1
    <3>6. \A s \in Small(S, k) : g[s] = IF s = {} THEN 1 ELSE Chosen(s) * g[s \ {Chosen(s)}]
      BY <3>4, <3>5
    <3>7. g = [s \in Small(S, k) |-> g[s]] BY DEF g
    <3>8. ProductTable(g, Small(S, k)) BY <3>6, <3>7, Zenon DEF ProductTable
    <3>. QED BY <3>8
  <2>. QED BY <2>1, <2>2
<1>. QED BY <1>2, <1>4

LEMMA ProductHasTable ==
  ASSUME NEW S, IsFiniteSet(S)
  PROVE  \E it : ProductTable(it, SUBSET S) /\ ProductSet(S) = it[S]
<1>. DEFINE it == CHOOSE h : h = [s \in SUBSET S |->
                     IF s = {} THEN 1
                     ELSE (CHOOSE x \in s : TRUE) * h[s \ {CHOOSE x \in s : TRUE}]]
<1>0. \E h : ProductTable(h, SUBSET S)
  <2>1. Small(S, Cardinality(S)) = SUBSET S
    <3>1. \A s \in SUBSET S : Cardinality(s) <= Cardinality(S) BY FS_Subset
    <3>. QED BY <3>1 DEF Small
  <2>2. Cardinality(S) \in Nat BY FS_CardinalityType
  <2>3. \E h : ProductTable(h, Small(S, Cardinality(S))) BY <2>2, SmallProducts
  <2>. QED BY <2>1, <2>3
<1>1. it = [s \in SUBSET S |->
                     IF s = {} THEN 1
                     ELSE (CHOOSE x \in s : TRUE) * it[s \ {CHOOSE x \in s : TRUE}]]
  <2>1. \E h : h = [s \in SUBSET S |->
                     IF s = {} THEN 1
                     ELSE (CHOOSE x \in s : TRUE) * h[s \ {CHOOSE x \in s : TRUE}]]
    BY <1>0, Zenon DEF ProductTable, Chosen
  <2>. QED BY <2>1
<1>2. ProductTable(it, SUBSET S) BY <1>1, Zenon DEF ProductTable, Chosen
<1>3. ProductSet(S) = it[S]
  BY DEF ProductSet, FoldSet, MapThenFoldSet
<1>. QED BY <1>2, <1>3

LEMMA MultipleRest ==
  ASSUME NEW x \in Nat, NEW p \in Nat \ {0}
  PROVE  (x * p) % p = 0
<1>1. x * p \in Nat OBVIOUS
<1>2. \A y \in Nat : y % p = y - (y \div p) * p /\ y \div p \in Nat OBVIOUS
<1>3. x <= (x * p) \div p BY <1>1, DivUnique
<1>4. (x * p) \div p <= x BY <1>1, DivUnique
<1>5. (x * p) \div p = x BY <1>1, <1>2, <1>3, <1>4
<1>. QED BY <1>1, <1>2, <1>5

\* The product of positive numbers is positive and a multiple of each.
LEMMA ProductDivides ==
  ASSUME NEW S \in SUBSET (Nat \ {0}), IsFiniteSet(S)
  PROVE  ProductSet(S) \in Nat \ {0} /\ \A d \in S : ProductSet(S) % d = 0
<1>1. PICK it : ProductTable(it, SUBSET S) /\ ProductSet(S) = it[S] BY ProductHasTable
<1>. DEFINE Good(s) == it[s] \in Nat \ {0} /\ \A d \in s : it[s] % d = 0
            Bad == {n \in Nat : \E s \in SUBSET S : Cardinality(s) = n /\ ~Good(s)}
<1>2. SUFFICES ASSUME ~Good(S) PROVE FALSE
  BY <1>1
<1>3. \A s \in SUBSET S : IsFiniteSet(s) /\ Cardinality(s) \in Nat
  BY FS_Subset, FS_CardinalityType
<1>4. Bad # {}
  <2>. HIDE DEF Good
  <2>1. S \in SUBSET S OBVIOUS
  <2>. QED BY <1>2, <1>3, <2>1
<1>5. \E k \in Bad : \A z \in Bad : ~(<<z, k>> \in OpToRel(<, Nat))
  <2>1. Bad \subseteq Nat OBVIOUS
  <2>. HIDE DEF Bad
  <2>. QED BY <1>4, <2>1, WFMin, NatLessThanWellFounded
<1>6. PICK k \in Bad : \A z \in Bad : ~(<<z, k>> \in OpToRel(<, Nat))
  BY <1>5
<1>7. PICK s \in SUBSET S : Cardinality(s) = k /\ ~Good(s)
  <2>. HIDE DEF Good
  <2>. QED OBVIOUS
<1>8. \A u \in SUBSET S : Cardinality(u) < k => Good(u)
  <2>1. k \in Nat /\ \A z \in Bad : ~(z < k)
    <3>1. Bad \subseteq Nat OBVIOUS
    <3>. HIDE DEF Bad
    <3>. QED BY <1>6, <3>1 DEF OpToRel
  <2>. HIDE DEF Good
  <2>. QED BY <1>3, <2>1
<1>. HIDE DEF Bad
<1>9. it[s] = IF s = {} THEN 1 ELSE Chosen(s) * it[s \ {Chosen(s)}]
  BY <1>1, Zenon DEF ProductTable
<1>10. CASE s = {} BY <1>7, <1>9, <1>10
<1>11. CASE s # {}
  <2>. DEFINE c == Chosen(s)
              r == s \ {c}
              q == it[r]
  <2>1. c \in s /\ c \in Nat \ {0} BY <1>11 DEF Chosen
  <2>2. r \in SUBSET S /\ Cardinality(r) < k
    <3>1. Cardinality(r) = Cardinality(s) - 1 BY <1>3, <2>1, FS_RemoveElement
    <3>2. Cardinality(s) \in Nat /\ Cardinality(s) = k
      <4>. HIDE DEF Good
      <4>. QED BY <1>3, <1>7
    <3>3. r \in SUBSET S OBVIOUS
    <3>. HIDE DEF r, Good
    <3>. QED BY <3>1, <3>2, <3>3
  <2>3. Good(r)
    <3>1. \A u \in SUBSET S : Cardinality(u) < k => Good(u)
      <4>. HIDE DEF Good
      <4>. QED BY <1>8
    <3>. HIDE DEF Good, r
    <3>. QED BY <2>2, <3>1
  <2>4. q \in Nat \ {0} /\ \A d \in r : q % d = 0 BY <2>3
  <2>5. it[s] = c * q BY <1>9, <1>11
  <2>. HIDE DEF c, q
  <2>6. c * q \in Nat \ {0}
    <3>1. \A i, j \in Nat : i # 0 /\ j # 0 => i * j \in Nat /\ i * j # 0 OBVIOUS
    <3>. QED BY <2>1, <2>4, <3>1
  <2>7. ASSUME NEW d \in s PROVE (c * q) % d = 0
    <3>0. d \in Nat \ {0} OBVIOUS
    <3>1. CASE d = c
      <4>1. c * q = q * d BY <2>1, <2>4, <3>1
      <4>. QED BY <2>4, <3>0, <4>1, MultipleRest
    <3>2. CASE d # c
      <4>1. q % d = 0 BY <2>4, <3>2
      <4>2. (q \div d) * d = q /\ q \div d \in Nat BY <2>4, <3>0, <4>1, DivExact, DivBounds
      <4>3. c * q = (c * (q \div d)) * d /\ c * (q \div d) \in Nat BY <2>1, <4>2
      <4>. QED BY <3>0, <4>3, MultipleRest
    <3>. QED BY <3>1, <3>2
  <2>8. Good(s) BY <2>5, <2>6, <2>7
  <2>. QED BY <1>7, <2>8
<1>. QED BY <1>10, <1>11
-----------------------------------------------------------------------------
(* Link analysis: vectors and a matrix whose rows add up to m.              *)

LEMMA SumTimes ==
  ASSUME NEW S, IsFiniteSet(S), NEW f, IntsOn(f, S), NEW a \in Int,
         NEW h, \A x \in S : h[x] = a * f[x]
  PROVE  SumOn(h, S) = a * SumOn(f, S) /\ SumOn(f, S) \in Int
<1>1. \A x \in S : h[x] = a * f[x] + 0 * f[x] BY DEF IntsOn
<1>2. Combines(h, a, f, 0, f, S) BY <1>1 DEF Combines
<1>3. SumOn(h, S) = a * SumOn(f, S) + 0 * SumOn(f, S) BY <1>2, SumLinear
<1>4. SumOn(f, S) \in Int BY SumStep DEF IntsOn
<1>. QED BY <1>3, <1>4

Stochastic(move, S, m) ==
  \A u \in S : (\A v \in S : move[u][v] \in Nat) /\ SumOn(move[u], S) = m

\* The members of column v of the matrix, each times what x has for its row.
Column(x, move, S, v) == [u \in S |-> x[u] * move[u][v]]

Times(x, move, S) == [v \in S |-> SumOn(Column(x, move, S, v), S)]

Sizes(x, S) == [v \in S |-> Distance1(x[v], 0)]

LEMMA ColumnInts ==
  ASSUME NEW S, IsFiniteSet(S), NEW m, NEW move, Stochastic(move, S, m),
         NEW x, IntsOn(x, S), NEW v \in S
  PROVE  /\ IntsOn(Column(x, move, S, v), S)
         /\ Times(x, move, S)[v] = SumOn(Column(x, move, S, v), S)
         /\ Times(x, move, S)[v] \in Int
<1>1. \A u \in S : x[u] \in Int /\ move[u][v] \in Nat BY DEF Stochastic, IntsOn
<1>2. \A u \in S : Column(x, move, S, v)[u] \in Int BY <1>1 DEF Column
<1>3. Times(x, move, S)[v] = SumOn(Column(x, move, S, v), S) BY DEF Times
<1>4. SumOn(Column(x, move, S, v), S) \in Int BY <1>2, SumStep
<1>. QED BY <1>2, <1>3, <1>4 DEF IntsOn

\* The product of a vector with the matrix adds up to m times the vector.
LEMMA TimesSum ==
  ASSUME NEW S, IsFiniteSet(S), NEW m \in Nat, NEW move, Stochastic(move, S, m),
         NEW x, IntsOn(x, S)
  PROVE  /\ IntsOn(Times(x, move, S), S)
         /\ SumOn(Times(x, move, S), S) = m * SumOn(x, S)
<1>. DEFINE row == [u \in S |-> [v \in S |-> x[u] * move[u][v]]]
            col == [v \in S |-> Column(x, move, S, v)]
            f == [u \in S |-> m * x[u]]
            g == Times(x, move, S)
<1>1. \A u \in S : x[u] \in Int BY DEF IntsOn
<1>2. \A u \in S, v \in S : move[u][v] \in Nat BY DEF Stochastic
<1>3. ASSUME NEW u \in S, NEW v \in S PROVE row[u][v] \in Int /\ col[v][u] = row[u][v]
  <2>1. row[u][v] = x[u] * move[u][v] /\ col[v][u] = x[u] * move[u][v] BY DEF Column
  <2>. QED BY <1>1, <1>2, <2>1
<1>4. ASSUME NEW u \in S PROVE f[u] = SumOn(row[u], S)
  <2>. DEFINE h == [v \in S |-> x[u] * move[u][v]]
  <2>1. IntsOn(move[u], S) BY <1>2 DEF IntsOn
  <2>2. \A v \in S : h[v] = x[u] * move[u][v] OBVIOUS
  <2>3. row[u] = h OBVIOUS
  <2>. HIDE DEF h, row
  <2>4. SumOn(h, S) = x[u] * SumOn(move[u], S) BY <1>1, <2>1, <2>2, SumTimes
  <2>5. SumOn(move[u], S) = m BY DEF Stochastic
  <2>6. f[u] = x[u] * m BY <1>1
  <2>. QED BY <2>3, <2>4, <2>5, <2>6
<1>5. ASSUME NEW v \in S PROVE g[v] = SumOn(col[v], S)
  <2>1. col[v] = Column(x, move, S, v) OBVIOUS
  <2>. HIDE DEF col
  <2>. QED BY <2>1, ColumnInts
<1>6. IntsOn(g, S)
  <2>1. \A v \in S : g[v] \in Int BY ColumnInts
  <2>. HIDE DEF g
  <2>. QED BY <2>1 DEF IntsOn
<1>7. \A u \in S : f[u] = m * x[u] OBVIOUS
<1>. HIDE DEF row, col, f, g
<1>8. Crossed(row, col, f, g, S, S) BY <1>3, <1>4, <1>5 DEF Crossed
<1>9. SumOn(f, S) = SumOn(g, S) BY <1>8, SumSwap
<1>10. SumOn(f, S) = m * SumOn(x, S) BY <1>7, SumTimes
<1>. QED BY <1>6, <1>9, <1>10 DEF g

LEMMA SumSize ==
  ASSUME NEW S, IsFiniteSet(S), NEW x, IntsOn(x, S)
  PROVE  /\ \A v \in S : Sizes(x, S)[v] \in Nat
         /\ SumOn(Sizes(x, S), S) \in Nat
         /\ Distance1(SumOn(x, S), 0) <= SumOn(Sizes(x, S), S)
<1>. DEFINE y == Sizes(x, S)
            z == [v \in S |-> (-1) * x[v]]
<1>1. \A v \in S : x[v] \in Int BY DEF IntsOn
<1>2. \A v \in S : y[v] \in Nat /\ x[v] <= y[v] /\ z[v] <= y[v] /\ z[v] \in Int
  BY <1>1 DEF Sizes, Distance1
<1>3. \A v \in S : z[v] = (-1) * x[v] OBVIOUS
<1>. HIDE DEF y, z
<1>4. IntsOn(y, S) /\ IntsOn(z, S) BY <1>2 DEF IntsOn
<1>5. SumOn(x, S) <= SumOn(y, S) /\ SumOn(z, S) <= SumOn(y, S) BY <1>2, <1>4, SumMonotone
<1>6. SumOn(z, S) = (-1) * SumOn(x, S) /\ SumOn(x, S) \in Int BY <1>3, SumTimes
<1>7. SumOn(y, S) \in Nat BY <1>2, SumNat
<1>8. Distance1(SumOn(x, S), 0) <= SumOn(y, S) BY <1>5, <1>6, <1>7 DEF Distance1
<1>. QED BY <1>2, <1>7, <1>8 DEF y

LEMMA SizeTimes ==
  ASSUME NEW i \in Int, NEW j \in Nat
  PROVE  Distance1(i * j, 0) = Distance1(i, 0) * j
<1>1. CASE i < 0
  <2>1. CASE j = 0 BY <2>1 DEF Distance1
  <2>2. CASE j # 0
    <3>1. (-i) * j > 0
      <4>1. \A p, q \in Nat : p # 0 /\ q # 0 => p * q > 0 OBVIOUS
      <4>2. -i \in Nat /\ -i # 0 BY <1>1
      <4>. QED BY <2>2, <4>1, <4>2
    <3>2. i * j = -((-i) * j) /\ i * j \in Int OBVIOUS
    <3>3. 0 - i * j = (0 - i) * j OBVIOUS
    <3>. QED BY <1>1, <3>1, <3>2, <3>3 DEF Distance1
  <2>. QED BY <2>1, <2>2
<1>2. CASE ~(i < 0)
  <2>1. i \in Nat BY <1>2
  <2>2. i * j \in Nat BY <2>1
  <2>3. Distance1(i * j, 0) = i * j BY <2>2 DEF Distance1
  <2>4. Distance1(i, 0) = i BY <2>1 DEF Distance1
  <2>. QED BY <2>3, <2>4
<1>. QED BY <1>1, <1>2

\* The matrix multiplies no distance by more than m.
LEMMA TimesSizes ==
  ASSUME NEW S, IsFiniteSet(S), NEW m \in Nat, NEW move, Stochastic(move, S, m),
         NEW x, IntsOn(x, S)
  PROVE  SumOn(Sizes(Times(x, move, S), S), S) <= m * SumOn(Sizes(x, S), S)
<1>. DEFINE g == Times(x, move, S)
            y == Sizes(x, S)
            z == Times(y, move, S)
<1>1. (\A u \in S : y[u] \in Nat) /\ IntsOn(y, S) BY SumSize DEF IntsOn
<1>2. \A u \in S : x[u] \in Int BY DEF IntsOn
<1>3. \A u \in S, v \in S : move[u][v] \in Nat BY DEF Stochastic
<1>4. ASSUME NEW v \in S PROVE Sizes(g, S)[v] \in Int /\ z[v] \in Int /\ Sizes(g, S)[v] <= z[v]
  <2>. DEFINE a == Column(x, move, S, v)
              b == Column(y, move, S, v)
  <2>1. g[v] = SumOn(a, S) /\ g[v] \in Int /\ IntsOn(a, S) BY ColumnInts
  <2>2. z[v] = SumOn(b, S) /\ z[v] \in Int /\ IntsOn(b, S)
    <3>. HIDE DEF y
    <3>. QED BY <1>1, ColumnInts
  <2>3. ASSUME NEW u \in S PROVE Sizes(a, S)[u] = b[u]
    <3>1. Sizes(a, S)[u] = Distance1(x[u] * move[u][v], 0) BY DEF Sizes, Column
    <3>2. b[u] = Distance1(x[u], 0) * move[u][v] BY DEF Sizes, Column
    <3>. QED BY <1>2, <1>3, <3>1, <3>2, SizeTimes
  <2>. HIDE DEF a, b, g, y, z
  <2>4. SumOn(Sizes(a, S), S) = SumOn(b, S) BY <2>3, SumEqual
  <2>5. Distance1(SumOn(a, S), 0) <= SumOn(Sizes(a, S), S) BY <2>1, SumSize
  <2>6. Sizes(g, S)[v] = Distance1(g[v], 0) BY DEF Sizes
  <2>7. Distance1(g[v], 0) \in Int BY <2>1 DEF Distance1
  <2>. QED BY <2>1, <2>2, <2>4, <2>5, <2>6, <2>7
<1>5. SumOn(z, S) = m * SumOn(y, S)
  <2>. HIDE DEF y
  <2>. QED BY <1>1, TimesSum
<1>. HIDE DEF g, y, z
<1>6. IntsOn(Sizes(g, S), S) /\ IntsOn(z, S) BY <1>4 DEF IntsOn
<1>7. SumOn(Sizes(g, S), S) <= SumOn(z, S) BY <1>4, <1>6, SumMonotone
<1>. QED BY <1>5, <1>7 DEF g, y

-----------------------------------------------------------------------------
(* Link analysis: one iteration.                                            *)

\* The matrix, the personalisation vector and the damping of an iteration, scaled by m.
Damped(move, jump, a, m, S) ==
  /\ IsFiniteSet(S) /\ m \in Nat \ {0} /\ Stochastic(move, S, m)
  /\ (\A v \in S : jump[v] \in Nat) /\ SumOn(jump, S) = m
  /\ a[1] \in Nat /\ a[2] \in Nat \ {0} /\ a[1] <= a[2]

Distribution(r, total, S) ==
  (\A v \in S : r[v] \in Nat) /\ SumOn(r, S) = total /\ total \in Nat \ {0}

\* The ranks of the next iteration, of which the unit is total * a[2] * m.
Ranking(r, total, move, jump, a, S) ==
  [v \in S |-> a[1] * Times(r, move, S)[v] + (a[2] - a[1]) * total * jump[v]]

\* By how much they differ from the ranks before.
Shift(r, total, move, jump, a, m, S) ==
  [v \in S |-> Ranking(r, total, move, jump, a, S)[v] - r[v] * a[2] * m]

LEMMA ProductPositive ==
  ASSUME NEW i \in Nat \ {0}, NEW j \in Nat \ {0}
  PROVE  i * j \in Nat \ {0}
<1>1. \A p, q \in Nat : p # 0 /\ q # 0 => p * q \in Nat /\ p * q # 0 OBVIOUS
<1>. QED BY <1>1

LEMMA RankingSum ==
  ASSUME NEW move, NEW jump, NEW a, NEW m, NEW S, Damped(move, jump, a, m, S),
         NEW r, NEW total, Distribution(r, total, S)
  PROVE  Distribution(Ranking(r, total, move, jump, a, S), total * a[2] * m, S)
<1>. DEFINE t == Times(r, move, S)
            c == (a[2] - a[1]) * total
            new == Ranking(r, total, move, jump, a, S)
<1>1. /\ IsFiniteSet(S) /\ m \in Nat \ {0} /\ Stochastic(move, S, m)
      /\ (\A v \in S : jump[v] \in Nat) /\ SumOn(jump, S) = m
      /\ a[1] \in Nat /\ a[2] \in Nat \ {0} /\ a[1] <= a[2]
  BY DEF Damped
<1>2. (\A v \in S : r[v] \in Nat) /\ SumOn(r, S) = total /\ total \in Nat \ {0}
  BY DEF Distribution
<1>3. IntsOn(r, S) /\ IntsOn(jump, S) BY <1>1, <1>2 DEF IntsOn
<1>4. IntsOn(t, S) /\ SumOn(t, S) = m * total BY <1>1, <1>2, <1>3, TimesSum
<1>5. \A v \in S : t[v] \in Nat
  <2>1. ASSUME NEW v \in S PROVE t[v] \in Nat
    <3>. DEFINE f == Column(r, move, S, v)
    <3>1. ASSUME NEW u \in S PROVE f[u] \in Nat
      <4>1. r[u] \in Nat /\ move[u][v] \in Nat BY <1>1, <1>2 DEF Stochastic
      <4>2. f[u] = r[u] * move[u][v] BY DEF Column
      <4>. HIDE DEF f
      <4>. QED BY <4>1, <4>2
    <3>2. t[v] = SumOn(f, S) BY <1>1, <1>3, ColumnInts
    <3>. HIDE DEF f, t
    <3>. QED BY <1>1, <3>1, <3>2, SumNat
  <2>. HIDE DEF t
  <2>. QED BY <2>1
<1>6. c \in Nat
  <2>1. a[2] - a[1] \in Nat BY <1>1
  <2>. QED BY <1>2, <2>1
<1>7. \A v \in S : new[v] = a[1] * t[v] + c * jump[v] BY DEF Ranking
<1>. HIDE DEF t, new, c
<1>8. \A v \in S : new[v] \in Nat BY <1>1, <1>5, <1>6, <1>7
<1>9. Combines(new, a[1], t, c, jump, S) BY <1>7 DEF Combines
<1>10. SumOn(new, S) = a[1] * (m * total) + c * m
  BY <1>1, <1>3, <1>4, <1>6, <1>9, SumLinear
<1>11. a[1] * (m * total) + c * m = total * a[2] * m
  <2>1. c * m = (a[2] * total) * m - (a[1] * total) * m BY <1>1, <1>2 DEF c
  <2>2. a[1] * (m * total) = (a[1] * total) * m /\ (a[2] * total) * m = total * a[2] * m
    BY <1>1, <1>2
  <2>3. (a[1] * total) * m \in Int /\ (a[2] * total) * m \in Int BY <1>1, <1>2
  <2>. QED BY <2>1, <2>2, <2>3
<1>12. total * a[2] * m \in Nat \ {0} BY <1>1, <1>2, ProductPositive
<1>. QED BY <1>8, <1>10, <1>11, <1>12 DEF Distribution, new

LEMMA ShiftInts ==
  ASSUME NEW move, NEW jump, NEW a, NEW m, NEW S, Damped(move, jump, a, m, S),
         NEW r, NEW total, Distribution(r, total, S)
  PROVE  IntsOn(Shift(r, total, move, jump, a, m, S), S)
<1>. DEFINE new == Ranking(r, total, move, jump, a, S)
<1>1. m \in Nat /\ a[2] \in Nat BY DEF Damped
<1>2. \A v \in S : r[v] \in Nat BY DEF Distribution
<1>3. \A v \in S : new[v] \in Nat BY RankingSum DEF Distribution
<1>4. \A v \in S : Shift(r, total, move, jump, a, m, S)[v] = new[v] - r[v] * a[2] * m
  BY DEF Shift
<1>. HIDE DEF new
<1>5. \A v \in S : new[v] - r[v] * a[2] * m \in Int BY <1>1, <1>2, <1>3
<1>. QED BY <1>4, <1>5 DEF IntsOn

\* Two distributions are at most two units apart.
LEMMA FirstShift ==
  ASSUME NEW move, NEW jump, NEW a, NEW m, NEW S, Damped(move, jump, a, m, S),
         NEW r, NEW total, Distribution(r, total, S)
  PROVE  SumOn(Sizes(Shift(r, total, move, jump, a, m, S), S), S) <= 2 * (total * a[2] * m)
<1>. DEFINE new == Ranking(r, total, move, jump, a, S)
            d == Shift(r, total, move, jump, a, m, S)
            c == a[2] * m
            h == [v \in S |-> 1 * new[v] + c * r[v]]
<1>1. IsFiniteSet(S) /\ m \in Nat /\ a[2] \in Nat /\ c \in Nat BY DEF Damped
<1>2. (\A v \in S : r[v] \in Nat) /\ SumOn(r, S) = total /\ total \in Nat BY DEF Distribution
<1>3. (\A v \in S : new[v] \in Nat) /\ SumOn(new, S) = total * a[2] * m
  BY RankingSum DEF Distribution
<1>4. \A v \in S : d[v] = new[v] - r[v] * a[2] * m BY DEF Shift
<1>5. \A v \in S : h[v] = 1 * new[v] + c * r[v] OBVIOUS
<1>6. \A v \in S : Sizes(d, S)[v] = Distance1(d[v], 0) BY DEF Sizes
<1>. HIDE DEF new, d, h
<1>7. ASSUME NEW v \in S PROVE Sizes(d, S)[v] \in Int /\ h[v] \in Int /\ Sizes(d, S)[v] <= h[v]
  <2>1. r[v] * a[2] * m = c * r[v] /\ c * r[v] \in Nat BY <1>1, <1>2
  <2>. HIDE DEF c
  <2>. QED BY <1>3, <1>4, <1>5, <1>6, <2>1 DEF Distance1
<1>. HIDE DEF c
<1>8. IntsOn(new, S) /\ IntsOn(r, S) /\ IntsOn(h, S) /\ IntsOn(Sizes(d, S), S)
  BY <1>2, <1>3, <1>7 DEF IntsOn
<1>9. Combines(h, 1, new, c, r, S) BY <1>5 DEF Combines
<1>10. SumOn(h, S) = 1 * SumOn(new, S) + c * SumOn(r, S) BY <1>1, <1>8, <1>9, SumLinear
<1>11. SumOn(Sizes(d, S), S) <= SumOn(h, S) BY <1>1, <1>7, <1>8, SumMonotone
<1>12. c * total = total * a[2] * m /\ total * a[2] * m \in Nat BY <1>1, <1>2 DEF c
<1>13. SumOn(h, S) = 2 * (total * a[2] * m) BY <1>2, <1>3, <1>10, <1>12
<1>. QED BY <1>11, <1>13 DEF d

\* The next difference is the last one, multiplied with the matrix and damped.
LEMMA NextShift ==
  ASSUME NEW move, NEW jump, NEW a, NEW m, NEW S, Damped(move, jump, a, m, S),
         NEW r, NEW total, Distribution(r, total, S)
  PROVE  LET new == Ranking(r, total, move, jump, a, S)
         IN SumOn(Sizes(Shift(new, total * a[2] * m, move, jump, a, m, S), S), S)
              <= (a[1] * m) * SumOn(Sizes(Shift(r, total, move, jump, a, m, S), S), S)
<1>. DEFINE new == Ranking(r, total, move, jump, a, S)
            unit2 == total * a[2] * m
            d == Shift(r, total, move, jump, a, m, S)
            e == Shift(new, unit2, move, jump, a, m, S)
            t == Times(r, move, S)
            tn == Times(new, move, S)
            td == Times(d, move, S)
            c == a[2] * m
<1>1. /\ IsFiniteSet(S) /\ m \in Nat /\ Stochastic(move, S, m)
      /\ (\A v \in S : jump[v] \in Nat) /\ a[1] \in Nat /\ a[2] \in Nat /\ c \in Nat
  BY DEF Damped
<1>2. (\A v \in S : r[v] \in Nat) /\ total \in Nat BY DEF Distribution
<1>3. Distribution(new, unit2, S) BY RankingSum
<1>4. (\A v \in S : new[v] \in Nat) /\ unit2 \in Nat BY <1>3 DEF Distribution
<1>5. \A v \in S : new[v] = a[1] * t[v] + (a[2] - a[1]) * total * jump[v] BY DEF Ranking
<1>6. \A v \in S : d[v] = new[v] - r[v] * a[2] * m BY DEF Shift
<1>7. \A v \in S : e[v] = (a[1] * tn[v] + (a[2] - a[1]) * unit2 * jump[v]) - new[v] * a[2] * m
  BY DEF Shift, Ranking
<1>8. IntsOn(d, S) BY ShiftInts
<1>9. IntsOn(r, S) /\ IntsOn(new, S)
  <2>. HIDE DEF new
  <2>. QED BY <1>2, <1>4 DEF IntsOn
<1>. HIDE DEF new, d, e, unit2
<1>10. ASSUME NEW v \in S
       PROVE  t[v] \in Int /\ tn[v] \in Int /\ td[v] \in Int /\ td[v] = 1 * tn[v] + (-c) * t[v]
  <2>. DEFINE f == Column(r, move, S, v)
              g == Column(new, move, S, v)
              h == Column(d, move, S, v)
  <2>1. /\ IntsOn(f, S) /\ t[v] = SumOn(f, S) /\ t[v] \in Int
        /\ IntsOn(g, S) /\ tn[v] = SumOn(g, S) /\ tn[v] \in Int
        /\ IntsOn(h, S) /\ td[v] = SumOn(h, S) /\ td[v] \in Int
    BY <1>1, <1>8, <1>9, ColumnInts
  <2>2. ASSUME NEW u \in S PROVE h[u] = 1 * g[u] + (-c) * f[u]
    <3>1. /\ f[u] = r[u] * move[u][v] /\ g[u] = new[u] * move[u][v]
          /\ h[u] = d[u] * move[u][v]
      BY DEF Column
    <3>2. move[u][v] \in Nat BY <1>1 DEF Stochastic
    <3>3. d[u] = new[u] - c * r[u]
      <4>1. r[u] * a[2] * m = c * r[u] BY <1>1, <1>2
      <4>. QED BY <1>6, <4>1
    <3>4. r[u] \in Nat /\ new[u] \in Nat BY <1>2, <1>4
    <3>. HIDE DEF f, g, h, c
    <3>5. \A i, j, k, l \in Int : (i - l * j) * k = 1 * (i * k) + (-l) * (j * k) OBVIOUS
    <3>. QED BY <1>1, <3>1, <3>2, <3>3, <3>4, <3>5
  <2>. HIDE DEF f, g, h, c, t, tn, td
  <2>3. Combines(h, 1, g, -c, f, S) BY <2>2 DEF Combines
  <2>4. -c \in Int BY <1>1
  <2>5. SumOn(h, S) = 1 * SumOn(g, S) + (-c) * SumOn(f, S) BY <1>1, <2>1, <2>3, <2>4, SumLinear
  <2>. QED BY <2>1, <2>5
<1>. HIDE DEF t, tn, td
<1>11. ASSUME NEW v \in S PROVE e[v] = a[1] * td[v]
  <2>. DEFINE x == (a[2] - a[1]) * total
              j == jump[v]
  <2>1. x \in Int /\ j \in Nat /\ t[v] \in Int /\ tn[v] \in Int BY <1>1, <1>2, <1>10
  <2>2. (a[2] - a[1]) * unit2 = x * c BY <1>1, <1>2 DEF unit2
  <2>3. new[v] * a[2] * m = new[v] * c BY <1>1, <1>4
  <2>4. new[v] = a[1] * t[v] + x * j BY <1>5
  <2>5. e[v] = (a[1] * tn[v] + (x * c) * j) - (a[1] * t[v] + x * j) * c
    BY <1>7, <2>2, <2>3, <2>4
  <2>6. td[v] = 1 * tn[v] + (-c) * t[v] BY <1>10
  <2>. HIDE DEF x, j, c
  <2>7. (a[1] * t[v] + x * j) * c = a[1] * (c * t[v]) + (x * c) * j BY <1>1, <2>1
  <2>8. a[1] * (1 * tn[v] + (-c) * t[v]) = a[1] * tn[v] - a[1] * (c * t[v]) BY <1>1, <2>1
  <2>9. a[1] * tn[v] \in Int /\ a[1] * (c * t[v]) \in Int /\ (x * c) * j \in Int
    BY <1>1, <2>1
  <2>. QED BY <2>5, <2>6, <2>7, <2>8, <2>9
<1>12. IntsOn(td, S) BY <1>10 DEF IntsOn
<1>13. ASSUME NEW v \in S PROVE Sizes(e, S)[v] = a[1] * Sizes(td, S)[v]
  <2>1. Sizes(e, S)[v] = Distance1(e[v], 0) /\ Sizes(td, S)[v] = Distance1(td[v], 0)
    BY DEF Sizes
  <2>2. td[v] \in Int BY <1>10
  <2>3. td[v] * a[1] = e[v] BY <1>1, <1>11, <2>2
  <2>4. Distance1(td[v] * a[1], 0) = Distance1(td[v], 0) * a[1] BY <1>1, <2>2, SizeTimes
  <2>5. Distance1(td[v], 0) \in Int BY <2>2 DEF Distance1
  <2>. QED BY <1>1, <2>1, <2>3, <2>4, <2>5
<1>14. IntsOn(Sizes(td, S), S) BY <1>1, <1>12, SumSize DEF IntsOn
<1>15. SumOn(Sizes(e, S), S) = a[1] * SumOn(Sizes(td, S), S) /\ SumOn(Sizes(td, S), S) \in Int
  BY <1>1, <1>13, <1>14, SumTimes
<1>16. SumOn(Sizes(td, S), S) <= m * SumOn(Sizes(d, S), S) BY <1>1, <1>8, TimesSizes DEF td
<1>17. SumOn(Sizes(d, S), S) \in Nat BY <1>1, <1>8, SumSize
<1>18. a[1] * SumOn(Sizes(td, S), S) <= (a[1] * m) * SumOn(Sizes(d, S), S)
  <2>1. \A i \in Nat : \A j, k \in Int : j <= k => i * j <= i * k OBVIOUS
  <2>2. m * SumOn(Sizes(d, S), S) \in Int BY <1>1, <1>17
  <2>3. a[1] * SumOn(Sizes(td, S), S) <= a[1] * (m * SumOn(Sizes(d, S), S))
    BY <1>1, <1>15, <1>16, <2>1, <2>2
  <2>4. a[1] * (m * SumOn(Sizes(d, S), S)) = (a[1] * m) * SumOn(Sizes(d, S), S)
    BY <1>1, <1>17
  <2>. QED BY <2>3, <2>4
<1>. QED BY <1>15, <1>18 DEF e, d, new, unit2

-----------------------------------------------------------------------------
(* Link analysis: the matrix of a graph.                                    *)

GraphOK == members \in SUBSET Nodes /\ IsFiniteSet(members) /\ weight \in [Nodes \X Nodes -> Nat]

Started == members # {} /\ alpha \in Alphas /\ personal \in [members -> {0, 1}]

Moves == [u \in members |-> [v \in members |-> Scaled(Transition(u, v), Scale)]]

Jumps == [v \in members |-> Scaled(Teleport(v), Scale)]

LEMMA OutWeightNat ==
  GraphOK => \A u \in members :
    /\ OutWeight(u) \in Nat /\ OutWeight(u) = SumOn([v \in members |-> weight[<<u, v>>]], members)
    /\ \A v \in members : weight[<<u, v>>] \in Nat
<1>. SUFFICES ASSUME GraphOK, NEW u \in members
              PROVE  /\ OutWeight(u) \in Nat
                     /\ OutWeight(u) = SumOn([v \in members |-> weight[<<u, v>>]], members)
                     /\ \A v \in members : weight[<<u, v>>] \in Nat
  OBVIOUS
<1>. DEFINE f == [v \in members |-> weight[<<u, v>>]]
<1>1. IsFiniteSet(members) /\ \A v \in members : weight[<<u, v>>] \in Nat BY DEF GraphOK
<1>2. \A v \in members : f[v] \in Nat BY <1>1
<1>3. DOMAIN f = members OBVIOUS
<1>4. OutWeight(u) = SumFunction(f) BY DEF OutWeight
<1>. HIDE DEF f
<1>5. OutWeight(u) = SumOn(f, members) BY <1>3, <1>4 DEF SumFunction, SumOn
<1>6. SumOn(f, members) \in Nat BY <1>1, <1>2, SumNat
<1>. QED BY <1>1, <1>5, <1>6 DEF f

LEMMA SizeOfGraph == GraphOK /\ Started => Cardinality(members) \in Nat \ {0}
BY FS_CardinalityType, FS_EmptySet DEF GraphOK, Started

LEMMA PersonalNat ==
  GraphOK /\ Started =>
    /\ SumFunction(personal) = SumOn(personal, members) /\ SumFunction(personal) \in Nat
    /\ \A v \in members : personal[v] \in Nat
<1>. SUFFICES ASSUME GraphOK, Started
              PROVE  /\ SumFunction(personal) = SumOn(personal, members)
                     /\ SumFunction(personal) \in Nat
                     /\ \A v \in members : personal[v] \in Nat
  OBVIOUS
<1>1. IsFiniteSet(members) /\ DOMAIN personal = members /\ \A v \in members : personal[v] \in Nat
  BY DEF GraphOK, Started
<1>2. SumFunction(personal) = SumOn(personal, members) BY <1>1 DEF SumFunction, SumOn
<1>3. SumOn(personal, members) \in Nat BY <1>1, SumNat
<1>. QED BY <1>1, <1>2, <1>3

\* Parts of a whole: both numbers of a pair.
Part(pair) == pair[1] \in Nat /\ pair[2] \in Nat \ {0}

LEMMA Parts ==
  GraphOK /\ Started =>
    /\ \A u, v \in members : Part(Transition(u, v))
    /\ \A v \in members : Part(Teleport(v))
<1>. SUFFICES ASSUME GraphOK, Started
              PROVE  /\ \A u, v \in members : Part(Transition(u, v))
                     /\ \A v \in members : Part(Teleport(v))
  OBVIOUS
<1>1. Cardinality(members) \in Nat \ {0} BY SizeOfGraph
<1>2. ASSUME NEW u \in members, NEW v \in members PROVE Part(Transition(u, v))
  <2>1. OutWeight(u) \in Nat /\ weight[<<u, v>>] \in Nat BY OutWeightNat
  <2>. QED BY <1>1, <2>1 DEF Part, Transition, Dangling, EdgeShare
<1>3. ASSUME NEW v \in members PROVE Part(Teleport(v))
  <2>1. SumFunction(personal) \in Nat /\ personal[v] \in Nat BY PersonalNat
  <2>. QED BY <1>1, <2>1 DEF Part, Teleport
<1>. QED BY <1>2, <1>3

LEMMA FiniteValues ==
  ASSUME NEW S, IsFiniteSet(S), NEW h
  PROVE  IsFiniteSet({h[x] : x \in S})
<1>. DEFINE T == {h[x] : x \in S}
            g == [x \in S |-> h[x]]
<1>1. g \in Surjection(S, T) BY DEF Surjection
<1>. HIDE DEF g, T
<1>2. IsFiniteSet(T) BY <1>1, FS_Surjection
<1>. QED BY <1>2 DEF T

LEMMA ScaleDivides ==
  GraphOK /\ Started =>
    /\ Scale \in Nat \ {0}
    /\ \A u, v \in members : Scale % Transition(u, v)[2] = 0
    /\ \A v \in members : Scale % Teleport(v)[2] = 0
<1>. SUFFICES ASSUME GraphOK, Started
              PROVE  /\ Scale \in Nat \ {0}
                     /\ \A u, v \in members : Scale % Transition(u, v)[2] = 0
                     /\ \A v \in members : Scale % Teleport(v)[2] = 0
  OBVIOUS
<1>. DEFINE A == {Transition(u, v)[2] : u, v \in members}
            B == {Teleport(v)[2] : v \in members}
            D == A \union B
            C == {m \in 1..ProductSet(D) : \A d \in D : m % d = 0}
<1>1. IsFiniteSet(members) BY DEF GraphOK
<1>2. IsFiniteSet(A)
  <2>. DEFINE h == [p \in members \X members |-> Transition(p[1], p[2])[2]]
              I == {h[p] : p \in members \X members}
  <2>1. IsFiniteSet(members \X members) BY <1>1, FS_Product
  <2>2. IsFiniteSet(I)
    <3>1. DOMAIN h = members \X members OBVIOUS
    <3>. HIDE DEF h
    <3>. QED BY <2>1, <3>1, FiniteValues
  <2>3. \A u, v \in members : h[<<u, v>>] = Transition(u, v)[2] OBVIOUS
  <2>4. A \subseteq I
    <3>1. ASSUME NEW u \in members, NEW v \in members PROVE Transition(u, v)[2] \in I
      <4>1. <<u, v>> \in members \X members OBVIOUS
      <4>. HIDE DEF h
      <4>. QED BY <2>3, <4>1
    <3>. HIDE DEF I
    <3>. QED BY <3>1
  <2>. HIDE DEF I, A
  <2>. QED BY <2>2, <2>4, FS_Subset
<1>3. IsFiniteSet(B)
  <2>. DEFINE h == [v \in members |-> Teleport(v)[2]]
              I == {h[v] : v \in members}
  <2>1. IsFiniteSet(I)
    <3>1. DOMAIN h = members OBVIOUS
    <3>. HIDE DEF h
    <3>. QED BY <1>1, <3>1, FiniteValues
  <2>2. B = I OBVIOUS
  <2>. HIDE DEF I, B
  <2>. QED BY <2>1, <2>2
<1>4. IsFiniteSet(D)
  <2>. HIDE DEF A, B
  <2>. QED BY <1>2, <1>3, FS_Union
<1>5. D \in SUBSET (Nat \ {0}) BY Parts DEF Part
<1>6. \A u, v \in members : Transition(u, v)[2] \in D OBVIOUS
<1>7. \A v \in members : Teleport(v)[2] \in D OBVIOUS
<1>8. Scale = Min(C) BY DEF Scale
<1>. HIDE DEF A, B, D
<1>9. ProductSet(D) \in Nat \ {0} /\ \A d \in D : ProductSet(D) % d = 0
  BY <1>4, <1>5, ProductDivides
<1>10. Min(C) \in C
  <2>1. C \subseteq Nat /\ ProductSet(D) \in C BY <1>9
  <2>. HIDE DEF C
  <2>2. PICK k \in C : \A z \in C : ~(<<z, k>> \in OpToRel(<, Nat))
    BY <2>1, WFMin, NatLessThanWellFounded
  <2>3. \A z \in C : ~(z < k) BY <2>1, <2>2 DEF OpToRel
  <2>4. \A z \in C : k <= z BY <2>1, <2>3
  <2>. QED BY <2>4 DEF Min
<1>. QED BY <1>6, <1>7, <1>8, <1>10

LEMMA MovesDamped == GraphOK /\ Started => Damped(Moves, Jumps, alpha, Scale, members)
<1>. SUFFICES ASSUME GraphOK, Started PROVE Damped(Moves, Jumps, alpha, Scale, members)
  OBVIOUS
<1>. DEFINE N == Cardinality(members)
            m == Scale
<1>1. IsFiniteSet(members) BY DEF GraphOK
<1>2. N \in Nat \ {0} BY SizeOfGraph
<1>3. m \in Nat \ {0} BY ScaleDivides
<1>4. \A u, v \in members : Moves[u][v] = Scaled(Transition(u, v), m) BY DEF Moves
<1>5. \A v \in members : Jumps[v] = Scaled(Teleport(v), m) BY DEF Jumps
<1>6. ASSUME NEW u \in members
      PROVE  (\A v \in members : Moves[u][v] \in Nat) /\ SumOn(Moves[u], members) = m
  <2>. DEFINE O == OutWeight(u)
              f == [v \in members |-> weight[<<u, v>>]]
  <2>1. O \in Nat /\ O = SumOn(f, members) /\ \A v \in members : weight[<<u, v>>] \in Nat
    BY OutWeightNat
  <2>1a. \A v \in members : f[v] \in Nat BY <2>1
  <2>2. \A v \in members : m % Transition(u, v)[2] = 0 BY ScaleDivides
  <2>3. CASE O = 0
    <3>. DEFINE c == m \div N
    <3>1. \A v \in members : Transition(u, v) = <<1, N>> BY <2>3 DEF Transition, Dangling
    <3>2. m % N = 0 BY <2>2, <3>1
    <3>3. c \in Nat /\ c * N = m BY <1>2, <1>3, <3>2, DivExact, DivBounds
    <3>4. \A v \in members : Moves[u][v] = 1 * c BY <1>4, <3>1 DEF Scaled
    <3>. HIDE DEF c, N, m
    <3>5. \A v \in members : Moves[u][v] = c BY <3>3, <3>4
    <3>6. SumOn(Moves[u], members) = c * N BY <1>1, <3>3, <3>5, SumConstant DEF N
    <3>. QED BY <3>3, <3>5, <3>6
  <2>4. CASE O # 0
    <3>. DEFINE c == m \div O
    <3>1. \A v \in members : Transition(u, v) = <<f[v], O>>
      BY <2>4 DEF Transition, Dangling, EdgeShare
    <3>2. m % O = 0
      <4>1. Transition(u, u)[2] = O
        <5>1. Transition(u, u) = <<f[u], O>> BY <3>1
        <5>. HIDE DEF f, O
        <5>. QED BY <5>1
      <4>. QED BY <2>2, <4>1
    <3>3. c \in Nat /\ c * O = m BY <1>3, <2>1, <2>4, <3>2, DivExact, DivBounds
    <3>4. \A v \in members : Moves[u][v] = f[v] * c
      <4>1. ASSUME NEW v \in members PROVE Moves[u][v] = f[v] * c
        <5>1. Transition(u, v) = <<f[v], O>> BY <3>1
        <5>2. Moves[u][v] = Scaled(Transition(u, v), m) BY <1>4
        <5>. HIDE DEF f, O, m
        <5>3. Scaled(<<f[v], O>>, m) = f[v] * (m \div O) BY DEF Scaled
        <5>. QED BY <5>1, <5>2, <5>3
      <4>. QED BY <4>1
    <3>. HIDE DEF c, N, m, O, f
    <3>6. \A v \in members : Moves[u][v] = c * f[v] /\ Moves[u][v] \in Nat
      BY <2>1a, <3>3, <3>4
    <3>7. IntsOn(f, members) BY <2>1a DEF IntsOn
    <3>8. SumOn(Moves[u], members) = c * SumOn(f, members)
      BY <1>1, <3>3, <3>6, <3>7, SumTimes
    <3>. QED BY <2>1, <3>3, <3>6, <3>8
  <2>. QED BY <2>3, <2>4
<1>7. (\A v \in members : Jumps[v] \in Nat) /\ SumOn(Jumps, members) = m
  <2>. DEFINE O == SumFunction(personal)
  <2>1. O \in Nat /\ O = SumOn(personal, members) /\ \A v \in members : personal[v] \in Nat
    BY PersonalNat
  <2>2. \A v \in members : m % Teleport(v)[2] = 0 BY ScaleDivides
  <2>3. PICK x : x \in members BY DEF Started
  <2>4. CASE O = 0
    <3>. DEFINE c == m \div N
    <3>1. \A v \in members : Teleport(v) = <<1, N>> BY <2>4 DEF Teleport
    <3>2. m % N = 0 BY <2>2, <2>3, <3>1
    <3>3. c \in Nat /\ c * N = m BY <1>2, <1>3, <3>2, DivExact, DivBounds
    <3>4. \A v \in members : Jumps[v] = 1 * c BY <1>5, <3>1 DEF Scaled
    <3>. HIDE DEF c, N, m
    <3>5. \A v \in members : Jumps[v] = c BY <3>3, <3>4
    <3>6. SumOn(Jumps, members) = c * N BY <1>1, <3>3, <3>5, SumConstant DEF N
    <3>. QED BY <3>3, <3>5, <3>6
  <2>5. CASE O # 0
    <3>. DEFINE c == m \div O
    <3>1. \A v \in members : Teleport(v) = <<personal[v], O>> BY <2>1, <2>5 DEF Teleport
    <3>2. m % O = 0 BY <2>2, <2>3, <3>1
    <3>3. c \in Nat /\ c * O = m BY <1>3, <2>1, <2>5, <3>2, DivExact, DivBounds
    <3>4. \A v \in members : Jumps[v] = personal[v] * c BY <1>5, <3>1 DEF Scaled
    <3>. HIDE DEF c, N, m, O
    <3>5. \A v \in members : Jumps[v] = c * personal[v] /\ Jumps[v] \in Nat
      BY <2>1, <3>3, <3>4
    <3>6. IntsOn(personal, members) BY <2>1 DEF IntsOn
    <3>7. SumOn(Jumps, members) = c * SumOn(personal, members)
      BY <1>1, <3>3, <3>5, <3>6, SumTimes
    <3>. QED BY <2>1, <3>3, <3>5, <3>7
  <2>. QED BY <2>4, <2>5
<1>8. alpha[1] \in Nat /\ alpha[2] \in Nat \ {0} /\ alpha[1] <= alpha[2]
  BY LinkAssumption DEF LinkAssumption, Started
<1>9. Stochastic(Moves, members, m)
  <2>. HIDE DEF m
  <2>. QED BY <1>6 DEF Stochastic
<1>. QED BY <1>1, <1>3, <1>7, <1>8, <1>9 DEF Damped

-----------------------------------------------------------------------------
(* Link analysis: the invariant.                                            *)

Settled ==
  /\ ranks \in [members -> Nat] /\ Distribution(ranks, unit, members)
  /\ iterations \in Nat
  /\ iterations > 0 =>
       change * Power(alpha[2], iterations - 1) <= 2 * unit * Power(alpha[1], iterations - 1)

\* The change that the next iteration would make has shrunk as often as there were iterations.
Upcoming ==
  SumOn(Sizes(Shift(ranks, unit, Moves, Jumps, alpha, Scale, members), members), members)
      * Power(alpha[2], iterations)
    <= 2 * (unit * alpha[2] * Scale) * Power(alpha[1], iterations)

LinkInv ==
  /\ GraphOK
  /\ step = "build" => ranks = <<>>
  /\ step = "iterate" => Started /\ Settled /\ Upcoming
  /\ step = "done" => RanksConverge
  /\ step \in {"build", "iterate", "done"}

LEMMA SettledConverges == Settled => RanksConverge
<1>. SUFFICES ASSUME Settled PROVE RanksConverge
  OBVIOUS
<1>1. DOMAIN ranks = members BY DEF Settled
<1>2. SumFunction(ranks) = SumOn(ranks, members) BY <1>1 DEF SumFunction, SumOn
<1>. QED BY <1>2 DEF Settled, Distribution, RanksConverge

LEMMA UpcomingAtFirst == GraphOK /\ Started /\ Settled /\ iterations = 0 => Upcoming
<1>. SUFFICES ASSUME GraphOK, Started, Settled, iterations = 0 PROVE Upcoming
  OBVIOUS
<1>. DEFINE d == SumOn(Sizes(Shift(ranks, unit, Moves, Jumps, alpha, Scale, members), members),
                       members)
            big == unit * alpha[2] * Scale
<1>1. Damped(Moves, Jumps, alpha, Scale, members) BY MovesDamped
<1>2. Distribution(ranks, unit, members) BY DEF Settled
<1>3. d <= 2 * big BY <1>1, <1>2, FirstShift
<1>4. alpha[1] \in Nat /\ alpha[2] \in Nat /\ IsFiniteSet(members) /\ Scale \in Nat
  BY <1>1 DEF Damped
<1>5. d \in Nat BY <1>1, <1>2, <1>4, ShiftInts, SumSize
<1>6. big \in Nat BY <1>2, <1>4 DEF Distribution
<1>7. Power(alpha[1], iterations) = 1 /\ Power(alpha[2], iterations) = 1 BY <1>4, PowerStep
<1>. HIDE DEF d, big
<1>8. d * 1 <= 2 * big * 1 BY <1>3, <1>5, <1>6
<1>. QED BY <1>7, <1>8 DEF Upcoming, d, big

LEMMA SameGraph ==
  weight' = weight /\ members' = members /\ personal' = personal
    => Moves' = Moves /\ Jumps' = Jumps /\ Scale' = Scale
BY DEF Moves, Jumps, Scale, Scaled, Transition, Dangling, EdgeShare, OutWeight, Teleport

\* What an iteration computes.
LEMMA IterateRanks ==
  GraphOK /\ Started /\ Settled /\ Iterate =>
    /\ ranks' = Ranking(ranks, unit, Moves, Jumps, alpha, members)
    /\ unit' = unit * alpha[2] * Scale
    /\ change' = SumOn(Sizes(Shift(ranks, unit, Moves, Jumps, alpha, Scale, members), members),
                       members)
<1>. SUFFICES ASSUME GraphOK, Started, Settled, Iterate
              PROVE  /\ ranks' = Ranking(ranks, unit, Moves, Jumps, alpha, members)
                     /\ unit' = unit * alpha[2] * Scale
                     /\ change' = SumOn(Sizes(Shift(ranks, unit, Moves, Jumps, alpha, Scale,
                                                    members), members), members)
  OBVIOUS
<1>. DEFINE m == Scale
            new == [v \in members |-> NewRank(v, m)]
            far == [v \in members |-> Distance1(new[v], ranks[v] * alpha[2] * m)]
            ranking == Ranking(ranks, unit, Moves, Jumps, alpha, members)
            d == Shift(ranks, unit, Moves, Jumps, alpha, m, members)
<1>1. ranks' = new /\ unit' = NewUnit(m) /\ change' = SumFunction(far)
  BY Zenon DEF Iterate
<1>2. Damped(Moves, Jumps, alpha, m, members) BY MovesDamped
<1>3. Distribution(ranks, unit, members) BY DEF Settled
<1>4. /\ IsFiniteSet(members) /\ m \in Nat /\ Stochastic(Moves, members, m) /\ alpha[2] \in Nat
  BY <1>2 DEF Damped
<1>5. \A v \in members : ranks[v] \in Nat BY <1>3 DEF Distribution
<1>6. IntsOn(ranks, members) BY <1>5 DEF IntsOn
<1>7. \A u, v \in members : Moves[u][v] = Scaled(Transition(u, v), m) BY DEF Moves
<1>8. \A v \in members : Jumps[v] = Scaled(Teleport(v), m) BY DEF Jumps
<1>9. ASSUME NEW v \in members PROVE NewRank(v, m) = ranking[v]
  <2>. DEFINE f == [u \in members |-> ranks[u] * Scaled(Transition(u, v), m)]
              g == Column(ranks, Moves, members, v)
  <2>1. DOMAIN f = members OBVIOUS
  <2>2. ASSUME NEW u \in members PROVE f[u] = g[u]
    <3>1. f[u] = ranks[u] * Scaled(Transition(u, v), m) /\ g[u] = ranks[u] * Moves[u][v]
      BY DEF Column
    <3>2. Moves[u][v] = Scaled(Transition(u, v), m) BY <1>7
    <3>. HIDE DEF f, g, m
    <3>. QED BY <3>1, <3>2
  <2>3. NewRank(v, m) = alpha[1] * SumFunction(f) + (alpha[2] - alpha[1]) * unit * Jumps[v]
    BY <1>8 DEF NewRank
  <2>4. Times(ranks, Moves, members)[v] = SumOn(g, members) BY DEF Times
  <2>5. ranking[v] = alpha[1] * Times(ranks, Moves, members)[v]
                       + (alpha[2] - alpha[1]) * unit * Jumps[v]
    BY DEF Ranking
  <2>. HIDE DEF f, g, m, ranking
  <2>6. SumFunction(f) = SumOn(f, members) BY <2>1 DEF SumFunction, SumOn
  <2>7. SumOn(f, members) = SumOn(g, members) BY <1>4, <2>2, SumEqual
  <2>. QED BY <2>3, <2>4, <2>5, <2>6, <2>7
<1>10. new = ranking
  <2>1. \A v \in members : new[v] = ranking[v]
    <3>1. \A v \in members : new[v] = NewRank(v, m) OBVIOUS
    <3>. HIDE DEF new, ranking, m
    <3>. QED BY <1>9, <3>1
  <2>2. new = [v \in members |-> new[v]] OBVIOUS
  <2>3. ranking = [v \in members |-> ranking[v]] BY DEF Ranking
  <2>. HIDE DEF new, ranking
  <2>. QED BY <2>1, <2>2, <2>3
<1>11. Distribution(ranking, unit * alpha[2] * m, members) BY <1>2, <1>3, RankingSum
<1>12. \A v \in members : ranking[v] \in Nat BY <1>11 DEF Distribution
<1>13. \A v \in members : far[v] = Distance1(new[v], ranks[v] * alpha[2] * m) OBVIOUS
<1>14. DOMAIN far = members OBVIOUS
<1>15. \A v \in members : d[v] = ranking[v] - ranks[v] * alpha[2] * m BY DEF Shift
<1>16. \A v \in members : Sizes(d, members)[v] = Distance1(d[v], 0) BY DEF Sizes
<1>17. unit' = unit * alpha[2] * m BY <1>1 DEF NewUnit
<1>. HIDE DEF new, far, ranking, d, m
<1>18. \A v \in members : far[v] = Sizes(d, members)[v]
  <2>1. ASSUME NEW v \in members PROVE far[v] = Sizes(d, members)[v]
    <3>1. far[v] = Distance1(ranking[v], ranks[v] * alpha[2] * m) BY <1>10, <1>13
    <3>2. Sizes(d, members)[v] = Distance1(ranking[v] - ranks[v] * alpha[2] * m, 0)
      BY <1>15, <1>16
    <3>3. ranking[v] \in Nat /\ ranks[v] * alpha[2] * m \in Nat BY <1>4, <1>5, <1>12
    <3>4. \A i, j \in Nat : Distance1(i, j) = Distance1(i - j, 0) BY DEF Distance1
    <3>. QED BY <3>1, <3>2, <3>3, <3>4
  <2>. QED BY <2>1
<1>19. SumFunction(far) = SumOn(far, members) BY <1>14 DEF SumFunction, SumOn
<1>20. SumOn(far, members) = SumOn(Sizes(d, members), members) BY <1>4, <1>18, SumEqual
<1>21. change' = SumOn(Sizes(d, members), members) BY <1>1, <1>19, <1>20
<1>. QED BY <1>1, <1>10, <1>17, <1>21 DEF ranking, d, m

LEMMA IterateSettles == LinkInv /\ Iterate => (Started /\ Settled /\ Upcoming)'
<1>. SUFFICES ASSUME LinkInv, Iterate PROVE (Started /\ Settled /\ Upcoming)'
  OBVIOUS
<1>. DEFINE S == members
            m == Scale
            new == Ranking(ranks, unit, Moves, Jumps, alpha, S)
            big == unit * alpha[2] * m
            d == SumOn(Sizes(Shift(ranks, unit, Moves, Jumps, alpha, m, S), S), S)
            e == SumOn(Sizes(Shift(new, big, Moves, Jumps, alpha, m, S), S), S)
            p == Power(alpha[1], iterations)
            q == Power(alpha[2], iterations)
<1>1. GraphOK /\ Started /\ Settled /\ Upcoming BY DEF LinkInv, Iterate
<1>2. /\ iterations' = iterations + 1 /\ members' = members /\ weight' = weight
      /\ alpha' = alpha /\ personal' = personal
  BY DEF Iterate
<1>3. ranks' = new /\ unit' = big /\ change' = d BY <1>1, IterateRanks
<1>4. Moves' = Moves /\ Jumps' = Jumps /\ Scale' = Scale BY <1>2, SameGraph
<1>5. Damped(Moves, Jumps, alpha, m, S) /\ Distribution(ranks, unit, S) /\ iterations \in Nat
  BY <1>1, MovesDamped DEF Settled
<1>6. Distribution(new, big, S) BY <1>5, RankingSum
<1>7. e <= (alpha[1] * m) * d BY <1>5, NextShift
<1>8. /\ IsFiniteSet(S) /\ m \in Nat /\ alpha[1] \in Nat /\ alpha[2] \in Nat
  BY <1>5 DEF Damped
<1>9. d \in Nat /\ e \in Nat BY <1>5, <1>6, <1>8, ShiftInts, SumSize
<1>10. big \in Nat BY <1>6 DEF Distribution
<1>11. p \in Nat /\ q \in Nat BY <1>5, <1>8, PowerNat
<1>12. d * q <= 2 * big * p BY <1>1 DEF Upcoming
<1>13. Power(alpha[1], iterations + 1) = alpha[1] * p /\ Power(alpha[2], iterations + 1) = alpha[2] * q
  BY <1>5, <1>8, PowerStep
<1>14. new \in [members -> Nat]
  <2>1. \A v \in members : new[v] \in Nat BY <1>6 DEF Distribution
  <2>2. new = [v \in members |-> new[v]] BY DEF Ranking
  <2>. HIDE DEF new
  <2>. QED BY <2>1, <2>2
<1>. HIDE DEF new, big, d, e, p, q, m
<1>15. Started' BY <1>1, <1>2 DEF Started
<1>16. Settled'
  <2>1. iterations' \in Nat /\ iterations' - 1 = iterations BY <1>2, <1>5
  <2>3. change' * Power(alpha'[2], iterations' - 1)
          <= 2 * unit' * Power(alpha'[1], iterations' - 1)
    BY <1>2, <1>3, <1>12, <2>1 DEF p, q
  <2>4. Distribution(ranks', unit', members') BY <1>2, <1>3, <1>6
  <2>5. ranks' \in [members' -> Nat] BY <1>2, <1>3, <1>14
  <2>. QED BY <2>1, <2>3, <2>4, <2>5 DEF Settled
<1>17. e * (alpha[2] * q) <= 2 * (big * alpha[2] * m) * (alpha[1] * p)
  <2>. DEFINE k == alpha[1] * m * alpha[2]
  <2>1. k \in Nat /\ (alpha[1] * m) * d \in Nat /\ alpha[2] * q \in Nat /\ d * q \in Nat
        /\ 2 * big * p \in Nat
    BY <1>8, <1>9, <1>10, <1>11
  <2>2. \A i, j, l \in Nat : i <= j => i * l <= j * l /\ l * i <= l * j OBVIOUS
  <2>3. e * (alpha[2] * q) <= ((alpha[1] * m) * d) * (alpha[2] * q)
    BY <1>7, <1>9, <2>1, <2>2
  <2>4. ((alpha[1] * m) * d) * (alpha[2] * q) = k * (d * q) BY <1>8, <1>9, <1>11
  <2>5. k * (d * q) <= k * (2 * big * p) BY <1>12, <2>1, <2>2
  <2>6. k * (2 * big * p) = 2 * (big * alpha[2] * m) * (alpha[1] * p)
    BY <1>8, <1>10, <1>11
  <2>7. e * (alpha[2] * q) \in Nat /\ k * (d * q) \in Nat /\ k * (2 * big * p) \in Nat
    BY <1>9, <2>1
  <2>. HIDE DEF k
  <2>. QED BY <2>3, <2>4, <2>5, <2>6, <2>7
<1>18. Upcoming'
  <2>1. SumOn(Sizes(Shift(ranks', unit', Moves', Jumps', alpha', Scale', members'), members'),
              members') = e
    BY <1>2, <1>3, <1>4 DEF e, m
  <2>2. Power(alpha'[2], iterations') = alpha[2] * q /\ Power(alpha'[1], iterations') = alpha[1] * p
    BY <1>2, <1>13
  <2>3. unit' * alpha'[2] * Scale' = big * alpha[2] * m BY <1>2, <1>3, <1>4 DEF m
  <2>. QED BY <1>17, <2>1, <2>2, <2>3 DEF Upcoming
<1>. QED BY <1>15, <1>16, <1>18

LEMMA StartSettles ==
  ASSUME LinkInv, NEW n \in TopNs, NEW a \in Alphas, NEW top \in TopNodes(n),
         NEW p \in [top -> {0, 1}], StartRanking(top, a, p)
  PROVE  (GraphOK /\ Started /\ Settled /\ Upcoming)'
<1>1. GraphOK BY DEF LinkInv
<1>2. top \in SUBSET members /\ Cardinality(top) \in Nat \ {0} /\ IsFiniteSet(top) /\ top # {}
  <2>1. members # {} /\ IsFiniteSet(members) BY <1>1 DEF StartRanking, GraphOK
  <2>2. n \in Nat \ {0} BY LinkAssumption DEF LinkAssumption
  <2>3. top \in SUBSET members /\ (top = members \/ Cardinality(top) = n)
    BY DEF TopNodes, kSubset
  <2>4. IsFiniteSet(top) BY <2>1, <2>3, FS_Subset
  <2>. QED BY <2>1, <2>2, <2>3, <2>4, FS_CardinalityType, FS_EmptySet
<1>3. /\ members' = top /\ alpha' = a /\ personal' = p /\ weight' = weight
      /\ ranks' = [v \in top |-> 1] /\ unit' = Cardinality(top) /\ iterations' = 0
  BY DEF StartRanking
<1>4. GraphOK' BY <1>1, <1>2, <1>3 DEF GraphOK
<1>5. Started' BY <1>2, <1>3 DEF Started
<1>6. Settled'
  <2>. DEFINE f == [v \in top |-> 1]
  <2>1. f \in [top -> Nat] /\ \A v \in top : f[v] = 1 OBVIOUS
  <2>. HIDE DEF f
  <2>2. SumOn(f, top) = 1 * Cardinality(top) BY <1>2, <2>1, SumConstant
  <2>3. Distribution(f, Cardinality(top), top) BY <1>2, <2>1, <2>2 DEF Distribution
  <2>4. ranks' = f BY <1>3 DEF f
  <2>. QED BY <1>3, <2>1, <2>3, <2>4 DEF Settled
<1>7. (GraphOK /\ Started /\ Settled /\ iterations = 0 => Upcoming)' BY UpcomingAtFirst, PTL
<1>. QED BY <1>3, <1>4, <1>5, <1>6, <1>7

LEMMA LinkSteps == LinkInv /\ [LinkNext]_linkVars => LinkInv'
<1>. SUFFICES ASSUME LinkInv, [LinkNext]_linkVars PROVE LinkInv'
  OBVIOUS
<1>1. ASSUME NEW u \in Nodes, NEW v \in Nodes, NEW packets \in Weights, AddRow(u, v, packets)
      PROVE  LinkInv'
  <2>1. /\ step = "build" /\ step' = step /\ ranks' = ranks
        /\ weight' = [weight EXCEPT ![<<u, v>>] = @ + packets]
        /\ members' = members \union {u, v}
    BY <1>1 DEF AddRow
  <2>2. packets \in Nat BY LinkAssumption DEF LinkAssumption
  <2>3. GraphOK'
    <3>1. IsFiniteSet(members \union {u, v})
      <4>1. IsFiniteSet(members \union {u})
        BY FS_AddElement DEF LinkInv, GraphOK
      <4>2. IsFiniteSet((members \union {u}) \union {v}) BY <4>1, FS_AddElement
      <4>3. members \union {u, v} = (members \union {u}) \union {v} OBVIOUS
      <4>. QED BY <4>2, <4>3
    <3>2. weight' \in [Nodes \X Nodes -> Nat] BY <2>1, <2>2 DEF LinkInv, GraphOK
    <3>. QED BY <2>1, <3>1, <3>2 DEF LinkInv, GraphOK
  <2>. QED BY <2>1, <2>3 DEF LinkInv
<1>2. ASSUME NEW n \in TopNs, NEW a \in Alphas, NEW top \in TopNodes(n),
             NEW p \in [top -> {0, 1}], StartRanking(top, a, p)
      PROVE  LinkInv'
  <2>1. (GraphOK /\ Started /\ Settled /\ Upcoming)' BY <1>2, StartSettles
  <2>2. step' = "iterate" BY <1>2 DEF StartRanking
  <2>. QED BY <2>1, <2>2 DEF LinkInv
<1>3. CASE Iterate
  <2>1. (Started /\ Settled /\ Upcoming)' BY <1>3, IterateSettles
  <2>2. step' = "iterate" /\ members' = members /\ weight' = weight BY <1>3 DEF Iterate
  <2>. QED BY <2>1, <2>2 DEF LinkInv, GraphOK
<1>4. CASE Return
  <2>1. /\ step = "iterate" /\ step' = "done" /\ (ranks' = <<>> \/ ranks' = ranks)
        /\ UNCHANGED <<weight, members, alpha, unit, iterations, change>>
    BY <1>4 DEF Return
  <2>2. GraphOK /\ Settled BY <2>1 DEF LinkInv
  <2>3. RanksConverge BY <2>2, SettledConverges
  <2>4. RanksConverge' BY <2>1, <2>3 DEF RanksConverge
  <2>5. GraphOK' BY <2>1, <2>2 DEF GraphOK
  <2>. QED BY <2>1, <2>4, <2>5 DEF LinkInv
<1>5. CASE UNCHANGED linkVars
  <2>1. UNCHANGED <<step, weight, members, alpha, personal, ranks, unit, iterations, change>>
    BY <1>5 DEF linkVars
  <2>2. Moves' = Moves /\ Jumps' = Jumps /\ Scale' = Scale BY <2>1, SameGraph
  <2>3. GraphOK' <=> GraphOK BY <2>1 DEF GraphOK
  <2>4. Started' <=> Started BY <2>1 DEF Started
  <2>5. Settled' <=> Settled BY <2>1 DEF Settled
  <2>6. Upcoming' <=> Upcoming BY <2>1, <2>2 DEF Upcoming
  <2>7. RanksConverge' <=> RanksConverge BY <2>1 DEF RanksConverge
  <2>. QED BY <2>1, <2>3, <2>4, <2>5, <2>6, <2>7 DEF LinkInv
<1>. QED BY <1>1, <1>2, <1>3, <1>4, <1>5 DEF LinkNext

(* In every iteration of the link analysis the ranks are a distribution, so *)
(* that none leaks through a node without out-edges, and the t-th change is  *)
(* at most 2 * alpha^(t-1): with a damping below one the loops of            *)
(* pagerank.py and markov.py converge on every graph and personalisation.    *)
THEOREM RanksStay == LinkSpec => []RanksConverge
<1>1. LinkInit => LinkInv
  <2>. SUFFICES ASSUME LinkInit PROVE LinkInv
    OBVIOUS
  <2>1. /\ step = "build" /\ members = {} /\ ranks = <<>>
        /\ weight = [e \in Nodes \X Nodes |-> 0]
    BY DEF LinkInit
  <2>2. GraphOK BY <2>1, FS_EmptySet DEF GraphOK
  <2>. QED BY <2>1, <2>2 DEF LinkInv
<1>2. LinkInv /\ [LinkNext]_linkVars => LinkInv' BY LinkSteps
<1>3. LinkInv => RanksConverge BY SettledConverges DEF LinkInv, RanksConverge
<1>. QED BY <1>1, <1>2, <1>3, PTL DEF LinkSpec
=============================================================================

------------------------------ MODULE Itemsets ------------------------------
(***************************************************************************)
(* The frequent itemset algorithms of streaming/analytics/itemsets.py on a *)
(* list of baskets: A-Priori, Park-Chen-Yu with a hash function from pairs *)
(* to buckets, and the brute-force baseline.  The baskets are a function   *)
(* to sets of items, with the list positions or the buffer keys as domain. *)
(* An algorithm returns a function from the frequent itemsets (of one or   *)
(* two items, as sets) to their support counts.                            *)
(***************************************************************************)
EXTENDS Integers, FiniteSets

CONSTANT Items
ASSUME ItemsAssumption == IsFiniteSet(Items)

Pairs(S) == {{x[1], x[2]} : x \in {y \in S \X S : y[1] # y[2]}}
Singletons(S) == {{x} : x \in S}

\* Where the baskets that hold all items of s are.
Holding(baskets, s) == {i \in DOMAIN baskets : s \subseteq baskets[i]}
Support(baskets, s) == Cardinality(Holding(baskets, s))

\* max(1, ceil(ratio * n)) for the ratio num / den.
MinSupportCount(num, den, n) ==
  LET c == -((-num * n) \div den) IN IF c > 1 THEN c ELSE 1

FrequentItems(baskets, m) == {x \in Items : Support(baskets, {x}) >= m}

\* Pass 2: what a candidate pair is counted to be, when every basket is first
\* reduced to its frequent items f1.
PairCount(baskets, f1, p) ==
  Cardinality({i \in DOMAIN baskets : p \subseteq baskets[i] \intersect f1})

FrequentCandidates(baskets, candidates, f1, m) ==
  {p \in candidates : PairCount(baskets, f1, p) >= m}

Counted(baskets, f1, pairs) ==
  [s \in Singletons(f1) \union pairs |->
     IF s \in Singletons(f1) THEN Support(baskets, s) ELSE PairCount(baskets, f1, s)]

Apriori(baskets, m) ==
  LET f1 == FrequentItems(baskets, m)
  IN Counted(baskets, f1, FrequentCandidates(baskets, Pairs(f1), f1, m))

\* Pass 1 of PCY: every pair of every basket falls into the bucket of its hash.
BucketEntries(baskets, hash, bucket) ==
  {e \in (DOMAIN baskets) \X Pairs(Items) :
     e[2] \subseteq baskets[e[1]] /\ hash[e[2]] = bucket}

BucketCount(baskets, hash, bucket) == Cardinality(BucketEntries(baskets, hash, bucket))

\* Variant: a bucket is frequent only above the threshold.
PcyCandidatesAbove(baskets, hash, f1, m) ==
  {p \in Pairs(f1) : BucketCount(baskets, hash, hash[p]) > m}

PcyCandidates(baskets, hash, f1, m) ==
  {p \in Pairs(f1) : BucketCount(baskets, hash, hash[p]) >= m}

Pcy(baskets, hash, m) ==
  LET f1 == FrequentItems(baskets, m)
  IN Counted(baskets, f1,
       FrequentCandidates(baskets, PcyCandidates(baskets, hash, f1, m), f1, m))

BruteForce(baskets, m) ==
  [s \in {t \in Singletons(Items) \union Pairs(Items) : Support(baskets, t) >= m} |->
     Support(baskets, s)]
=============================================================================

-------------------------- MODULE MCItemsetBuffer --------------------------
(* ItemsetBuffer with one or two items of one source and slice in a batch. *)
EXTENDS ItemsetBuffer, TLC

\* A batch is cut from what one source sent in this second or the last.
MCBatches ==
  [t \in 0..MaxNow |->
     {[src : {s}, slice : {c}, item : I] :
        s \in Sources, c \in {t, t - 1} \intersect (0..MaxNow),
        I \in Singletons(Items) \union Pairs(Items)}]

\* Hashes into two buckets, up to the names of the buckets: at most one pair
\* does not collide with the others.
MCHashes ==
  {h \in [Pairs(Items) -> {0, 1}] : Cardinality({p \in Pairs(Items) : h[p] = 1}) <= 1}

MCSymmetry == Permutations(Sources) \union Permutations(Items)
=============================================================================

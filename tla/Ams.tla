-------------------------------- MODULE Ams --------------------------------
(***************************************************************************)
(* The second moment of one window in streaming/analytics/moments.py: the  *)
(* exact counter of destinations and one AMS estimator next to it, both    *)
(* saved to one file after a batch and read from it by the next process.   *)
(* An estimator tracks the item of a random position and counts it from    *)
(* there on.  Instead of one estimator the model keeps all of them:        *)
(* tracking[<<x, r>>] is the number of equally likely sequences of draws   *)
(* after which x is tracked with the count r.                              *)
(***************************************************************************)
EXTENDS Integers, Sequences, SequencesExt

CONSTANTS Destinations,
          AmsBatch,      \* bound on the items of a batch
          AmsSeen        \* bound on the items of the window

ASSUME AmsAssumption == IsFiniteSet(Destinations) /\ AmsBatch \in Nat /\ AmsSeen \in Nat

VARIABLES amsState,   \* window_exact, n and the outcomes of window_ams
          amsFile     \* moments_state.json

amsVars == <<amsState, amsFile>>

NoItem == "none"

Fresh == [count |-> [x \in Destinations |-> 0], n |-> 0, tracking |-> [o \in {<<NoItem, 0>>} |-> 1]]

AmsInit == amsState = Fresh /\ amsFile = Fresh

\* What the item x does to an estimator that does not choose it.
Followed(o, x) == IF o[1] = x THEN <<x, o[2] + 1>> ELSE o

\* Variant: the newest position is chosen with the chance 1 in n + 1 from the second on.
TrackedShort(dist, n, x) ==
  LET keeps == IF n = 1 THEN 0 ELSE n
      next == {Followed(o, x) : o \in DOMAIN dist} \union {<<x, 1>>}
  IN [t \in {o \in next : keeps > 0 \/ o = <<x, 1>>} |->
       keeps * SumFunction([o \in DOMAIN dist |-> IF Followed(o, x) = t THEN dist[o] ELSE 0])
         + (IF t = <<x, 1>> THEN SumFunction(dist) ELSE 0)]

\* AMSF2.add for one estimator: of n draws one chooses x and the others keep.
Tracked(dist, n, x) ==
  LET next == {Followed(o, x) : o \in DOMAIN dist} \union {<<x, 1>>}
  IN [t \in {o \in next : n > 1 \/ o = <<x, 1>>} |->
       (n - 1) * SumFunction([o \in DOMAIN dist |-> IF Followed(o, x) = t THEN dist[o] ELSE 0])
         + (IF t = <<x, 1>> THEN SumFunction(dist) ELSE 0)]

\* One item for the exact counter and for the estimator.
AddItem(s, x) ==
  [count |-> [s.count EXCEPT ![x] = @ + 1], n |-> s.n + 1,
   tracking |-> Tracked(s.tracking, s.n + 1, x)]

\* process_batch on the items of a batch; writing the file may fail.
CountItems(batch) ==
  LET added[i \in 0..Len(batch)] ==
        IF i = 0 THEN amsState ELSE AddItem(added[i - 1], batch[i])
  IN /\ amsState.n + Len(batch) <= AmsSeen
     /\ amsState' = added[Len(batch)]
     /\ amsFile' \in {amsState', amsFile}

\* The window leaves the newest 60; late items of it start it anew.
EvictWindow ==
  /\ amsState' = Fresh /\ amsFile' \in {Fresh, amsFile}

\* _restore_state in a new process.
AmsRestart == amsState' = amsFile /\ UNCHANGED amsFile

AmsNext ==
  \/ \E batch \in BoundedSeq(Destinations, AmsBatch) : batch # <<>> /\ CountItems(batch)
  \/ EvictWindow \/ AmsRestart

AmsSpec == AmsInit /\ [][AmsNext]_amsVars

-----------------------------------------------------------------------------
\* n * (2 r - 1)
Estimator(s, o) == s.n * (2 * o[2] - 1)

\* On average an estimator gives the exact second moment that is stored beside it,
\* however the items come and are cut into batches, and also when a restart takes both
\* back to an older file (moments.py 120-133, 236-268).
AmsUnbiased ==
  amsState.n > 0 =>
    SumFunction([o \in DOMAIN amsState.tracking |->
                   amsState.tracking[o] * Estimator(amsState, o)])
      = SumFunction(amsState.tracking)
          * SumFunction([x \in Destinations |-> amsState.count[x] * amsState.count[x]])
=============================================================================

---------------------------- MODULE LaneBProofs ----------------------------
(* The distinct estimates of the fm plugin in the table: never too large,   *)
(* final before their sketch is dropped, and falling only after a sketch    *)
(* was lost; for every stream, every cap, any number of windows kept, and   *)
(* through replayed batches, failed upserts and restarts.                   *)
EXTENDS LaneB, FiniteSetTheorems, TLAPS

Sketches == [Windows -> SUBSET Keys]

Types ==
  /\ batch \subseteq delivered /\ delivered \subseteq Records
  /\ waiting \subseteq Records /\ life \in Nat
  /\ fmMem \in Sketches /\ fmDb \in [Windows -> Nat]

\* A sketch holds keys its window was given.
SketchesDelivered == \A w \in Windows : fmMem[w] \subseteq KeysIn(delivered, w)

\* Short of a loss the table is behind the sketch, never ahead of it.
TableBehindSketch == \A w \in Windows \ lost : fmDb[w] <= Cardinality(fmMem[w])

IInv == Types /\ SketchesDelivered /\ TableBehindSketch /\ FmNeverOver

-----------------------------------------------------------------------------
LEMMA SketchFinite ==
  ASSUME NEW S \in SUBSET Keys
  PROVE  IsFiniteSet(S) /\ Cardinality(S) \in Nat
BY RecordsAssumption, FS_Subset, FS_CardinalityType

LEMMA SketchMonotone ==
  ASSUME NEW S \in SUBSET Keys, NEW T \in SUBSET S
  PROVE  Cardinality(T) <= Cardinality(S)
BY SketchFinite, FS_Subset

LEMMA KeysInKeys ==
  ASSUME NEW rows \in SUBSET Records, NEW w
  PROVE  KeysIn(rows, w) \in SUBSET Keys
BY RecordsAssumption DEF KeysIn

LEMMA KeysInMonotone ==
  ASSUME NEW a, NEW b \in SUBSET a, NEW w
  PROVE  KeysIn(b, w) \subseteq KeysIn(a, w)
BY DEF KeysIn

LEMMA CappedSubset ==
  ASSUME NEW b, NEW rows \in Capped(b)
  PROVE  rows \subseteq b
BY DEF Capped, kSubset

\* A batch adds keys of its own to every sketch.
LEMMA SketchedGrows ==
  ASSUME Types, SketchesDelivered, NEW rows \in SUBSET batch
  PROVE  /\ Sketched(rows) \in Sketches
         /\ \A w \in Windows : /\ fmMem[w] \subseteq Sketched(rows)[w]
                               /\ Sketched(rows)[w] \subseteq KeysIn(delivered, w)
<1>1. \A w \in Windows : Sketched(rows)[w] = fmMem[w] \union KeysIn(rows, w)
  BY DEF Sketched, KeysIn
<1>2. \A w \in Windows : KeysIn(rows, w) \subseteq KeysIn(delivered, w)
  BY KeysInMonotone DEF Types
<1>3. rows \subseteq Records BY DEF Types
<1>4. \A w \in Windows : KeysIn(rows, w) \subseteq Keys BY <1>3, KeysInKeys
<1>5. Sketched(rows) = [w \in Windows |-> fmMem[w] \union KeysIn(rows, w)]
  BY DEF Sketched, KeysIn
<1>6. Sketched(rows) \in Sketches BY <1>4, <1>5 DEF Sketches, Types
<1>. QED BY <1>1, <1>2, <1>6 DEF SketchesDelivered

\* The table after the upsert of the sketches sk.
LEMMA StoredValue ==
  ASSUME Types, NEW sk \in Sketches
  PROVE  /\ Stored(sk) \in [Windows -> Nat]
         /\ \A w \in Windows :
              Stored(sk)[w] = IF sk[w] # {} THEN Cardinality(sk[w]) ELSE fmDb[w]
<1>1. \A w \in Windows : Cardinality(sk[w]) \in Nat BY SketchFinite DEF Sketches
<1>. QED BY <1>1 DEF Stored, Estimate, Types

LEMMA ExpiredValue ==
  ASSUME NEW sk \in Sketches
  PROVE  /\ Expired(sk) \in Sketches
         /\ \A w \in Windows : Expired(sk)[w] = sk[w] \/ Expired(sk)[w] = {}
<1>. DEFINE old == Evicted(Holding(sk), FmKeep)
<1>1. Expired(sk) = [w \in Windows |-> IF w \in old THEN {} ELSE sk[w]] BY DEF Expired
<1>. HIDE DEF old
<1>. QED BY <1>1 DEF Sketches

-----------------------------------------------------------------------------
\* The three outcomes of a call of fm for its part of the state.
LEMMA SketchRowsKeeps ==
  ASSUME IInv, NEW rows \in SUBSET batch, SketchRows(rows), UNCHANGED control
  PROVE  IInv'
<1>. DEFINE sk == Sketched(rows)
<1>. USE DEF IInv
<1>1. /\ sk \in Sketches
      /\ \A w \in Windows : fmMem[w] \subseteq sk[w] /\ sk[w] \subseteq KeysIn(delivered, w)
  BY SketchedGrows
<1>2. UNCHANGED <<batch, delivered, waiting, life>> BY DEF control
<1>3. \A w \in Windows : Cardinality(sk[w]) \in Nat /\ Cardinality(fmMem[w]) \in Nat
  BY <1>1, SketchFinite DEF Sketches, Types
<1>4. \A w \in Windows : Cardinality(fmMem[w]) <= Cardinality(sk[w])
  BY <1>1, SketchMonotone DEF Sketches
<1>5. \A w \in Windows : KeysIn(delivered, w) \in SUBSET Keys
  BY KeysInKeys DEF Types
<1>6. \A w \in Windows : Cardinality(sk[w]) <= Cardinality(KeysIn(delivered, w))
  BY <1>1, <1>5, SketchMonotone
<1>7. CASE /\ fmDb' = Stored(sk) /\ fmMem' = Expired(sk)
           /\ lost' = lost \union (Holding(sk) \ Holding(fmMem'))
  <2>1. /\ fmDb' \in [Windows -> Nat]
        /\ \A w \in Windows : fmDb'[w] = IF sk[w] # {} THEN Cardinality(sk[w]) ELSE fmDb[w]
    BY <1>1, <1>7, StoredValue
  <2>2. /\ fmMem' \in Sketches
        /\ \A w \in Windows : fmMem'[w] = sk[w] \/ fmMem'[w] = {}
    BY <1>1, <1>7, ExpiredValue
  <2>. HIDE DEF sk
  <2>3. Types' BY <1>2, <2>1, <2>2 DEF Types
  <2>4. SketchesDelivered' BY <1>1, <1>2, <2>2 DEF SketchesDelivered, KeysIn
  <2>5. FmNeverOver'
    BY <1>2, <1>6, <2>1 DEF FmNeverOver, KeysIn
  <2>6. ASSUME NEW w \in Windows, w \notin lost' PROVE fmDb'[w] <= Cardinality(fmMem'[w])
    <3>1. w \notin lost /\ (sk[w] # {} => fmMem'[w] # {})
      BY <1>7, <2>6 DEF Holding
    <3>2. fmMem'[w] = sk[w] BY <2>2, <3>1
    <3>3. CASE sk[w] # {} BY <2>1, <3>2, <3>3, <1>3
    <3>4. CASE sk[w] = {}
      <4>1. fmMem[w] = {} BY <1>1, <3>4
      <4>. QED BY <2>1, <3>1, <3>2, <3>4, <4>1 DEF TableBehindSketch
    <3>. QED BY <3>3, <3>4
  <2>. QED BY <2>3, <2>4, <2>5, <2>6 DEF TableBehindSketch
<1>8. CASE fmMem' = sk /\ UNCHANGED <<fmDb, lost>>
  <2>. HIDE DEF sk
  <2>1. Types' BY <1>1, <1>2, <1>8 DEF Types
  <2>2. SketchesDelivered' BY <1>1, <1>2, <1>8 DEF SketchesDelivered, KeysIn
  <2>3. FmNeverOver' BY <1>2, <1>8 DEF FmNeverOver, KeysIn
  <2>4. TableBehindSketch' BY <1>3, <1>4, <1>8 DEF TableBehindSketch, Types
  <2>. QED BY <2>1, <2>2, <2>3, <2>4
<1>. QED BY <1>7, <1>8 DEF SketchRows

LEMMA FmUntouched ==
  ASSUME IInv, UNCHANGED <<batch, delivered, waiting, life, fmMem, fmDb, lost>>
  PROVE  IInv'
BY DEF IInv, Types, SketchesDelivered, TableBehindSketch, FmNeverOver, KeysIn

LEMMA RunFmKeeps == IInv /\ RunFm => IInv'
<1>. SUFFICES ASSUME IInv, RunFm PROVE IInv'
  OBVIOUS
<1>1. UNCHANGED control BY DEF RunFm
<1>2. PICK rows \in Capped(batch) :
        IF rows = {} THEN UNCHANGED <<fm, errors>> ELSE SketchRows(rows)
  BY DEF RunFm
<1>3. rows \in SUBSET batch BY CappedSubset
<1>4. CASE rows = {} BY <1>1, <1>2, <1>4, FmUntouched DEF control, fm
<1>5. CASE rows # {} BY <1>1, <1>2, <1>3, <1>5, SketchRowsKeeps
<1>. QED BY <1>4, <1>5

\* What is delivered only grows, and with it the bound.
LEMMA PlanKeeps == IInv /\ Plan => IInv'
<1>. SUFFICES ASSUME IInv, Plan PROVE IInv'
  OBVIOUS
<1>. USE DEF IInv
<1>1. /\ batch' \subseteq waiting /\ waiting' \subseteq waiting
      /\ delivered' = delivered \union batch'
      /\ UNCHANGED <<life, fmMem, fmDb, lost>>
  BY DEF Plan, fm
<1>2. Types' BY <1>1 DEF Types
<1>3. \A w \in Windows : KeysIn(delivered, w) \subseteq KeysIn(delivered', w)
  BY <1>1, KeysInMonotone
<1>4. \A w \in Windows : KeysIn(delivered', w) \in SUBSET Keys
  BY <1>2, KeysInKeys DEF Types
<1>5. \A w \in Windows : /\ Cardinality(KeysIn(delivered, w)) \in Nat
                         /\ Cardinality(KeysIn(delivered', w)) \in Nat
  BY <1>3, <1>4, SketchFinite
<1>6. \A w \in Windows :
        Cardinality(KeysIn(delivered, w)) <= Cardinality(KeysIn(delivered', w))
  BY <1>3, <1>4, SketchMonotone
<1>7. \A w \in Windows : KeysIn(delivered, w)' = KeysIn(delivered', w) BY DEF KeysIn
<1>8. SketchesDelivered' BY <1>1, <1>3, <1>7 DEF SketchesDelivered
<1>9. FmNeverOver'
  <2>1. SUFFICES ASSUME NEW w \in Windows
                 PROVE  fmDb'[w] <= Cardinality(KeysIn(delivered', w))
    BY <1>7 DEF FmNeverOver
  <2>2. fmDb[w] \in Nat /\ fmDb[w] <= Cardinality(KeysIn(delivered, w))
    BY DEF FmNeverOver, Types
  <2>. DEFINE before == Cardinality(KeysIn(delivered, w))
              after == Cardinality(KeysIn(delivered', w))
  <2>3. before \in Nat /\ after \in Nat /\ before <= after BY <1>5, <1>6
  <2>4. fmDb'[w] = fmDb[w] BY <1>1
  <2>5. fmDb[w] <= before BY <2>2
  <2>. HIDE DEF before, after
  <2>6. fmDb'[w] <= after BY <2>2, <2>3, <2>4, <2>5
  <2>. QED BY <2>6 DEF after
<1>10. TableBehindSketch' BY <1>1 DEF TableBehindSketch
<1>. QED BY <1>2, <1>8, <1>9, <1>10

LEMMA RestartKeeps == IInv /\ Restart => IInv'
<1>. SUFFICES ASSUME IInv, Restart PROVE IInv'
  OBVIOUS
<1>. USE DEF IInv
<1>1. /\ fmMem' = [w \in Windows |-> {}] /\ lost' = lost \union Holding(fmMem)
      /\ life' = life + 1 /\ UNCHANGED <<batch, delivered, waiting, fmDb>>
  BY DEF Restart
<1>2. Types' BY <1>1 DEF Types, Sketches
<1>3. SketchesDelivered' BY <1>1 DEF SketchesDelivered
<1>4. FmNeverOver' BY <1>1 DEF FmNeverOver, KeysIn
<1>5. TableBehindSketch'
  <2>1. \A w \in Windows : w \notin lost' => w \notin lost /\ fmMem[w] = fmMem'[w]
    BY <1>1 DEF Holding
  <2>. QED BY <2>1, <1>1 DEF TableBehindSketch
<1>. QED BY <1>2, <1>3, <1>4, <1>5

LEMMA InitIInv == Init => IInv
<1>. SUFFICES ASSUME Init PROVE IInv
  OBVIOUS
<1>1. /\ waiting = Records /\ batch = {} /\ delivered = {} /\ life = 1
      /\ fmMem = [w \in Windows |-> {}] /\ fmDb = [w \in Windows |-> 0]
  BY DEF Init
<1>2. Types BY <1>1 DEF Types, Sketches
<1>3. \A w : KeysIn(delivered, w) = {} BY <1>1 DEF KeysIn
<1>. QED BY <1>1, <1>2, <1>3, FS_EmptySet
     DEF IInv, SketchesDelivered, TableBehindSketch, FmNeverOver

LEMMA NextIInv == IInv /\ [Next]_vars => IInv'
<1>. SUFFICES ASSUME IInv, [Next]_vars PROVE IInv'
  OBVIOUS
<1>1. CASE Plan BY <1>1, PlanKeeps
<1>2. CASE RunMoments BY <1>2, FmUntouched DEF RunMoments, control, fm
<1>3. CASE RunFm BY <1>3, RunFmKeeps
<1>4. CASE WriteHealth BY <1>4, FmUntouched DEF WriteHealth, control, fm
<1>5. CASE HealthFails BY <1>5, FmUntouched DEF HealthFails, control, fm
<1>6. CASE Commit
  BY <1>6 DEF Commit, fm, IInv, Types, SketchesDelivered, TableBehindSketch, FmNeverOver, KeysIn
<1>7. CASE Restart BY <1>7, RestartKeeps
<1>8. CASE UNCHANGED vars BY <1>8, FmUntouched DEF vars, control, fm
<1>. QED BY <1>1, <1>2, <1>3, <1>4, <1>5, <1>6, <1>7, <1>8 DEF Next, Dispatch

-----------------------------------------------------------------------------
\* However often a batch is replayed, the distinct estimate of a window never counts a
\* key it was not given or counts one twice (fm.py 242-262).
THEOREM NeverOver == Spec => []FmNeverOver
<1>1. IInv => FmNeverOver BY DEF IInv
<1>. QED BY <1>1, InitIInv, NextIInv, PTL DEF Spec

\* The two action properties hold of a call of fm.
LEMMA SketchRowsSafe ==
  ASSUME IInv, NEW rows \in SUBSET batch, SketchRows(rows), NEW w \in Windows
  PROVE  /\ fmMem[w] # {} /\ fmMem'[w] = {} => fmDb'[w] >= Cardinality(fmMem[w])
         /\ fmDb'[w] < fmDb[w] => w \in lost
<1>. DEFINE sk == Sketched(rows)
<1>. USE DEF IInv
<1>1. sk \in Sketches /\ fmMem[w] \subseteq sk[w] BY SketchedGrows
<1>2. Cardinality(sk[w]) \in Nat /\ Cardinality(fmMem[w]) \in Nat
  BY <1>1, SketchFinite DEF Sketches, Types
<1>3. Cardinality(fmMem[w]) <= Cardinality(sk[w])
  BY <1>1, SketchMonotone DEF Sketches
<1>4. fmDb[w] \in Nat /\ (w \notin lost => fmDb[w] <= Cardinality(fmMem[w]))
  BY DEF Types, TableBehindSketch
<1>5. CASE fmDb' = Stored(sk)
  <2>1. fmDb'[w] = IF sk[w] # {} THEN Cardinality(sk[w]) ELSE fmDb[w]
    BY <1>1, <1>5, StoredValue
  <2>. HIDE DEF sk
  <2>. QED BY <1>1, <1>2, <1>3, <1>4, <2>1
<1>6. CASE fmMem' = sk /\ UNCHANGED fmDb
  <2>. HIDE DEF sk
  <2>. QED BY <1>1, <1>4, <1>6
<1>. QED BY <1>5, <1>6 DEF SketchRows

LEMMA StepSafe ==
  ASSUME IInv, [Next]_vars, NEW w \in Windows
  PROVE  /\ life' = life /\ fmMem[w] # {} /\ fmMem'[w] = {} =>
              fmDb'[w] >= Cardinality(fmMem[w])
         /\ fmDb'[w] < fmDb[w] => w \in lost
<1>0. fmDb[w] \in Nat /\ life \in Nat BY DEF IInv, Types
<1>1. CASE RunFm
  <2>1. PICK rows \in Capped(batch) :
          IF rows = {} THEN UNCHANGED <<fm, errors>> ELSE SketchRows(rows)
    BY <1>1 DEF RunFm
  <2>2. rows \in SUBSET batch BY CappedSubset
  <2>3. CASE rows = {} BY <1>0, <2>1, <2>3 DEF fm
  <2>4. CASE rows # {} BY <2>1, <2>2, <2>4, SketchRowsSafe
  <2>. QED BY <2>3, <2>4
<1>2. CASE Restart
  <2>1. life' # life BY <1>0, <1>2 DEF Restart
  <2>. QED BY <1>0, <1>2, <2>1 DEF Restart
<1>3. CASE Plan \/ RunMoments \/ WriteHealth \/ HealthFails \/ Commit \/ UNCHANGED vars
  BY <1>0, <1>3 DEF Plan, RunMoments, WriteHealth, HealthFails, Commit, fm, vars
<1>. QED BY <1>1, <1>2, <1>3 DEF Next, Dispatch

\* A sketch is only dropped, short of a restart, with its final estimate already in the
\* table, also when the upserts before failed (fm.py 252-280).
THEOREM StoredFirst == Spec => StoredBeforeExpiry
<1>1. IInv /\ [Next]_vars =>
        [\A w \in Windows : life' = life /\ fmMem[w] # {} /\ fmMem'[w] = {} =>
           fmDb'[w] >= Cardinality(fmMem[w])]_vars
  BY StepSafe
<1>. QED BY <1>1, InitIInv, NextIInv, PTL DEF Spec, StoredBeforeExpiry

\* An estimate in the table only ever shrinks for a window whose sketch was lost before
\* (fm.py 252-280).
THEOREM ShrinksOnlyWhenLost == Spec => FmShrinksOnlyWhenLost
<1>1. IInv /\ [Next]_vars => [\A w \in Windows : fmDb'[w] < fmDb[w] => w \in lost]_vars
  BY StepSafe
<1>. QED BY <1>1, InitIInv, NextIInv, PTL DEF Spec, FmShrinksOnlyWhenLost

-----------------------------------------------------------------------------
(* The counters of the moments plugin.                                     *)

Entries(rows, w, k) == {r \in rows : WindowOf[r] = w /\ KeyOf[r] = k}

N(rows, w, k) == Cardinality(Entries(rows, w, k))

\* The records of a batch are new, and a batch under way has raised at most once per
\* plugin that ran.
Dispatching ==
  /\ batch \subseteq delivered /\ waiting \intersect delivered = {} /\ IsFiniteSet(delivered)
  /\ (pc = "moments" => errors = 0) /\ (pc = "fm" => errors <= 1)

\* The records that the present life can have counted.
Counted == IF pc = "moments" THEN delivered \ batch ELSE delivered

\* Earlier lives count every record at most once each, and so does this life, which has
\* yet to count the batch at hand; that goes for the saved counters too.
Credit(w, k) == (life - 1) * N(delivered, w, k) + N(Counted, w, k)

WithinCredit ==
  \A w \in Windows, k \in Keys : momMem[w][k] <= Credit(w, k) /\ momDisk[w][k] <= Credit(w, k)

MomentsInv == TypeOK /\ Dispatching /\ WithinCredit

LEMMA EntriesCount ==
  ASSUME NEW rows, IsFiniteSet(rows), NEW w, NEW k
  PROVE  IsFiniteSet(Entries(rows, w, k)) /\ N(rows, w, k) \in Nat
<1>1. Entries(rows, w, k) \subseteq rows BY DEF Entries
<1>. QED BY <1>1, FS_Subset, FS_CardinalityType DEF N

LEMMA EntriesMonotone ==
  ASSUME NEW rows, IsFiniteSet(rows), NEW some \in SUBSET rows, NEW w, NEW k
  PROVE  IsFiniteSet(some) /\ N(some, w, k) <= N(rows, w, k)
<1>1. Entries(some, w, k) \subseteq Entries(rows, w, k) BY DEF Entries
<1>2. IsFiniteSet(some) BY FS_Subset
<1>. QED BY <1>1, <1>2, EntriesCount, FS_Subset DEF N

LEMMA EntriesDisjoint ==
  ASSUME NEW a, NEW b, IsFiniteSet(a), IsFiniteSet(b), a \intersect b = {}, NEW w, NEW k
  PROVE  N(a \union b, w, k) = N(a, w, k) + N(b, w, k)
<1>1. Entries(a \union b, w, k) = Entries(a, w, k) \union Entries(b, w, k) BY DEF Entries
<1>2. Entries(a, w, k) \intersect Entries(b, w, k) = {} BY DEF Entries
<1>3. /\ IsFiniteSet(Entries(a, w, k)) /\ IsFiniteSet(Entries(b, w, k))
      /\ N(a, w, k) \in Nat /\ N(b, w, k) \in Nat
  BY EntriesCount
<1>4. Cardinality(Entries(a, w, k) \union Entries(b, w, k))
        = Cardinality(Entries(a, w, k)) + Cardinality(Entries(b, w, k))
          - Cardinality(Entries(a, w, k) \intersect Entries(b, w, k))
  BY <1>3, FS_Union
<1>5. Cardinality(Entries(a, w, k) \intersect Entries(b, w, k)) = 0 BY <1>2, FS_EmptySet
<1>6. Cardinality(Entries(a, w, k)) \in Nat /\ Cardinality(Entries(b, w, k)) \in Nat
  BY <1>3, FS_CardinalityType
<1>7. Cardinality(Entries(a, w, k) \union Entries(b, w, k))
        = Cardinality(Entries(a, w, k)) + Cardinality(Entries(b, w, k))
  BY <1>4, <1>5, <1>6
<1>. QED BY <1>1, <1>7 DEF N

LEMMA TimesMonotone ==
  ASSUME NEW n \in Nat, NEW a \in Nat, NEW b \in Nat, a <= b
  PROVE  n * a \in Nat /\ n * b \in Nat /\ n * a <= n * b /\ (n + 1) * a = n * a + a
OBVIOUS

LEMMA PluginCount == Cardinality(Plugins) = 2
<1>1. Cardinality({"moments"}) = 1 /\ IsFiniteSet({"moments"}) BY FS_Singleton
<1>2. Plugins = {"moments"} \union {"fm"} /\ "fm" \notin {"moments"} BY DEF Plugins
<1>. QED BY <1>1, <1>2, FS_AddElement

LEMMA CreditNumbers ==
  ASSUME TypeOK, Dispatching, NEW w, NEW k
  PROVE  /\ life \in Nat \ {0} /\ N(delivered, w, k) \in Nat /\ N(Counted, w, k) \in Nat
         /\ N(Counted, w, k) <= N(delivered, w, k)
         /\ Credit(w, k) \in Nat /\ Credit(w, k) <= life * N(delivered, w, k)
<1>1. life \in Nat \ {0} BY LimitsAssumption DEF TypeOK
<1>2. IsFiniteSet(delivered) /\ Counted \in SUBSET delivered BY DEF Dispatching, Counted
<1>3. /\ N(delivered, w, k) \in Nat /\ N(Counted, w, k) \in Nat
      /\ N(Counted, w, k) <= N(delivered, w, k)
  BY <1>2, EntriesCount, EntriesMonotone
<1>4. (life - 1) * N(delivered, w, k) \in Nat
      /\ life * N(delivered, w, k) = (life - 1) * N(delivered, w, k) + N(delivered, w, k)
  <2>1. life - 1 \in Nat /\ (life - 1) + 1 = life BY <1>1
  <2>. QED BY <1>3, <2>1, TimesMonotone
<1>. QED BY <1>1, <1>3, <1>4 DEF Credit

CreditNumeric == \A w \in Windows, k \in Keys : Credit(w, k) \in Nat

LEMMA CreditNat == TypeOK /\ Dispatching => CreditNumeric
BY CreditNumbers DEF CreditNumeric

LEMMA NextCreditNat == TypeOK' /\ Dispatching' => CreditNumeric'
BY CreditNat, PTL

\* What counting rows adds, before and after the eviction.
LEMMA AddedValue ==
  ASSUME TypeOK, NEW rows \in SUBSET Records, IsFiniteSet(rows)
  PROVE  /\ Added(momMem, rows) \in Counts
         /\ \A w \in Windows, k \in Keys :
              Added(momMem, rows)[w][k] = momMem[w][k] + N(rows, w, k)
<1>1. \A w \in Windows, k \in Keys : N(rows, w, k) \in Nat BY EntriesCount
<1>2. \A w \in Windows, k \in Keys : momMem[w][k] \in Nat BY DEF TypeOK, Counts
<1>3. Added(momMem, rows) = [w \in Windows |-> [k \in Keys |-> momMem[w][k] + N(rows, w, k)]]
  BY DEF Added, N, Entries
<1>. QED BY <1>1, <1>2, <1>3 DEF Counts

LEMMA CountRowsValue ==
  ASSUME TypeOK, NEW rows \in SUBSET Records, IsFiniteSet(rows), CountRows(rows)
  PROVE  /\ momMem' \in Counts /\ momDisk' \in {momMem', momDisk} /\ momDb' \in [Windows -> Nat]
         /\ errors' \in {errors, errors + 1}
         /\ \A w \in Windows, k \in Keys : momMem'[w][k] <= momMem[w][k] + N(rows, w, k)
<1>. DEFINE counts == Added(momMem, rows)
            old == Evicted(Live(counts), MomentsKeep)
            kept == [w \in Windows |-> IF w \in old THEN NoCounts ELSE counts[w]]
<1>1. /\ counts \in Counts
      /\ \A w \in Windows, k \in Keys : counts[w][k] = momMem[w][k] + N(rows, w, k)
  BY AddedValue
<1>2. momMem' = kept BY DEF CountRows
<1>3. \/ errors' = errors + 1 /\ UNCHANGED <<momDisk, momDb>>
      \/ /\ momDb' = [w \in Windows |-> IF ContextHasConn /\ w \in Touched(rows)
                                         THEN ExactF2(kept[w]) ELSE momDb[w]]
         /\ momDisk' \in {kept, momDisk} /\ UNCHANGED errors
  BY DEF CountRows
<1>. HIDE DEF counts, old
<1>4. momMem' \in Counts
  <2>1. NoCounts \in [Keys -> Nat] BY DEF NoCounts
  <2>2. \A w \in Windows : counts[w] \in [Keys -> Nat] BY <1>1 DEF Counts
  <2>. QED BY <1>2, <2>1, <2>2 DEF Counts
<1>5. ASSUME NEW w \in Windows, NEW k \in Keys PROVE momMem'[w][k] <= momMem[w][k] + N(rows, w, k)
  <2>1. momMem[w][k] \in Nat /\ N(rows, w, k) \in Nat BY EntriesCount DEF TypeOK, Counts
  <2>2. CASE w \in old BY <1>2, <2>1, <2>2 DEF NoCounts
  <2>3. CASE w \notin old BY <1>1, <1>2, <2>1, <2>3
  <2>. QED BY <2>2, <2>3
<1>6. momDb' \in [Windows -> Nat]
  <2>1. momDb \in [Windows -> Nat] BY DEF TypeOK
  <2>2. momDb' = momDb \/ momDb' = [w \in Windows |-> momDb[w]] BY <1>3 DEF ContextHasConn
  <2>. QED BY <2>1, <2>2
<1>7. momDisk' \in {momMem', momDisk} /\ errors' \in {errors, errors + 1} BY <1>2, <1>3
<1>. QED BY <1>4, <1>5, <1>6, <1>7

LEMMA InitMoments == Init => MomentsInv
<1>. SUFFICES ASSUME Init PROVE MomentsInv
  OBVIOUS
<1>1. NoCounts \in [Keys -> Nat] /\ \A k \in Keys : NoCounts[k] = 0 BY DEF NoCounts
<1>2. momMem = [w \in Windows |-> NoCounts] /\ momDisk = momMem BY DEF Init
<1>3. momMem \in Counts /\ momDisk \in Counts BY <1>1, <1>2 DEF Counts
<1>4. TypeOK
  <2>1. life \in 1..MaxLives BY LimitsAssumption DEF Init
  <2>2. errors \in 0..Cardinality(Plugins) BY PluginCount DEF Init
  <2>3. /\ momDb \in [Windows -> Nat] /\ fmMem \in [Windows -> SUBSET Keys]
        /\ fmDb \in [Windows -> Nat] /\ health \in [rows : Nat, errors : Nat]
    BY DEF Init
  <2>. QED BY <1>3, <2>1, <2>2, <2>3 DEF Init, TypeOK
<1>5. Dispatching BY FS_EmptySet DEF Init, Dispatching
<1>6. \A w \in Windows, k \in Keys : momMem[w][k] = 0 /\ momDisk[w][k] = 0
  BY <1>1, <1>2
<1>7. \A w, k : Credit(w, k) \in Nat BY <1>4, <1>5, CreditNumbers
<1>8. WithinCredit BY <1>6, <1>7 DEF WithinCredit
<1>. QED BY <1>4, <1>5, <1>8 DEF MomentsInv

\* The bound depends on what was delivered, on the batch and on whether it is counted.
LEMMA CreditOf ==
  ASSUME NEW w, NEW k, UNCHANGED <<life, delivered>>, Counted' = Counted
  PROVE  Credit(w, k)' = Credit(w, k)
BY DEF Credit, N, Entries

\* Steps that leave the counters and the bound alone.
LEMMA CountersUntouched ==
  ASSUME WithinCredit, UNCHANGED <<momMem, momDisk, life, delivered>>, Counted' = Counted
  PROVE  WithinCredit'
<1>1. \A w \in Windows, k \in Keys : Credit(w, k)' = Credit(w, k) BY CreditOf
<1>. QED BY <1>1 DEF WithinCredit

LEMMA PlanMoments == MomentsInv /\ Plan => MomentsInv'
<1>. SUFFICES ASSUME MomentsInv, Plan PROVE MomentsInv'
  OBVIOUS
<1>. USE DEF MomentsInv
<1>1. /\ pc = "idle" /\ pc' = "moments" /\ planned' = TRUE /\ errors' = 0
      /\ batch' \subseteq waiting /\ IsFiniteSet(batch') /\ waiting' = waiting \ batch'
      /\ delivered' = delivered \union batch'
      /\ UNCHANGED <<committed, life, moments, fm, health>>
  BY DEF Plan
<1>2. 0 \in 0..Cardinality(Plugins) BY PluginCount
<1>3. TypeOK' BY <1>1, <1>2 DEF TypeOK, moments, fm
<1>4. Dispatching' BY <1>1, FS_Union DEF Dispatching
<1>5. Counted = delivered /\ Counted' = delivered BY <1>1 DEF Counted, Dispatching
<1>6. ASSUME NEW w \in Windows, NEW k \in Keys PROVE Credit(w, k) <= Credit(w, k)'
  <2>1. N(delivered, w, k) <= N(delivered', w, k)
        /\ N(delivered, w, k) \in Nat /\ N(delivered', w, k) \in Nat
    BY <1>1, <1>4, EntriesMonotone, EntriesCount DEF Dispatching
  <2>2. life - 1 \in Nat BY LimitsAssumption DEF TypeOK
  <2>3. (life - 1) * N(delivered, w, k) <= (life - 1) * N(delivered', w, k)
        /\ (life - 1) * N(delivered, w, k) \in Nat /\ (life - 1) * N(delivered', w, k) \in Nat
    BY <2>1, <2>2, TimesMonotone
  <2>4. Credit(w, k) = (life - 1) * N(delivered, w, k) + N(delivered, w, k)
    BY <1>5 DEF Credit
  <2>5. Credit(w, k)' = (life - 1) * N(delivered', w, k) + N(delivered, w, k)
    BY <1>1, <1>5 DEF Credit, N, Entries
  <2>. QED BY <2>1, <2>3, <2>4, <2>5
<1>7. ASSUME NEW w \in Windows, NEW k \in Keys
      PROVE  momMem'[w][k] <= Credit(w, k)' /\ momDisk'[w][k] <= Credit(w, k)'
  <2>1. /\ momMem'[w][k] = momMem[w][k] /\ momDisk'[w][k] = momDisk[w][k]
        /\ momMem[w][k] \in Nat /\ momDisk[w][k] \in Nat
    BY <1>1 DEF moments, TypeOK, Counts
  <2>2. Credit(w, k) \in Nat /\ Credit(w, k)' \in Nat
    <3>1. Credit(w, k) \in Nat BY CreditNumbers
    <3>. QED BY <1>3, <1>4, <3>1, NextCreditNat DEF CreditNumeric
  <2>. QED BY <1>6, <2>1, <2>2 DEF WithinCredit
<1>. QED BY <1>3, <1>4, <1>7 DEF WithinCredit

LEMMA RunMomentsKeeps == MomentsInv /\ RunMoments => MomentsInv'
<1>. SUFFICES ASSUME MomentsInv, RunMoments PROVE MomentsInv'
  OBVIOUS
<1>. USE DEF MomentsInv
<1>1. pc = "moments" /\ pc' = "fm" /\ UNCHANGED <<control, fm, health>> BY DEF RunMoments
<1>2. PICK rows \in Capped(batch) :
        IF rows = {} THEN UNCHANGED <<moments, errors>> ELSE CountRows(rows)
  BY DEF RunMoments
<1>3. /\ rows \in SUBSET batch /\ rows \in SUBSET Records /\ IsFiniteSet(rows)
      /\ batch \in SUBSET delivered /\ IsFiniteSet(batch)
  BY CappedSubset, FS_Subset DEF Dispatching, TypeOK
<1>4. errors = 0 BY <1>1 DEF Dispatching
<1>5. \A w \in Windows, k \in Keys : N(rows, w, k) \in Nat BY <1>3, EntriesCount
<1>6. /\ momMem' \in Counts /\ momDisk' \in {momMem', momDisk} /\ momDb' \in [Windows -> Nat]
      /\ errors' \in {errors, errors + 1}
      /\ \A w \in Windows, k \in Keys : momMem'[w][k] <= momMem[w][k] + N(rows, w, k)
  <2>1. CASE rows = {}
    <3>1. \A w \in Windows, k \in Keys : momMem[w][k] \in Nat BY DEF TypeOK, Counts
    <3>. QED BY <1>2, <1>5, <2>1, <3>1 DEF moments, TypeOK
  <2>2. CASE rows # {} BY <1>2, <1>3, <2>2, CountRowsValue
  <2>. QED BY <2>1, <2>2
<1>7. errors' \in 0..1 BY <1>4, <1>6
<1>8. TypeOK'
  <2>1. errors' \in 0..Cardinality(Plugins) BY <1>7, PluginCount
  <2>2. momDisk' \in Counts BY <1>6 DEF TypeOK
  <2>. QED BY <1>1, <1>6, <2>1, <2>2 DEF TypeOK, control, fm
<1>9. Dispatching' BY <1>1, <1>7 DEF Dispatching, control
<1>10. ASSUME NEW w \in Windows, NEW k \in Keys
       PROVE  momMem'[w][k] <= Credit(w, k)' /\ momDisk'[w][k] <= Credit(w, k)'
  <2>. DEFINE before == (life - 1) * N(delivered, w, k)
  <2>1. Credit(w, k) = before + N(delivered \ batch, w, k)
    BY <1>1 DEF Credit, Counted
  <2>2. Credit(w, k)' = before + N(delivered, w, k)
    BY <1>1 DEF Credit, Counted, N, Entries, control
  <2>3. N(delivered, w, k) = N(delivered \ batch, w, k) + N(batch, w, k)
    <3>1. delivered = (delivered \ batch) \union batch /\ (delivered \ batch) \intersect batch = {}
      BY <1>3
    <3>2. IsFiniteSet(delivered \ batch) BY FS_Subset DEF Dispatching
    <3>3. N((delivered \ batch) \union batch, w, k) = N(delivered \ batch, w, k) + N(batch, w, k)
      BY <1>3, <3>1, <3>2, EntriesDisjoint
    <3>. QED BY <3>1, <3>3
  <2>4. /\ N(rows, w, k) <= N(batch, w, k) /\ N(rows, w, k) \in Nat /\ N(batch, w, k) \in Nat
        /\ N(delivered \ batch, w, k) \in Nat
    <3>1. IsFiniteSet(delivered \ batch) BY FS_Subset DEF Dispatching
    <3>. QED BY <1>3, <3>1, EntriesMonotone, EntriesCount
  <2>5. before \in Nat
    <3>1. life - 1 \in Nat BY LimitsAssumption DEF TypeOK
    <3>2. N(delivered, w, k) \in Nat BY EntriesCount DEF Dispatching
    <3>. QED BY <3>1, <3>2, TimesMonotone
  <2>6. /\ momMem[w][k] \in Nat /\ momDisk[w][k] \in Nat /\ momMem'[w][k] \in Nat
        /\ momMem[w][k] <= Credit(w, k) /\ momDisk[w][k] <= Credit(w, k)
        /\ momMem'[w][k] <= momMem[w][k] + N(rows, w, k)
        /\ momDisk'[w][k] = momMem'[w][k] \/ momDisk'[w][k] = momDisk[w][k]
    BY <1>6 DEF TypeOK, Counts, WithinCredit
  <2>. HIDE DEF before
  <2>. QED BY <2>1, <2>2, <2>3, <2>4, <2>5, <2>6
<1>. QED BY <1>8, <1>9, <1>10 DEF WithinCredit

LEMMA RestartMoments == MomentsInv /\ Restart => MomentsInv'
<1>. SUFFICES ASSUME MomentsInv, Restart PROVE MomentsInv'
  OBVIOUS
<1>. USE DEF MomentsInv
<1>1. /\ life < MaxLives /\ life' = life + 1 /\ errors' = 0
      /\ pc' = IF planned THEN "moments" ELSE "idle"
      /\ momMem' = momDisk /\ fmMem' = [w \in Windows |-> {}]
      /\ lost' = lost \union Holding(fmMem)
      /\ UNCHANGED <<waiting, planned, batch, delivered, committed, momDisk, momDb, fmDb, health>>
  BY DEF Restart
<1>2. TypeOK'
  <2>1. 0 \in 0..Cardinality(Plugins) BY PluginCount
  <2>2. life' \in 1..MaxLives BY <1>1, LimitsAssumption DEF TypeOK
  <2>3. fmMem' \in [Windows -> SUBSET Keys] /\ lost' \subseteq Windows
    BY <1>1 DEF Holding, TypeOK
  <2>4. pc' \in {"idle", "moments"} /\ (pc' = "idle" <=> ~planned)
    BY <1>1
  <2>. QED BY <1>1, <2>1, <2>2, <2>3, <2>4 DEF TypeOK
<1>3. Dispatching' BY <1>1 DEF Dispatching
<1>4. ASSUME NEW w \in Windows, NEW k \in Keys
      PROVE  momMem'[w][k] <= Credit(w, k)' /\ momDisk'[w][k] <= Credit(w, k)'
  <2>1. /\ momMem'[w][k] = momDisk[w][k] /\ momDisk'[w][k] = momDisk[w][k]
        /\ momDisk[w][k] \in Nat /\ momDisk[w][k] <= Credit(w, k)
    BY <1>1 DEF TypeOK, Counts, WithinCredit
  <2>2. Credit(w, k) \in Nat /\ Credit(w, k) <= life * N(delivered, w, k) /\ life \in Nat \ {0}
        /\ N(delivered, w, k) \in Nat
    BY CreditNumbers
  <2>3. Credit(w, k)' = life * N(delivered, w, k) + N(Counted', w, k)
    <3>1. N(delivered, w, k)' = N(delivered, w, k) /\ N(Counted, w, k)' = N(Counted', w, k)
      BY <1>1 DEF N, Entries
    <3>2. life' - 1 = life BY <1>1, <2>2
    <3>. QED BY <3>1, <3>2 DEF Credit
  <2>4. N(Counted', w, k) \in Nat
    <3>1. Counted' \in SUBSET delivered BY <1>1 DEF Counted
    <3>2. IsFiniteSet(Counted') BY <3>1, FS_Subset DEF Dispatching
    <3>. QED BY <3>2, EntriesCount
  <2>5. life * N(delivered, w, k) \in Nat BY <2>2, TimesMonotone
  <2>. QED BY <2>1, <2>2, <2>3, <2>4, <2>5
<1>. QED BY <1>2, <1>3, <1>4 DEF WithinCredit

LEMMA RunFmMoments == MomentsInv /\ RunFm => MomentsInv'
<1>. SUFFICES ASSUME MomentsInv, RunFm PROVE MomentsInv'
  OBVIOUS
<1>. USE DEF MomentsInv
<1>1. pc = "fm" /\ pc' = "health" /\ UNCHANGED <<control, moments, health>> BY DEF RunFm
<1>2. PICK rows \in Capped(batch) :
        IF rows = {} THEN UNCHANGED <<fm, errors>> ELSE SketchRows(rows)
  BY DEF RunFm
<1>3. rows \in SUBSET Records BY CappedSubset DEF TypeOK
<1>4. Sketched(rows) \in Sketches
  <2>1. Sketched(rows) = [w \in Windows |-> fmMem[w] \union KeysIn(rows, w)]
    BY DEF Sketched, KeysIn
  <2>2. \A w \in Windows : KeysIn(rows, w) \subseteq Keys BY <1>3, KeysInKeys
  <2>. QED BY <2>1, <2>2 DEF Sketches, TypeOK
<1>5. /\ fmMem' \in Sketches /\ fmDb' \in [Windows -> Nat] /\ lost' \subseteq Windows
      /\ errors' \in {errors, errors + 1}
  <2>. DEFINE sk == Sketched(rows)
  <2>1. CASE rows = {} BY <1>2, <2>1 DEF fm, TypeOK, Sketches
  <2>2. CASE rows # {}
    <3>1. SketchRows(rows) BY <1>2, <2>2
    <3>2. Expired(sk) \in Sketches BY <1>4, ExpiredValue
    <3>3. Stored(sk) \in [Windows -> Nat]
      <4>1. \A w \in Windows : Cardinality(sk[w]) \in Nat BY <1>4, SketchFinite DEF Sketches
      <4>2. fmDb \in [Windows -> Nat] BY DEF TypeOK
      <4>3. Stored(sk) = [w \in Windows |-> IF sk[w] # {} THEN Cardinality(sk[w]) ELSE fmDb[w]]
        BY DEF Stored, Estimate
      <4>. HIDE DEF sk
      <4>. QED BY <4>1, <4>2, <4>3
    <3>4. lost' \subseteq lost \union Holding(sk) BY <3>1 DEF SketchRows
    <3>5. lost' \subseteq Windows BY <3>4 DEF Holding, TypeOK
    <3>6. \/ fmDb' = Stored(sk) /\ fmMem' = Expired(sk) /\ errors' = errors
          \/ fmMem' = sk /\ errors' = errors + 1 /\ UNCHANGED fmDb
      BY <3>1 DEF SketchRows
    <3>7. sk \in Sketches BY <1>4
    <3>. HIDE DEF sk
    <3>. QED BY <3>2, <3>3, <3>5, <3>6, <3>7 DEF TypeOK
  <2>. QED BY <2>1, <2>2
<1>6. errors' \in 0..Cardinality(Plugins)
  <2>1. errors <= 1 BY <1>1 DEF Dispatching
  <2>2. errors \in 0..2 BY PluginCount DEF TypeOK
  <2>. QED BY <1>5, <2>1, <2>2, PluginCount
<1>7. TypeOK' BY <1>1, <1>5, <1>6 DEF TypeOK, control, moments, Sketches
<1>8. Dispatching' BY <1>1 DEF Dispatching, control
<1>9. Counted' = Counted BY <1>1 DEF Counted, control
<1>10. WithinCredit' BY <1>1, <1>9, CountersUntouched DEF control, moments
<1>. QED BY <1>7, <1>8, <1>10

LEMMA RestOfDispatchMoments ==
  MomentsInv /\ (WriteHealth \/ HealthFails \/ Commit \/ UNCHANGED vars) => MomentsInv'
<1>. SUFFICES ASSUME MomentsInv, WriteHealth \/ HealthFails \/ Commit \/ UNCHANGED vars
              PROVE  MomentsInv'
  OBVIOUS
<1>. USE DEF MomentsInv, control, moments, fm
<1>1. CASE WriteHealth \/ HealthFails
  <2>1. /\ pc = "health" /\ pc' \in {"commit", "dead"} /\ UNCHANGED <<control, errors, moments, fm>>
    BY <1>1 DEF WriteHealth, HealthFails
  <2>2. health' \in [rows : Nat, errors : Nat]
    <3>1. Cardinality(batch) \in Nat BY FS_Subset, FS_CardinalityType DEF Dispatching
    <3>2. errors \in Nat BY PluginCount DEF TypeOK
    <3>. QED BY <1>1, <3>1, <3>2 DEF WriteHealth, HealthFails, TypeOK
  <2>3. TypeOK' BY <2>1, <2>2 DEF TypeOK
  <2>4. Dispatching' BY <2>1 DEF Dispatching
  <2>5. Counted' = Counted BY <2>1 DEF Counted
  <2>6. WithinCredit' BY <2>1, <2>5, CountersUntouched
  <2>. QED BY <2>3, <2>4, <2>6
<1>2. CASE Commit
  <2>1. /\ pc = "commit" /\ pc' = "idle" /\ planned' = FALSE /\ batch' = {}
        /\ committed' = committed \union batch
        /\ UNCHANGED <<waiting, delivered, life, errors, moments, fm, health>>
    BY <1>2 DEF Commit
  <2>2. TypeOK' BY <2>1 DEF TypeOK
  <2>3. Dispatching' BY <2>1 DEF Dispatching
  <2>4. Counted' = Counted BY <2>1 DEF Counted
  <2>5. WithinCredit' BY <2>1, <2>4, CountersUntouched
  <2>. QED BY <2>2, <2>3, <2>5
<1>3. CASE UNCHANGED vars
  <2>1. TypeOK' /\ Dispatching' BY <1>3 DEF vars, TypeOK, Dispatching
  <2>2. Counted' = Counted BY <1>3 DEF vars, Counted
  <2>3. WithinCredit' BY <1>3, <2>2, CountersUntouched DEF vars
  <2>. QED BY <2>1, <2>3
<1>. QED BY <1>1, <1>2, <1>3

LEMMA MomentsInvariance == Spec => []MomentsInv
<1>1. MomentsInv /\ [Next]_vars => MomentsInv'
  BY PlanMoments, RunMomentsKeeps, RunFmMoments, RestOfDispatchMoments, RestartMoments
     DEF Next, Dispatch
<1>. QED BY <1>1, InitMoments, PTL DEF Spec

\* The types, for every stream and every number of lives.
THEOREM TypeCorrect == Spec => []TypeOK
<1>1. MomentsInv => TypeOK BY DEF MomentsInv
<1>. QED BY <1>1, MomentsInvariance, PTL

\* A record is counted by moments at most once in each life of the process: the file is
\* saved before the commit, so only a restart can count a batch again (moments.py 341).
THEOREM OncePerLife == Spec => []MomentsOncePerLife
<1>1. MomentsInv => MomentsOncePerLife
  <2>. SUFFICES ASSUME MomentsInv, NEW w \in Windows, NEW k \in Keys
                PROVE  momMem[w][k] <= life * N(delivered, w, k)
    BY DEF MomentsOncePerLife, N, Entries
  <2>1. momMem[w][k] <= Credit(w, k) /\ momMem[w][k] \in Nat
    BY DEF MomentsInv, WithinCredit, TypeOK, Counts
  <2>2. /\ Credit(w, k) \in Nat /\ Credit(w, k) <= life * N(delivered, w, k)
        /\ life \in Nat \ {0} /\ N(delivered, w, k) \in Nat
    BY CreditNumbers DEF MomentsInv
  <2>3. life * N(delivered, w, k) \in Nat BY <2>2, TimesMonotone
  <2>. QED BY <2>1, <2>2, <2>3
<1>. QED BY <1>1, MomentsInvariance, PTL
=============================================================================

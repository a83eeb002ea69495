------------------------- MODULE AlertWorkerProofs -------------------------
(* The alerts of a worker keep their cooldown, reach the table together or  *)
(* not at all, and no window is evaluated out of order or, unless an insert *)
(* failed, twice: for every number of windows, sources and lives, all rates *)
(* and limits, and any interleaving with Spark's transactions.              *)
EXTENDS AlertWorker, FiniteSetTheorems, SequenceTheorems, TLAPS

Engines == [baseline : Nat, count : Nat, cooldowns : [Keys -> Nat \union {Never}]]

Types ==
  /\ metrics \in [Windows -> Nat] /\ stats \in [Windows -> [Sources -> Row]]
  /\ now \in Nat /\ life \in Nat /\ engine \in Engines
  /\ cur \in {0} \union Windows /\ curPps \in Nat
  /\ observed \in Seq(Windows) /\ failed \in BOOLEAN
  /\ pc \in {"poll", "stats", "insert"} /\ (pc = "stats" => cur # 0)
  /\ snap = <<>> \/ \E v \in Snapshots : snap = <<v>>

\* The cooldown of a key began with its last alert of this life or later.
CooldownsCover ==
  \A r \in raised :
    /\ r.life \in Nat /\ r.life <= life /\ r.alert.key \in Keys
    /\ r.alert.at \in Nat /\ r.alert.at <= now
    /\ r.life = life => r.alert.at <= engine.cooldowns[r.alert.key]

\* An alert belongs to an evaluation that has taken place.
Evaluations ==
  /\ alerts \subseteq raised
  /\ \A r \in raised : r.nth \in Nat /\ (r.life = life => r.nth <= Len(observed))

\* The worker holds the alerts of its last evaluation, all of them, and none is stored.
InHand ==
  IF pc = "insert"
  THEN /\ pending \union inserted = {r \in raised : r.life = life /\ r.nth = Len(observed)}
       /\ (pending \union inserted) \intersect alerts = {}
  ELSE pending = {} /\ inserted = {}

\* The window in hand has a row in the snapshot, and a row stays.
Support(m) == {w \in Windows : m[w] > 0}

RowsStay ==
  /\ cur \in {0} \union Support(View.metrics)
  /\ Support(View.metrics) \subseteq Support(metrics)

\* The windows evaluated do not go beyond the one in hand.
CurIsLast ==
  /\ \A i \in DOMAIN observed : observed[i] <= cur
  /\ ~failed /\ pc = "stats" => \A i \in DOMAIN observed : observed[i] < cur
  /\ ~failed /\ pc = "poll" => last = cur

IInv ==
  /\ Types /\ CooldownsCover /\ Evaluations /\ InHand /\ RowsStay /\ CurIsLast
  /\ CooldownRespected /\ AlertsAtomic /\ OncePerWindow

-----------------------------------------------------------------------------
(* The engine.                                                             *)

LEMMA KeyTexts ==
  /\ SpikeKey[1] = "TRAFFIC_SPIKE"
  /\ \A s \in Sources : /\ PortKey(s)[1] = "UNUSUAL_PORT_ACTIVITY" /\ PortKey(s)[2] = s
                        /\ FanoutKey(s)[1] = "HIGH_FANOUT" /\ FanoutKey(s)[2] = s
BY DEF SpikeKey, PortKey, FanoutKey

LEMMA RaisedKeysTyped ==
  ASSUME NEW e, NEW pps, NEW rows, NEW t
  PROVE  /\ RaisedKeys(e, pps, rows, t) \subseteq Keys
         /\ \A k \in RaisedKeys(e, pps, rows, t) : ~InCooldown(e, k, t)
BY DEF RaisedKeys

\* An alert is determined by its key.
LEMMA AlertByKey ==
  ASSUME NEW e, NEW w, NEW pps, NEW rows, NEW t, NEW a \in AlertsOf(e, w, pps, rows, t)
  PROVE  /\ a.key \in Keys /\ a.at = t /\ ~InCooldown(e, a.key, t)
         /\ a.key \in RaisedKeys(e, pps, rows, t)
         /\ a = AlertOf(a.key, e, w, pps, rows, t)
<1>1. PICK k \in RaisedKeys(e, pps, rows, t) : a = AlertOf(k, e, w, pps, rows, t)
  BY DEF AlertsOf
<1>2. a.key = k /\ a.at = t BY <1>1 DEF AlertOf
<1>. QED BY <1>1, <1>2, RaisedKeysTyped

LEMMA EwmaTyped ==
  ASSUME NEW old \in Nat, NEW pps \in Nat
  PROVE  Ewma(old, pps) \in Nat
<1>1. AlphaNum \in Nat /\ AlphaDen - AlphaNum \in Nat /\ AlphaDen \in Nat \ {0}
  BY RatesAssumption
<1>2. AlphaNum * pps \in Nat /\ (AlphaDen - AlphaNum) * old \in Nat BY <1>1
<1>3. \A x, y \in Nat : x + y \in Nat OBVIOUS
<1>4. AlphaNum * pps + (AlphaDen - AlphaNum) * old \in Nat BY <1>2, <1>3
<1>5. \A x \in Nat, d \in Nat \ {0} : x \div d \in Nat OBVIOUS
<1>. QED BY <1>1, <1>4, <1>5 DEF Ewma

LEMMA ObserveTyped ==
  ASSUME NEW e \in Engines, NEW pps \in Nat
  PROVE  Observe(e, pps) \in Engines /\ Observe(e, pps).cooldowns = e.cooldowns
<1>1. e.baseline \in Nat /\ e.count \in Nat BY DEF Engines
<1>2. ASSUME NEW b \in Nat, NEW c \in Nat
      PROVE  LET f == [e EXCEPT !.baseline = b, !.count = c]
             IN  f \in Engines /\ f.cooldowns = e.cooldowns
  BY DEF Engines
<1>3. e.count + 1 \in Nat /\ 1 \in Nat BY <1>1
<1>4. Ewma(e.baseline, pps) \in Nat BY <1>1, EwmaTyped
<1>. QED BY <1>2, <1>3, <1>4 DEF Observe

\* What a window leaves of the cooldowns.
LEMMA AfterWindowTyped ==
  ASSUME NEW e \in Engines, NEW pps \in Nat, NEW rows, NEW t \in Nat
  PROVE  /\ AfterWindow(e, pps, rows, t) \in Engines
         /\ \A k \in Keys : AfterWindow(e, pps, rows, t).cooldowns[k] =
              IF k \in RaisedKeys(e, pps, rows, t) THEN t ELSE e.cooldowns[k]
<1>. DEFINE raisedKeys == RaisedKeys(e, pps, rows, t)
            o == Observe(e, pps)
<1>1. o \in Engines /\ o.cooldowns = e.cooldowns BY ObserveTyped
<1>2. AfterWindow(e, pps, rows, t) =
        [o EXCEPT !.cooldowns = [k \in Keys |-> IF k \in raisedKeys THEN t ELSE @[k]]]
  BY DEF AfterWindow
<1>. HIDE DEF raisedKeys, o
<1>. QED BY <1>1, <1>2 DEF Engines, raisedKeys

-----------------------------------------------------------------------------
(* The newest window.                                                      *)

LEMMA MaxOfBounded ==
  ASSUME NEW n \in Nat, NEW S \in SUBSET (0..n), S # {}
  PROVE  Max(S) \in S /\ \A z \in S : Max(S) >= z
<1>. DEFINE T == {n - x : x \in S}
<1>1. T \subseteq Nat /\ T # {} OBVIOUS
<1>2. PICK y \in T : \A z \in T : ~(<<z, y>> \in OpToRel(<, Nat))
  BY <1>1, WFMin, NatLessThanWellFounded
<1>3. \A z \in T : ~(z < y) BY <1>1, <1>2 DEF OpToRel
<1>4. PICK x \in S : y = n - x OBVIOUS
<1>5. \A z \in S : x >= z BY <1>3, <1>4
<1>6. \E m \in S : \A z \in S : m >= z BY <1>5
<1>. QED BY <1>6 DEF Max

LEMMA NewestValue ==
  ASSUME NEW m
  PROVE  Newest(m) \in {0} \union Support(m) /\ \A w \in Support(m) : Newest(m) >= w
<1>1. ({0} \union Support(m)) \in SUBSET (0..MaxWindow) /\ MaxWindow \in Nat
  BY BoundsAssumption DEF Support, Windows
<1>2. Newest(m) = Max({0} \union Support(m)) BY DEF Newest, Support
<1>. QED BY <1>1, <1>2, MaxOfBounded

-----------------------------------------------------------------------------
(* Views.                                                                  *)

LEMMA ViewTyped ==
  ASSUME Types
  PROVE  /\ View \in Snapshots
         /\ snap = <<>> => View = Committed
         /\ snap # <<>> => snap = <<View>>
BY DEF Types, View, Committed, Snapshots

\* A snapshot stays as it is while Spark adds rows to the database.
LEMMA RowsStayUnder ==
  ASSUME Types, RowsStay, Types', UNCHANGED <<snap, cur>>,
         Support(metrics) \subseteq Support(metrics')
  PROVE  RowsStay'
<1>1. CASE snap = <<>>
  BY <1>1, ViewTyped DEF RowsStay, Committed, View, Support
<1>2. CASE snap # <<>>
  <2>1. View' = View BY <1>2 DEF View
  <2>. QED BY <2>1 DEF RowsStay, Support
<1>. QED BY <1>1, <1>2

-----------------------------------------------------------------------------
(* The invariant, action by action.                                        *)

LEMMA InitIInv == Init => IInv
<1>. SUFFICES ASSUME Init PROVE IInv OBVIOUS
<1>1. NewEngine \in Engines BY DEF NewEngine, Engines, Never
<1>2. NoRow \in Row BY DEF NoRow, Row
<1>3. observed = <<>> /\ observed \in Seq(Windows) BY DEF Init
<1>4. Types BY <1>1, <1>2, <1>3 DEF Init, Types
<1>5. CooldownsCover /\ Evaluations /\ InHand BY DEF Init, CooldownsCover, Evaluations, InHand
<1>6. RowsStay BY DEF Init, RowsStay, View, Committed
<1>7. CurIsLast /\ OncePerWindow BY <1>3 DEF Init, CurIsLast, OncePerWindow
<1>8. CooldownRespected /\ AlertsAtomic BY DEF Init, CooldownRespected, AlertsAtomic
<1>. QED BY <1>4, <1>5, <1>6, <1>7, <1>8 DEF IInv

\* What others do leaves the worker and its alerts alone.
LEMMA WorkerUntouched ==
  ASSUME IInv, Types', RowsStay', now' >= now, UNCHANGED <<alerts, pc, local, history>>
  PROVE  IInv'
<1>. USE DEF local, history
<1>1. CooldownsCover' BY DEF IInv, CooldownsCover, Types
<1>2. Evaluations' BY DEF IInv, Evaluations
<1>3. InHand' BY DEF IInv, InHand
<1>4. CurIsLast' /\ OncePerWindow' BY DEF IInv, CurIsLast, OncePerWindow
<1>5. CooldownRespected' /\ AlertsAtomic' BY DEF IInv, CooldownRespected, AlertsAtomic
<1>. QED BY <1>1, <1>2, <1>3, <1>4, <1>5 DEF IInv

LEMMA SparkKeeps ==
  ASSUME IInv, Spark \/ Tick
  PROVE  IInv'
<1>. USE DEF IInv
<1>. now' >= now BY DEF Spark, SparkBegins, UpsertMetrics, UpsertStats, SparkAborts, Tick, Types
<1>1. CASE (\E query \in {"metrics", "stats"} : SparkBegins(query)) \/ SparkAborts \/ Tick
  <2>1. Types' BY <1>1 DEF SparkBegins, SparkAborts, Tick, Types, db, local, history
  <2>2. UNCHANGED <<snap, cur, metrics>>
    BY <1>1 DEF SparkBegins, SparkAborts, Tick, db, local
  <2>3. RowsStay' BY <2>1, <2>2, RowsStayUnder
  <2>. QED BY <1>1, <2>1, <2>3, WorkerUntouched DEF SparkBegins, SparkAborts, Tick, db
<1>2. CASE UpsertMetrics
  <2>1. PICK w \in Windows, pps \in PpsValues : metrics' = [metrics EXCEPT ![w] = pps]
    BY <1>2 DEF UpsertMetrics
  <2>2. pps \in Nat /\ pps > 0 BY BoundsAssumption
  <2>3. Types' BY <1>2, <2>1, <2>2 DEF UpsertMetrics, Types, local, history
  <2>4. Support(metrics) \subseteq Support(metrics')
    BY <2>1, <2>2 DEF Support, Types
  <2>5. RowsStay' BY <1>2, <2>3, <2>4, RowsStayUnder DEF UpsertMetrics, local
  <2>. QED BY <1>2, <2>3, <2>5, WorkerUntouched DEF UpsertMetrics
<1>3. CASE UpsertStats
  <2>1. PICK w \in Windows, src \in Sources, row \in Rows :
          stats' = [stats EXCEPT ![w][src] = row]
    BY <1>3 DEF UpsertStats
  <2>2. row \in Row BY BoundsAssumption
  <2>3. Types' BY <1>3, <2>1, <2>2 DEF UpsertStats, Types, local, history
  <2>4. Support(metrics) \subseteq Support(metrics') BY <1>3 DEF UpsertStats, Support
  <2>5. RowsStay' BY <1>3, <2>3, <2>4, RowsStayUnder DEF UpsertStats, local
  <2>. QED BY <1>3, <2>3, <2>5, WorkerUntouched DEF UpsertStats
<1>. QED BY <1>1, <1>2, <1>3 DEF Spark

\* The newest window of the view is not older than the one in hand.
LEMMA PollKeeps ==
  ASSUME IInv, Poll
  PROVE  IInv'
<1>. USE DEF IInv
<1>. DEFINE w == Newest(View.metrics)
<1>1. View' = View
  BY ViewTyped DEF Poll, View, Committed, db
<1>2. View \in Snapshots BY ViewTyped
<1>3. /\ w \in {0} \union Support(View.metrics)
      /\ \A v \in Support(View.metrics) : w >= v
  BY NewestValue
<1>4. snap' = snap \/ snap' = <<View>> BY DEF Poll
<1>5. UNCHANGED <<db, writer, now, engine, last, pending, inserted, txOpen, history>> BY DEF Poll
<1>6. \/ w # 0 /\ w # last /\ pc' = "stats" /\ cur' = w /\ curPps' = View.metrics[w]
      \/ UNCHANGED <<pc, cur, curPps>>
  BY DEF Poll
<1>7. pc = "poll" /\ w \in Nat /\ cur \in Nat
  BY <1>3, BoundsAssumption DEF Poll, Types, Support, Windows
<1>. HIDE DEF w
<1>8. cur <= w \/ UNCHANGED cur BY <1>3, <1>7 DEF RowsStay
<1>9. Types'
  <2>1. snap' = <<>> \/ \E v \in Snapshots : snap' = <<v>> BY <1>2, <1>4 DEF Types
  <2>2. curPps' \in Nat /\ cur' \in {0} \union Windows /\ (pc' = "stats" => cur' # 0)
    BY <1>2, <1>3, <1>6, <1>7 DEF Snapshots, Support, Types
  <2>. QED BY <1>5, <1>6, <2>1, <2>2 DEF Types, db, history
<1>10. RowsStay' BY <1>1, <1>3, <1>5, <1>6 DEF RowsStay, Support, db
<1>11. CooldownsCover' /\ Evaluations' BY <1>5 DEF CooldownsCover, Evaluations, history, db
<1>12. InHand' BY <1>5, <1>6, <1>7 DEF InHand, history, db
<1>13. CurIsLast'
  <2>1. \A i \in DOMAIN observed : observed[i] \in Nat
    BY BoundsAssumption DEF Types, Windows
  <2>2. CASE w # 0 /\ w # last /\ pc' = "stats" /\ cur' = w
    BY <1>3, <1>5, <1>7, <2>1, <2>2 DEF CurIsLast, RowsStay, history
  <2>3. CASE UNCHANGED <<pc, cur>> BY <1>5, <2>3 DEF CurIsLast, history
  <2>. QED BY <1>6, <2>2, <2>3
<1>14. CooldownRespected' /\ AlertsAtomic' /\ OncePerWindow'
  BY <1>5 DEF CooldownRespected, AlertsAtomic, OncePerWindow, history, db
<1>. QED BY <1>9, <1>10, <1>11, <1>12, <1>13, <1>14

\* The evaluation of the window in hand.
LEMMA EvaluateKeeps ==
  ASSUME IInv, Evaluate
  PROVE  IInv'
<1>. USE DEF IInv
<1>. DEFINE rows == View.stats[cur]
            new == Named(AlertsOf(engine, cur, curPps, rows, now))
<1>1. /\ pc = "stats"
      /\ engine' = AfterWindow(engine, curPps, rows, now)
      /\ pending' = new /\ raised' = raised \union new
      /\ observed' = Append(observed, cur)
      /\ pc' = (IF new = {} THEN "poll" ELSE "insert")
      /\ last' = (IF new = {} THEN cur ELSE last)
      /\ UNCHANGED <<db, writer, now, cur, curPps, inserted, txOpen, snap, life, failed>>
  BY DEF Evaluate
<1>2. \A n \in new : /\ n.life = life /\ n.nth = Len(observed) + 1
                     /\ n.alert \in AlertsOf(engine, cur, curPps, rows, now)
  BY DEF Named
<1>3. \A n \in new : /\ n.alert.key \in Keys /\ n.alert.at = now
                     /\ ~InCooldown(engine, n.alert.key, now)
                     /\ n.alert.key \in RaisedKeys(engine, curPps, rows, now)
  BY <1>2, AlertByKey
<1>4. \A n, m \in new : n.alert.key = m.alert.key => n = m
  <2>1. \A n, m \in new : n.alert.key = m.alert.key => n.alert = m.alert BY <1>2, AlertByKey
  <2>. QED BY <2>1 DEF Named
<1>5. /\ engine' \in Engines
      /\ \A k \in Keys : engine'.cooldowns[k] =
           IF k \in RaisedKeys(engine, curPps, rows, now) THEN now ELSE engine.cooldowns[k]
  BY <1>1, AfterWindowTyped DEF Types
<1>6. \A k \in Keys : engine.cooldowns[k] \in Int BY DEF Types, Engines, Never
<1>7. cur \in Windows /\ cur \in Nat BY <1>1, BoundsAssumption DEF Types, Windows
<1>8. /\ observed' \in Seq(Windows) /\ Len(observed') = Len(observed) + 1
      /\ \A i \in DOMAIN observed : observed'[i] = observed[i]
      /\ \A i \in DOMAIN observed' :
           i \in DOMAIN observed \/ (i = Len(observed) + 1 /\ observed'[i] = cur)
      /\ \A i \in DOMAIN observed : observed[i] \in Nat /\ i < Len(observed) + 1
      /\ Len(observed) \in Nat
  <2>1. observed \in Seq(Windows) /\ Windows \subseteq Nat BY BoundsAssumption DEF Types, Windows
  <2>2. DOMAIN observed = 1..Len(observed) /\ Len(observed) \in Nat BY <2>1
  <2>3. /\ observed' \in Seq(Windows) /\ Len(observed') = Len(observed) + 1
        /\ \A i \in 1..Len(observed) : observed'[i] = observed[i]
        /\ observed'[Len(observed) + 1] = cur
    BY <1>1, <1>7, <2>1, AppendProperties
  <2>4. DOMAIN observed' = 1..(Len(observed) + 1) BY <2>3
  <2>5. \A i \in DOMAIN observed : observed[i] \in Nat BY <2>1, <2>2, ElementOfSeq
  <2>. QED BY <2>2, <2>3, <2>4, <2>5
<1>. HIDE DEF rows, new
<1>9. Types' BY <1>1, <1>5, <1>8 DEF Types, db
<1>10. CooldownsCover'
  <2>1. \A r \in raised : r.life = life => r.alert.at <= engine'.cooldowns[r.alert.key]
    BY <1>5, <1>6 DEF CooldownsCover, Types
  <2>2. \A n \in new : n.alert.at <= engine'.cooldowns[n.alert.key]
    BY <1>3, <1>5 DEF Types
  <2>. QED BY <1>1, <1>2, <1>3, <2>1, <2>2 DEF CooldownsCover, Types
<1>11. Evaluations' BY <1>1, <1>2, <1>8 DEF Evaluations, db
<1>12. InHand'
  <2>1. inserted = {} /\ inserted' = {} BY <1>1 DEF InHand
  <2>2. new = {r \in raised' : r.life = life' /\ r.nth = Len(observed')}
    <3>1. \A r \in raised : ~(r.life = life /\ r.nth = Len(observed) + 1)
      BY <1>8 DEF Evaluations
    <3>. QED BY <1>1, <1>2, <1>8, <3>1
  <2>3. new \intersect alerts = {} BY <1>2, <1>8 DEF Evaluations
  <2>. QED BY <1>1, <2>1, <2>2, <2>3 DEF InHand, db
<1>13. RowsStay' BY <1>1 DEF RowsStay, Support, View, Committed, db
<1>14. CurIsLast'
  <2>1. \A i \in DOMAIN observed' : observed'[i] <= cur BY <1>7, <1>8 DEF CurIsLast
  <2>. QED BY <1>1, <2>1 DEF CurIsLast
<1>15. OncePerWindow'
  <2>1. \A i \in DOMAIN observed : observed[i] <= cur /\ (~failed => observed[i] # cur)
    BY <1>1, <1>7, <1>8 DEF CurIsLast
  <2>2. ASSUME NEW i \in DOMAIN observed', NEW j \in DOMAIN observed', i < j
        PROVE  observed'[i] <= observed'[j] /\ (~failed => observed'[i] # observed'[j])
    <3>1. i \in DOMAIN observed BY <1>8, <2>2
    <3>. QED BY <1>8, <2>1, <2>2, <3>1 DEF OncePerWindow
  <2>. QED BY <1>1, <2>2 DEF OncePerWindow
<1>16. CooldownRespected'
  <2>1. ASSUME NEW r \in raised, NEW n \in new, r.life = n.life, r.alert.key = n.alert.key
        PROVE  n.alert.at - r.alert.at >= Cooldown
    <3>1. r.life = life BY <1>2, <2>1
    <3>2. r.alert.at \in Nat /\ r.alert.at <= engine.cooldowns[n.alert.key]
      BY <2>1, <3>1 DEF CooldownsCover
    <3>3. engine.cooldowns[n.alert.key] # Never BY <1>3, <1>6, <3>2 DEF Never
    <3>4. ~(now - engine.cooldowns[n.alert.key] < Cooldown) BY <1>3, <3>3 DEF InCooldown
    <3>. QED BY <1>3, <1>6, <3>2, <3>4, LimitsAssumption DEF Types
  <2>. QED BY <1>1, <1>4, <2>1 DEF CooldownRespected
<1>17. AlertsAtomic'
  <2>1. \A n \in new : n \notin alerts BY <1>2, <1>8 DEF Evaluations
  <2>2. \A r \in raised, n \in new : ~(r.life = n.life /\ r.nth = n.nth)
    BY <1>2, <1>8 DEF Evaluations
  <2>. QED BY <1>1, <2>1, <2>2 DEF AlertsAtomic, db
<1>. QED BY <1>9, <1>10, <1>11, <1>12, <1>13, <1>14, <1>15, <1>16, <1>17

\* The transaction of the alerts: an alert at a time, then all of them.
LEMMA InsertKeeps ==
  ASSUME IInv, Insert \/ Commit \/ InsertFails
  PROVE  IInv'
<1>. USE DEF IInv
<1>1. /\ pc = "insert"
      /\ UNCHANGED <<metrics, stats, now, engine, cur, curPps, life, raised, observed>>
  BY DEF Insert, Commit, InsertFails, db, history
<1>2. Types' BY <1>1 DEF Insert, Commit, InsertFails, Types, db, history
<1>3. CooldownsCover' BY <1>1 DEF CooldownsCover
<1>4. Evaluations' BY <1>1 DEF Insert, Commit, InsertFails, Evaluations, InHand, db
<1>5. RowsStay'
  <2>1. View' = View \/ View' = Committed
    BY <1>1 DEF Insert, Commit, InsertFails, View, Committed
  <2>. QED BY <1>1, <2>1 DEF RowsStay, Support, Committed
<1>6. CurIsLast' /\ OncePerWindow'
  BY <1>1 DEF Insert, Commit, InsertFails, CurIsLast, OncePerWindow, history
<1>7. CooldownRespected' BY <1>1 DEF CooldownRespected
<1>8. CASE Insert
  <2>1. alerts' = alerts /\ pc' = pc /\ pending' \union inserted' = pending \union inserted
    BY <1>8 DEF Insert, db
  <2>. QED
    BY <1>1, <1>2, <1>3, <1>4, <1>5, <1>6, <1>7, <2>1 DEF InHand, AlertsAtomic
<1>9. CASE InsertFails
  <2>1. InHand' BY <1>9 DEF InsertFails, InHand
  <2>2. AlertsAtomic' BY <1>1, <1>9 DEF InsertFails, AlertsAtomic, db
  <2>. QED BY <1>2, <1>3, <1>4, <1>5, <1>6, <1>7, <2>1, <2>2
<1>10. CASE Commit
  <2>1. InHand' BY <1>10 DEF Commit, InHand
  <2>2. /\ alerts' = alerts \union inserted
        /\ inserted = {r \in raised : r.life = life /\ r.nth = Len(observed)}
    BY <1>1, <1>10 DEF Commit, InHand
  <2>3. AlertsAtomic' BY <1>1, <2>2 DEF AlertsAtomic
  <2>. QED BY <1>2, <1>3, <1>4, <1>5, <1>6, <1>7, <2>1, <2>3
<1>. QED BY <1>8, <1>9, <1>10

\* A new process knows of nothing.
LEMMA RestartKeeps ==
  ASSUME IInv, Restart
  PROVE  IInv'
<1>. USE DEF IInv
<1>1. /\ pc' = "poll" /\ engine' = NewEngine /\ last' = 0 /\ cur' = 0 /\ curPps' = 0
      /\ pending' = {} /\ inserted' = {} /\ snap' = <<>> /\ observed' = <<>>
      /\ failed' = FALSE /\ life' = life + 1
      /\ UNCHANGED <<metrics, stats, alerts, now, raised>>
  BY DEF Restart, Started, db
<1>2. NewEngine \in Engines BY DEF NewEngine, Engines, Never
<1>3. Types'
  <2>1. observed' \in Seq(Windows) /\ life' \in Nat BY <1>1 DEF Types
  <2>. QED BY <1>1, <1>2, <2>1 DEF Types
<1>4. \A r \in raised : r.life \in Nat /\ r.life < life'
  BY <1>1 DEF CooldownsCover, Types
<1>5. CooldownsCover' BY <1>1, <1>4 DEF CooldownsCover, Types
<1>6. Evaluations' BY <1>1, <1>4 DEF Evaluations, Types
<1>7. InHand' BY <1>1 DEF InHand
<1>8. RowsStay' BY <1>1 DEF RowsStay, View, Committed
<1>9. CurIsLast' /\ OncePerWindow' BY <1>1 DEF CurIsLast, OncePerWindow
<1>10. CooldownRespected' /\ AlertsAtomic' BY <1>1 DEF CooldownRespected, AlertsAtomic
<1>. QED BY <1>3, <1>5, <1>6, <1>7, <1>8, <1>9, <1>10

LEMMA NextIInv == IInv /\ [Next]_vars => IInv'
<1>. SUFFICES ASSUME IInv, [Next]_vars PROVE IInv' OBVIOUS
<1>1. CASE Next
  BY <1>1, SparkKeeps, PollKeeps, EvaluateKeeps, InsertKeeps, RestartKeeps
  DEF Next, Worker
<1>2. CASE UNCHANGED vars
  <2>1. Types' BY <1>2 DEF vars, IInv, Types, db, local, history
  <2>2. RowsStay' BY <1>2 DEF vars, IInv, RowsStay, View, Committed, Support, db, local
  <2>. QED BY <1>2, <2>1, <2>2, WorkerUntouched DEF vars, db, IInv, Types
<1>. QED BY <1>1, <1>2

LEMMA Invariance == Spec => []IInv
BY InitIInv, NextIInv, PTL DEF Spec

-----------------------------------------------------------------------------
(* Types.                                                                  *)

AlertRecord ==
  [key : Keys, ts : Windows, at : Nat, value : Nat, severity : {"WARN", "CRITICAL"},
   baseline : Nat]

LEMMA AlertTyped ==
  ASSUME NEW e \in Engines, NEW w \in Windows, NEW pps \in Nat,
         NEW rows \in [Sources -> Row], NEW t \in Nat,
         NEW a \in AlertsOf(e, w, pps, rows, t)
  PROVE  a \in AlertRecord
<1>. DEFINE k == a.key
<1>1. /\ k \in Keys /\ a = AlertOf(k, e, w, pps, rows, t)
      /\ k = SpikeKey \/ \E s \in Sources : k = PortKey(s) \/ k = FanoutKey(s)
  BY AlertByKey DEF Keys
<1>2. Observe(e, pps).baseline \in Nat BY ObserveTyped DEF Engines
<1>3. MaxPorts \in Nat /\ MaxIps \in Nat BY LimitsAssumption
<1>4. Severity(e, pps) \in {"WARN", "CRITICAL"} BY DEF Severity
<1>5. \A s \in Sources : rows[s].ports \in Nat /\ rows[s].ips \in Nat BY DEF Row
<1>6. k = SpikeKey \/ k[2] \in Sources BY <1>1, KeyTexts
<1>. HIDE DEF k
<1>7. CASE k = SpikeKey
  <2>1. k[1] # "UNUSUAL_PORT_ACTIVITY" BY <1>7, KeyTexts
  <2>. QED BY <1>1, <1>2, <1>4, <1>7, <2>1 DEF AlertOf, AlertRecord
<1>8. CASE k # SpikeKey
  <2>1. k[2] \in Sources BY <1>6, <1>8
  <2>2. CASE k[1] = "UNUSUAL_PORT_ACTIVITY"
    BY <1>1, <1>3, <1>5, <1>8, <2>1, <2>2 DEF AlertOf, AlertRecord
  <2>3. CASE k[1] # "UNUSUAL_PORT_ACTIVITY"
    BY <1>1, <1>3, <1>5, <1>8, <2>1, <2>3 DEF AlertOf, AlertRecord
  <2>. QED BY <2>2, <2>3
<1>. QED BY <1>7, <1>8

LEMMA NextTypeOK == IInv /\ IInv' /\ TypeOK /\ [Next]_vars => TypeOK'
<1>. SUFFICES ASSUME IInv, IInv', TypeOK, [Next]_vars PROVE TypeOK' OBVIOUS
<1>1. Types /\ Types' BY DEF IInv
<1>2. snap' = <<>> \/ \E v \in {View'} : snap' = <<v>> /\ v \in Snapshots
  BY <1>1, ViewTyped DEF Types, View
<1>3. engine' \in [baseline : Nat, count : Nat, cooldowns : [Keys -> Nat \union {Never}]]
  BY <1>1 DEF Types, Engines
<1>4. ASSUME pc' # "poll" => cur' # 0, last' \in {0} \union Windows, txOpen' \in BOOLEAN,
             writer' \in {"none", "metrics", "stats", "worker"},
             alerts' \subseteq Alert, pending' \subseteq Alert, inserted' \subseteq Alert,
             raised' \subseteq Alert
      PROVE  TypeOK'
  BY <1>1, <1>2, <1>3, <1>4 DEF Types, TypeOK
<1>5. CASE Evaluate
  <2>. DEFINE new == Named(AlertsOf(engine, cur, curPps, View.stats[cur], now))
  <2>1. /\ pending' = new /\ raised' = raised \union new
        /\ UNCHANGED <<cur, alerts, inserted, txOpen, writer>>
        /\ last' = cur \/ UNCHANGED last
        /\ pc = "stats" /\ cur # 0
    BY <1>1, <1>5 DEF Evaluate, db, Types
  <2>2. cur \in Windows /\ View.stats[cur] \in [Sources -> Row]
    BY <1>1, <2>1, ViewTyped DEF Types, Snapshots
  <2>3. \A a \in AlertsOf(engine, cur, curPps, View.stats[cur], now) : a \in AlertRecord
    BY <1>1, <2>2, AlertTyped DEF Types
  <2>4. Len(observed) + 1 \in Nat BY <1>1 DEF Types
  <2>5. new \subseteq Alert BY <1>1, <2>3, <2>4 DEF Named, Alert, AlertRecord, Types
  <2>. HIDE DEF new
  <2>. QED BY <1>4, <2>1, <2>2, <2>5 DEF TypeOK
<1>6. CASE Next /\ ~Evaluate
  <2>1. /\ alerts' \subseteq Alert /\ pending' \subseteq Alert /\ inserted' \subseteq Alert
        /\ raised' \subseteq Alert
    BY <1>6 DEF Next, Worker, Spark, Poll, Insert, Commit, InsertFails, Restart, Started,
                SparkBegins, UpsertMetrics, UpsertStats, SparkAborts, Tick, TypeOK, db, local,
                history
  <2>2. /\ last' \in {0} \union Windows /\ txOpen' \in BOOLEAN
        /\ writer' \in {"none", "metrics", "stats", "worker"}
    BY <1>6 DEF Next, Worker, Spark, Poll, Insert, Commit, InsertFails, Restart, Started,
                SparkBegins, UpsertMetrics, UpsertStats, SparkAborts, Tick, TypeOK, db, local,
                history
  <2>3. pc' # "poll" => cur' # 0
    BY <1>6 DEF Next, Worker, Spark, Poll, Insert, Commit, InsertFails, Restart, Started,
                SparkBegins, UpsertMetrics, UpsertStats, SparkAborts, Tick, TypeOK, db, local,
                history
  <2>. QED BY <1>4, <2>1, <2>2, <2>3
<1>7. CASE UNCHANGED vars
  BY <1>4, <1>7 DEF vars, TypeOK, db, local, history
<1>. QED BY <1>5, <1>6, <1>7

LEMMA InitTypeOK == Init => TypeOK
<1>. SUFFICES ASSUME Init PROVE TypeOK OBVIOUS
<1>1. Types BY InitIInv DEF IInv
<1>. QED BY <1>1, ViewTyped DEF Init, Types, TypeOK, Engines, View

\* The worker and the database keep their types, for all bounds.
THEOREM TypeCorrect == Spec => []TypeOK
<1>1. IInv /\ IInv' /\ TypeOK /\ [Next]_vars => TypeOK' BY NextTypeOK
<1>. QED BY <1>1, InitTypeOK, Invariance, PTL DEF Spec

-----------------------------------------------------------------------------
\* Two alerts of one life of the worker for one rule and source are at least the cooldown
\* apart, for every cooldown and also when an insert failed (alerts.py 333-342).
THEOREM Cooldowns == Spec => []CooldownRespected
<1>1. IInv => CooldownRespected BY DEF IInv
<1>. QED BY <1>1, Invariance, PTL

\* The alerts of an evaluation reach the table together or not at all, for any number
\* of alerts and at whatever moment the worker is killed (alerts_worker.py 40-61).
THEOREM Atomic == Spec => []AlertsAtomic
<1>1. IInv => AlertsAtomic BY DEF IInv
<1>. QED BY <1>1, Invariance, PTL

\* A worker evaluates windows in their order, and none twice unless an insert failed,
\* whatever Spark writes and whatever snapshot the worker reads (alerts_worker.py 82, 91).
THEOREM InOrder == Spec => []OncePerWindow
<1>1. IInv => OncePerWindow BY DEF IInv
<1>. QED BY <1>1, Invariance, PTL
=============================================================================

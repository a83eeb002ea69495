---------------------------- MODULE AlertWorker ----------------------------
(***************************************************************************)
(* The alert worker (linkanalysis/alerts_worker.py) beside the Spark       *)
(* queries that fill window_metrics and source_stats.  The worker polls    *)
(* the newest window, reads the rows of its sources, evaluates the rules   *)
(* and inserts the alerts in one transaction.  The serving database is     *)
(* SQLite in WAL mode: one writer at a time; a connection with an open     *)
(* transaction reads the snapshot its first read took, and cannot write    *)
(* once somebody else has committed after that snapshot.                   *)
(***************************************************************************)
EXTENDS AlertEngine, Sequences, FiniteSetsExt

CONSTANTS MaxWindow,     \* windows are 1..MaxWindow
          PpsValues,     \* rates a window may show
          Rows,          \* rows source_stats may hold
          MaxNow,        \* bound on the clock
          MaxLives       \* bound on the lives of the worker process

Windows == 1..MaxWindow
NoRow == [packets |-> 0, ports |-> 0, ips |-> 0]

ASSUME BoundsAssumption ==
  /\ MaxWindow \in Nat /\ MaxNow \in Nat /\ MaxLives \in Nat \ {0}
  /\ PpsValues \subseteq Nat \ {0} /\ Rows \subseteq Row

VARIABLES
  metrics,     \* committed window_metrics: window -> pps, 0 without a row
  stats,       \* committed source_stats: window -> source -> row
  alerts,      \* committed alerts, each with its alert_id
  writer,      \* who holds the write lock: "none", "metrics", "stats", "worker"
  now,         \* time.time()
  pc,          \* worker: "poll", "stats", "insert"
  engine,      \* worker: AlertEngine.state
  last,        \* worker: last_window_start, 0 for None
  cur, curPps, \* worker: the window being processed
  pending,     \* worker: alerts still to insert
  inserted,    \* worker: alerts inserted, not committed
  txOpen,      \* worker: conn.in_transaction
  snap,        \* worker: the snapshot its open transaction reads, <<>> for none
  life,        \* history: lives of the worker so far
  raised,      \* history: alerts returned by evaluate_window
  observed,    \* history: windows evaluated in this life, in order
  failed       \* history: an insert failed in this life

db == <<metrics, stats, alerts>>
local == <<engine, last, cur, curPps, pending, inserted, txOpen, snap>>
history == <<life, raised, observed, failed>>
vars == <<db, writer, now, pc, local, history>>

Newest(m) == Max({0} \union {w \in Windows : m[w] > 0})
Committed == [metrics |-> metrics, stats |-> stats]
View == IF snap = <<>> THEN Committed ELSE snap[1]

\* The state of run_worker before its loop.
Started ==
  /\ pc' = "poll" /\ engine' = NewEngine /\ last' = 0
  /\ cur' = 0 /\ curPps' = 0 /\ pending' = {} /\ inserted' = {}
  /\ txOpen' = FALSE /\ snap' = <<>>

Init ==
  /\ metrics = [w \in Windows |-> 0]
  /\ stats = [w \in Windows |-> [s \in Sources |-> NoRow]]
  /\ alerts = {} /\ writer = "none" /\ now = 0
  /\ pc = "poll" /\ engine = NewEngine /\ last = 0
  /\ cur = 0 /\ curPps = 0 /\ pending = {} /\ inserted = {}
  /\ txOpen = FALSE /\ snap = <<>>
  /\ life = 1 /\ raised = {} /\ observed = <<>> /\ failed = FALSE

-----------------------------------------------------------------------------
\* The Spark queries: a batch upserts the absolute values of the windows it
\* changed, which only grow; one transaction per query and batch.
SparkBegins(query) ==
  /\ writer = "none" /\ writer' = query
  /\ UNCHANGED <<db, now, pc, local, history>>

UpsertMetrics ==
  /\ writer = "metrics" /\ writer' = "none"
  /\ \E w \in Windows, pps \in PpsValues :
       /\ w <= Newest(metrics) + 1 /\ pps > metrics[w]
       /\ metrics' = [metrics EXCEPT ![w] = pps]
  /\ UNCHANGED <<stats, alerts, now, pc, local, history>>

Grows(old, new) ==
  old.packets <= new.packets /\ old.ports <= new.ports /\ old.ips <= new.ips

UpsertStats ==
  /\ writer = "stats" /\ writer' = "none"
  /\ \E w \in Windows, s \in Sources, row \in Rows :
       /\ w <= Newest(metrics) + 1
       /\ row # stats[w][s] /\ Grows(stats[w][s], row)
       /\ stats' = [stats EXCEPT ![w][s] = row]
  /\ UNCHANGED <<metrics, alerts, now, pc, local, history>>

\* A batch that fails rolls back and lets go of the lock.
SparkAborts ==
  /\ writer \in {"metrics", "stats"} /\ writer' = "none"
  /\ UNCHANGED <<db, now, pc, local, history>>

Tick ==
  /\ now < MaxNow /\ now' = now + 1
  /\ UNCHANGED <<db, writer, pc, local, history>>

-----------------------------------------------------------------------------
\* Variant: the oldest window is selected.
PollOldest ==
  /\ pc = "poll"
  /\ snap' = IF txOpen THEN <<View>> ELSE snap
  /\ LET w == Min({MaxWindow} \union {v \in Windows : View.metrics[v] > 0})
     IN IF View.metrics[w] > 0 /\ w # last
        THEN pc' = "stats" /\ cur' = w /\ curPps' = View.metrics[w]
        ELSE UNCHANGED <<pc, cur, curPps>>
  /\ UNCHANGED <<db, writer, now, engine, last, pending, inserted, txOpen, history>>

\* The worker's loop.  The first SELECT inside an open transaction pins the
\* snapshot.
Poll ==
  /\ pc = "poll"
  /\ snap' = IF txOpen THEN <<View>> ELSE snap
  /\ LET w == Newest(View.metrics)
     IN IF w # 0 /\ w # last
        THEN pc' = "stats" /\ cur' = w /\ curPps' = View.metrics[w]
        ELSE UNCHANGED <<pc, cur, curPps>>
  /\ UNCHANGED <<db, writer, now, engine, last, pending, inserted, txOpen, history>>

\* alert_id, a fresh uuid: the life and the evaluation an alert comes from.
Named(new) == {[alert |-> a, life |-> life, nth |-> Len(observed) + 1] : a \in new}

\* Variant: last_window_start is forgotten when there is no alert.
EvaluateForgetting ==
  LET rows == View.stats[cur]
      new == Named(AlertsOf(engine, cur, curPps, rows, now))
  IN /\ pc = "stats"
     /\ engine' = AfterWindow(engine, curPps, rows, now)
     /\ pending' = new
     /\ raised' = raised \union new
     /\ observed' = Append(observed, cur)
     /\ pc' = (IF new = {} THEN "poll" ELSE "insert")
     /\ last' = (IF new = {} THEN 0 ELSE last)
     /\ UNCHANGED <<db, writer, now, cur, curPps, inserted, txOpen, snap, life, failed>>

\* SELECT from source_stats, then evaluate_window; without alerts the window is
\* done.
Evaluate ==
  LET rows == View.stats[cur]
      new == Named(AlertsOf(engine, cur, curPps, rows, now))
  IN /\ pc = "stats"
     /\ engine' = AfterWindow(engine, curPps, rows, now)
     /\ pending' = new
     /\ raised' = raised \union new
     /\ observed' = Append(observed, cur)
     /\ pc' = (IF new = {} THEN "poll" ELSE "insert")
     /\ last' = (IF new = {} THEN cur ELSE last)
     /\ UNCHANGED <<db, writer, now, cur, curPps, inserted, txOpen, snap, life, failed>>

CanWrite ==
  /\ writer \in {"none", "worker"}
  /\ snap = <<>> \/ snap = <<Committed>>

\* Variant: every alert is committed on its own.
InsertCommitting ==
  /\ pc = "insert" /\ CanWrite
  /\ \E a \in pending : alerts' = alerts \union {a} /\ pending' = pending \ {a}
  /\ UNCHANGED <<metrics, stats, writer, now, pc, engine, last, cur, curPps, inserted,
                 txOpen, snap, history>>

\* The first INSERT opens the transaction and takes the write lock, unless the
\* transaction is open already.
Insert ==
  /\ pc = "insert" /\ CanWrite
  /\ \E a \in pending : inserted' = inserted \union {a} /\ pending' = pending \ {a}
  /\ writer' = "worker" /\ txOpen' = TRUE
  /\ UNCHANGED <<db, now, pc, engine, last, cur, curPps, snap, history>>

Commit ==
  /\ pc = "insert" /\ pending = {}
  /\ alerts' = alerts \union inserted /\ inserted' = {}
  /\ writer' = "none" /\ txOpen' = FALSE /\ snap' = <<>>
  /\ last' = cur /\ pc' = "poll"
  /\ UNCHANGED <<metrics, stats, now, engine, cur, curPps, pending, history>>

\* The lock is held for longer than busy_timeout, or the snapshot is too old: the
\* exception is logged and the loop goes on.  Nothing rolls back, so the
\* transaction that Python opened before the INSERT stays open.
InsertFails ==
  /\ pc = "insert" /\ inserted = {} /\ pending # {}
  /\ writer \in {"metrics", "stats"} \/ ~(snap = <<>> \/ snap = <<Committed>>)
  /\ pending' = {} /\ txOpen' = TRUE /\ pc' = "poll" /\ failed' = TRUE
  /\ UNCHANGED <<db, writer, now, engine, last, cur, curPps, inserted, snap,
                 life, raised, observed>>

\* The process is killed and started again; nothing of the engine is kept.
Restart ==
  /\ life < MaxLives /\ life' = life + 1
  /\ Started
  /\ writer' = IF writer = "worker" THEN "none" ELSE writer
  /\ observed' = <<>> /\ failed' = FALSE
  /\ UNCHANGED <<db, now, raised>>

Worker == Poll \/ Evaluate \/ Insert \/ Commit \/ InsertFails

Spark ==
  \/ \E query \in {"metrics", "stats"} : SparkBegins(query)
  \/ UpsertMetrics \/ UpsertStats \/ SparkAborts

Next == Worker \/ Spark \/ Tick \/ Restart

Spec == Init /\ [][Next]_vars

\* The worker keeps looping, and a Spark transaction ends.
FairSpec ==
  Spec /\ WF_vars(Worker) /\ WF_vars(UpsertMetrics \/ UpsertStats \/ SparkAborts)

-----------------------------------------------------------------------------
Snapshots == [metrics : [Windows -> Nat], stats : [Windows -> [Sources -> Row]]]

Alert == [alert : [key : Keys, ts : Windows, at : Nat, value : Nat,
                   severity : {"WARN", "CRITICAL"}, baseline : Nat],
          life : Nat, nth : Nat]

TypeOK ==
  /\ metrics \in [Windows -> Nat]
  /\ stats \in [Windows -> [Sources -> Row]]
  /\ writer \in {"none", "metrics", "stats", "worker"}
  /\ now \in Nat
  /\ pc \in {"poll", "stats", "insert"}
  /\ engine \in [baseline : Nat, count : Nat, cooldowns : [Keys -> Nat \union {Never}]]
  /\ last \in {0} \union Windows /\ cur \in {0} \union Windows /\ curPps \in Nat
  /\ pc # "poll" => cur # 0
  /\ alerts \subseteq Alert /\ pending \subseteq Alert /\ inserted \subseteq Alert
  /\ raised \subseteq Alert
  /\ txOpen \in BOOLEAN
  /\ snap = <<>> \/ \E v \in {View} : snap = <<v>> /\ v \in Snapshots
  /\ life \in Nat
  /\ observed \in Seq(Windows) /\ failed \in BOOLEAN

\* TECH_RULES 3.7, alerts.py 333-342: within the life of a worker two alerts of
\* one type and source are at least the cooldown apart, also when the insert of
\* the first one failed and its window is evaluated again.
CooldownRespected ==
  \A r, q \in raised :
    r.life = q.life /\ r.alert.key = q.alert.key /\ r # q =>
      r.alert.at - q.alert.at >= Cooldown \/ q.alert.at - r.alert.at >= Cooldown

\* The alerts of one evaluation reach the table together or not at all, whatever
\* moment the worker is killed at (alerts_worker.py 40-61).
AlertsAtomic ==
  \A r, q \in raised :
    r.life = q.life /\ r.nth = q.nth => (r \in alerts <=> q \in alerts)

\* Windows are evaluated in order, each at most once in a life in which no insert
\* failed (alerts_worker.py 82, 91).
OncePerWindow ==
  \A i, j \in DOMAIN observed :
    i < j => observed[i] <= observed[j] /\ (~failed => observed[i] # observed[j])

\* As long as no insert fails the worker comes back to the newest window again and
\* again, whatever Spark commits meanwhile, and does not hang on to an older one.
NewestReached == []<>(last = Newest(metrics) \/ failed)

\* todo.md 999: every 2 s the worker reads the newest window_metrics.
NewestAlwaysReached == \A w \in Windows : Newest(metrics) = w ~> last >= w
=============================================================================

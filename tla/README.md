# Verification of the Live Network Traffic Analyser

TLA+ models of the traffic analyser in `src/`, the TLC configurations that check them on small
instances, and theorems about them that TLAPS checks for all values of the constants.
`PROJECT.json` lists runs, mutants, findings, hazards and theorems, and maps every definition that
models code to the lines it models.

Contents: [1 The system](#1-the-system) · [2 Modules](#2-modules-and-how-they-correspond-to-the-code)
· [3 Runs](#3-what-each-run-checks) · [4 Fairness](#4-fairness) · [5 Proofs](#5-what-is-proved) ·
[6 Disagreements found](#6-where-the-code-and-its-documents-disagree) ·
[7 Not modelled](#7-what-is-not-modelled-and-why) · [8 Plan](#8-plan) · [9 Running](#9-running-the-checks)

## 1 The system

    tshark -> parser -> CaptureRunner -> writer (CSV | JSONL | TCP) -> Flume -> HDFS /traffic/raw
                                                                \-> HDFS /traffic/stream_in
    stream_in -> Spark: Lane A (windowed queries) ---+
                        Lane B (batch plugins)    ---+-> SQLite serving store (WAL)
    serving store -> alert worker -> table alerts;   serving store -> Streamlit dashboard

| Component | State | Operations | What makes it hard |
|---|---|---|---|
| TCP sink (`capture/writers.py`) | socket, ring of waiting lines, counters, back-off | write, flush, close, connect | a connection that breaks in any send, a ring at its limit, back-off against a recovered receiver |
| File sinks (`capture/writers.py`) | open file, bytes, age | write, rotate, flush, close | names taken from a clock that may be set back; rotation while Spark lists the directory |
| Capture supervisor (`capture/run_capture.py`) | child, reader threads, bounded queue, stop event, counters, statistics file | run, `_stdout_reader`, signal handler | threads, a child that dies, a join that gives up, a signal at any point |
| Parser, contract, cleaning (`capture/parser.py`, `contracts/record_schema.py`, `streaming/common/`) | none | parse one line, format a row, validate, split valid rows | three validators in three places that must agree at every bound |
| Replay (`capture/replay.py`) | previous timestamp | pass on rows of a file, pace, restamp | rows that no parser has checked |
| Ingestion (`ingestion/`) | the live zone, PID file | roll a file; list, take the cutoff, remove; Flume control, compaction | a listing that grows old while Flume closes files and Spark reads them |
| Spark application (`streaming/stream_app.py`) | list of queries, file source and offset log of each, slow-batch counter | start queries, await them, stop them on a signal, dispatch a batch to the plugins | a signal or a failure at any point of start and wait; replay of a batch after a crash, one plugin failing among several |
| Lane A (`streaming/queries/`) | offset log, watermark, aggregation state and table of each query | plan, upsert, commit a batch | every query cuts its own batches; late records; upsert and commit are two steps |
| Lane B plugins (`streaming/analytics/`) | sketches, counters, buffers, JSON state files | process_batch, persist, restore | state saved before or after the commit of the batch; eviction; caps |
| Serving store (`common/serving_db.py`) | tables | connect, upsert, cleanup | one writer, snapshots pinned by open transactions |
| Alert worker (`linkanalysis/alerts_worker.py`, `alerts.py`) | last window, EWMA baseline, cooldowns, open transaction | poll, evaluate, insert | reads tables while Spark writes them; an INSERT that fails |
| Graph analytics (`linkanalysis/`) | none between calls | graph, pruning, PageRank, centrality, Markov | nodes without out-edges, also those that lost them when the graph was pruned; a loop that ends by a tolerance |
| Dashboard, configuration, scripts | none of their own | queries, rendering | none |

The components interact through five channels, and only these are shared: the pipe and queue between
reader threads and the main thread of the capture; the TCP connection to Flume; the landing
directory; Spark's calls of `foreachBatch` (again, with the same rows, when a batch was not committed);
and the tables of the serving store.

What makes the components correct: no line is lost, repeated or reordered without being counted
between tshark and the sink; a row of the serving store never counts a record twice and, for
punctual records, counts all of them; a plugin that fails does not disturb another; a window is
alerted once, completely, within the cooldown rules; no file of the live zone is removed before every query has
committed it; a signal ends the capture and, once its queries are listed, the streaming application.

## 2 Modules and how they correspond to the code

| Module | Models | State and actions |
|---|---|---|
| `OrderedLossySink` | abstract specification | lines accepted so far, lines delivered; a delivery is an ascending extension by lines already accepted |
| `TcpLineWriter` | class `TcpLineWriter` | `socket`, `buffer`, `backoff`, `dropped`, `sent` are the attributes; `Write`, `Flush`, `Close` the methods, each one step as one thread calls them; the outcome of `_ensure_connected` and of every `sendall` is chosen within the step |
| `CaptureRunner` | `run()`, `_stdout_reader`, `sig_handler` | `pc` is the place of the main thread in `run()`; `reader[p]` where the reader of child `p` is; a reader's read, its test of the stop event and its put are separate steps |
| `AlertEngine` | class `AlertEngine` | operators on an engine state: baseline, count, cooldowns |
| `AlertWorker` | `run_worker`, `evaluate_window`, beside Spark's upserts | `Poll`, `Evaluate`, `Insert`, `Commit`, `InsertFails`, `Restart`; SQLite's write lock (`writer`), implicit transaction (`txOpen`) and snapshot (`snap`) |
| `LaneB` | `create_dispatcher`, plugins moments and fm | one step per plugin, one for the health rows, one for Spark's commit; `Restart` replays a planned batch |
| `ExactlyOnceView` | abstract specification | what a windowed query promises: every row is the count of its group over one growing set of records, and a record enters the set and its rows in one step |
| `LaneA` | the eight windowed queries | per query `Plan`, `Write`, `WriteFails`, `Commit`; `counted` is history: the records written, for the view; `GroupsOf`, `Reads`, `Matches`, `Limited` and `Outranks` say what each query groups, filters and keeps |
| `Dgim` | class `DGIM`, the exact window beside it, `process_batch` | `CountBatch(bits)` with the cap on the rows of a batch, `DgimRestart`; `Updated`, `MergeBuckets` with its `Round`, `Query` are `update`, `_merge_buckets`, `query` |
| `Sampling` | `ReservoirSampler`, the totals of `SamplingAnalytic` | `SampleBatch`, `SamplingRestart`; `outcomes` holds every sample the random draws can leave, with its weight |
| `Decay` | `DecayingCounter`, `DecayingKeyTable`, `DecayAnalytic` | `DecayBatch`, `DecayTick`, `DecayRestart`; `truth` is the same tables without pruning, `file` the state file |
| `Ams` | class `AMSF2` and the exact counter beside it in `MomentsAnalytic` | `CountItems`, `EvictWindow`, `AmsRestart`; `tracking` holds every choice the random draws can make, with its weight |
| `LinkGraph` | `build_graph_from_edges`, `prune_graph_top_n`, the power iteration of `pagerank.py`, `stationary_distribution` | `AddRow`, `StartRanking`, `Iterate`, `Return` |
| `Analytics` | the five above | they share no state, so `focus` picks the one that moves: every invariant of one speaks of its own behaviours |
| `StreamIn` | `/traffic/stream_in`: Flume's files, `cleanup_stream_in.py` | `Open`, `Roll`; `List`, `TakeCutoff`, `Remove`: the subprocess calls of the script, with the steps of others between them |
| `StreamApp` | `run()`, `handle_shutdown`, the file source of every query; extends `StreamIn` | `main`, `listed`, `awaited` are the places of the main thread, `handler` that of the signal handler, which runs in its stead; `planned` and `committed` are the logs of Spark; `columns` is the serving store: whose columns of a common row are filled; `Dispatcher` is the query of Lane B, which shares `distinct_counts` with `distinct.py` |
| `RecordContract` | parser, contract and Spark's validity condition | operators on a line or a row; the checks of the parser in their order, the condition of Spark with its third value, null |
| `RecordPath` | `CsvRotatingWriter`, driven by the capture and by replay (rows as they are or restamped) | `Capture`, `Replay`, `Close`, `Tick`; `files` is the directory, `open`, `started`, `bytes` the attributes of the writer |
| `Itemsets` | `apriori`, `pcy`, `min_support` | pure operators on a family of baskets, next to the brute-force definition |
| `ItemsetBuffer` | `RollingBasketBuffer`, `ItemsetsAnalytic.process_batch` | `Absorb`, `Publish`, `Save` are its three effects, with failures between them; `disk` is the state file |
| `MC*` | | instances for TLC: small sets for constants that a cfg cannot write |
| `*Proofs` | | theorems, see section 5 |

`TypeOK` of these modules is no property of a run: where it is proved or used in a proof the proof
has it, elsewhere it documents the state.

Definitions called "Variant" are deliberate mistakes (a dropped guard, a missing reset, an
off-by-one). Nothing refers to them; `PROJECT.json` ("mutants") names for each property the variant that
breaks it, which shows that the property depends on the code.

### Abstractions

* **TcpLineWriter.** A line is its number. Time runs in units of the initial back-off (0.5 s), so the
  real `_max_backoff` of 8 s is 16 units; `since` saturates where it no longer matters.
* **CaptureRunner.** A line is `<<child, number>>`, so that what is under way are the pairs in pipe, hand and queue; whether it parses is a free choice, as is what the
  writer does with it: accept it or raise. The back-off sleep before a restart has no effect other than time. A
  join that gives up (1 s) is possible whenever the reader has not ended.
* **AlertEngine.** Rates and means are whole numbers, the mean rounded down; the multiples are whole.
* **LaneB.** A sketch is the set of keys given to it: Flajolet–Martin bitmaps are idempotent and only
  grow, and that is all the properties use. Its estimate is the size of that set.
* **LaneA.** A row carries one number, the count of records. All records have the same length, so that
  ranking by bytes and by packets agree. Spark's watermark, state store and logs are modelled as the
  queries use them: a batch runs with the watermark left by the batch before it, a record is late
  when its window has ended at the watermark, an uncommitted batch runs again with the same records.
  `filter_counts` writes a row for every filter of a window it touched, also where nothing matched.
* **Dgim.** The bits of one predicate; the predicates themselves are SQL expressions that Spark evaluates.
* **Sampling.** Instead of probabilities, outcomes carry the number of equally likely sequences of draws that lead to them. A
  process keeps one `k`; the Bernoulli sample of a batch, which keeps no state, is left out.
* **Ams.** The same device. All estimators are alike and independent, so one stands for all; the median of means is left out.
* **LinkGraph.** Ranks are exact fractions, `ranks[v] / unit`, where the code has floats. `alpha` 1 is the
  iteration of `stationary_distribution`, which returns nothing when it did not converge.
* **StreamIn, StreamApp.** Time runs in units, `Minute` of them to a minute, because the listing shows minutes. `Zone` is the difference
  between the local time of the listing and UTC, as which it is read. `Tick` holds the premise of the retention: no file waits longer than
  `MaxLag` to be committed by every query, outages included. A file left open by a crash of Flume stays hidden.
  A file holds the records of one window, and each window has one row in the serving store. What the columns hold is `LaneA` and `LaneB`;
  here it is which query has filled them, and fm may write again any window it has been given before.
* **Decay.** A packet weighs `Unit`, a power of two, and the clock advances by multiples of the half-lives, so that
  halving is exact. `ctx.clock` does not run backwards here.
* **RecordContract.** The text of a field is a kind and a value (canonical integer of 32 bits, float, address, another spelling of
  an address, and so on). For canonical texts `format_row` and `parse_line` are identities, the empty field being `None`.
* **RecordPath.** A file is named by the second and the suffix in its name. The writer is line buffered, so a row is in its file when
  `write` returns. Pacing decides only when replay writes a row; a restamped row carries the clock at that moment, where the code adds up
  the sleeps and so falls behind by the time it takes itself.
* **ItemsetBuffer.** A basket is keyed by source and one-second slice. Batches stay below
  `max_rows_per_batch`. A batch without rows returns before it touches the state and is left out. A
  crashed driver is back after a second at the earliest: `RowsImmutable` rests on that. The product
  `min_support * n` is exact (the code computes it in floating point).

## 3 What each run checks

| Run | Question | Bounds, and why they are enough |
|---|---|---|
| `tcp_writer` | Do lines keep order and account through every sequence of failures, drains and reconnections? Is the ring emptied once the receiver stays up? | ring of 2, 5 lines, back-off up to 4: the ring overflows twice over, a drain can break before, between and after lines, the back-off doubles twice |
| `tcp_writer_loss` | Is every lost line counted, as the class comment says? It is not | same, 4 lines |
| `capture_runner` | Two generations of children, readers, main thread and signals: is a line ever lost uncounted, taken out of order, or a stop ignored, or a full pipe left unread? | 1 restart, queue of 2, pipe of 1, 2 lines per child: both readers alive together, a full queue, a full pipe and a line in a reader's hand all happen |
| `alert_worker` | Cooldown, atomic insertion, one evaluation per window, progress | 3 windows (the warm-up is 3 so that the last may spike), one loud source with two rules, 2 clock values, 1 restart |
| `alert_worker_frozen` | Does the worker reach every newest window? Not after a failed insert | 2 windows, one life |
| `lane_b` | Replays, failing plugins, failing upserts and restarts: are estimates idempotent, do they fall only where a sketch was lost, are counts exact within one life of the driver, records eventually committed? | 4 records in 3 windows with caps of 2 and 1 windows and 2 rows per batch: eviction, a late record of an evicted window and a capped batch all happen; 1 restart |
| `analytics` | DGIM: error bound, and two buckets of a size at most? Sampling: is every record as likely as another? Decay: what may pruning and restarts cost? AMS: is the estimate right on average? Power iteration: do ranks stay a distribution, and how fast does it converge? | window of 10, streams of 14 bits in batches of 3 of which 2 are used: buckets of sizes 1, 2 and 4, cascades of merges, expiry of merged buckets, restarts; reservoir of 2, 6 records of 2 lengths, batches of 3 of which 2 are used, so draws hit, miss and replace an earlier replacement; half-lives 1 and 2, a table for one key and two keys in turn, clock to 8, restart from a file of any age; 3 items, 5 positions, batches of 2, so that a position is given up and taken again; every graph of 3 rows over 3 nodes with weights 1 and 2, pruned to 2 or 3, every personalisation with 0 and 1, damping 1/2 and 1, 3 iterations: dangling nodes before and after pruning, ends by the tolerance and by the cap |
| `stream_app` | Is a file removed that a query still needs? Does what was committed stay stored in rows that queries share? Does a signal end the application? Does an active query catch up? | 2 files, 2 queries, the second one the dispatcher, batches of 1 file, a clock to 3 with 2 units to the minute, retention 2 and lag 1, 3 commands of an operator (starts and signals): a listing grows old while a file rolls, a batch planned before a restart, failures and signals at every place of `run()`. The premise `MaxLag + Minute <= Retention + Zone + 1` is tight at these values |
| `record_path` | Do parser, contract and Spark agree on a valid record? Are the rotated files together one log? | 17 lines, inside and outside of every bound and with every optional field absent, and 4 rows no parser has seen, restamped or not; rotation by 3 ticks and 2 rows, a clock to 3, 2 ticks to the second, that may be set back, 3 rows, restarts at any point: names collide within a second, also after the clock was set back |
| `lane_a` | Do the queries implement the exactly-once view? Are rows idempotent, complete for punctual records, and the leading ports stored? | `filter_counts` and `port_counts` (the two shapes: all rows kept, also zeros, and top rows kept), every log of 3 records over 3 windows and 3 flows, every cut into batches, watermark of 1 so that records are late, 1 restart, top 1 |
| `lane_a_topn` | Does `port_counts` keep at most N ports per window? It does not | same |
| `itemsets` | Are supports never overstated, both algorithms equal and exact, published rows final? | 3 items, 2 sources, 3 batches, window of 2 s, cap of 2 baskets, 1 crash: baskets age out, the cap bites, a late batch meets a basket already there, pairs collide in a bucket |

Every action of the modules fires in these runs. `CHECK_DEADLOCK` is off where the system really stops:
the capture exits, a query dies, the bounded log, clock or stream ends.

The properties, in one line each, stand as comments over their definitions. The ones a unit test
would hardly reach:

* `EventuallyDrained`: back-off is doubled by a drain that breaks on a connection just made, and still
  a receiver that stays up is reached.
* `OrderPerChild`, `LinesConserved`, `CompleteWhenJoined` (CaptureRunner): a join gives up after a second, so
  the reader of a dead child may live on and feed the queue of its successor.
* `PipeDrains`: a reader that meets a full queue counts the line as dropped and reads on, so that a slow writer never holds
  up the child.
* `OncePerWindow`, `CooldownRespected`, `AlertsAtomic`: an INSERT that fails leaves the engine updated and the window
  to be evaluated again.
* `MomentsOncePerLife`: whatever plugin or upsert fails, moments counts a record once until the driver is restarted.
* `StoredBeforeExpiry`, `FmNeverOver`, `FmShrinksOnlyWhenLost`: a sketch is dropped only with its final estimate stored, although upserts
  fail; a stored estimate falls only where a late row meets a sketch that a restart or its expiry has taken.
* `ImplementsView`: written, not committed and run again, a batch changes nothing; no reader ever sees a record in one of its rows and not in another.
* `OnTimeCounted`, `LeadersStored`: batch boundaries and restarts do not change what punctual records add up to, and the
  leaders of a window are stored although every batch ranks only the rows it changed.
* `ReservoirUnbiased`: the cap on a batch and its cut into batches leave every counted record the same chance.
* `ScoresBounded`: a key dropped and back any number of times loses less than two epsilons, and keys and
  total stay consistent although they are restored from an old file.
* `AmsUnbiased`: on average an estimator gives the exact second moment stored beside it, whatever the batches and however old the
  file a restart goes on from.
* `RanksConverge`: no rank leaks through nodes without out-edges, and the change of iteration `t` is at most `2 * alpha^(t-1)`.
* `NothingLost`: listing, cutoff and removals are steps of their own, and still no query misses a file.
* `CommittedIsStored`: a batch is upserted before it is committed, and no upsert of another query into the same row, repeated
  or late, takes its columns away.
* `StopEndsApp`, `QueriesCatchUp`: the handler and the main thread walk the same list at different places, past queries that
  have failed; after an outage the source goes on with the batch it had planned and leaves no file behind.
* `ContractRowsAreClean`: what the parser lets through obeys the contract, and what obeys it Spark keeps, with the same numbers, in spite of nulls.
* `FilesAreOneLog`: no restart, rotation or clock set back makes the writer append to a file that is no longer the last.
* `RowsNeverOver`, `PublishedExact`, `RowsImmutable`: the buffer restored after a crash is older than the batch replayed on top of it.

## 4 Fairness

Safety is checked without fairness. The liveness properties assume:

* `TcpLineWriter`: weak fairness of `Flush` and of the clock. The capture loop flushes its
  writer every `stats_interval_s` (`run_capture.py` 224), whatever else happens. The receiver is not fair; the property
  assumes that it stays up.
* `CaptureRunner`: weak fairness of the main thread and of each reader: they are threads of the operating system, and
  every wait in `run()` has a timeout. Nothing forces the child to print or to exit, or a signal to arrive.
* `AlertWorker`: weak fairness of the worker's loop and of the end of a Spark transaction, which is one `executemany`.
  The clock, new windows and restarts are not fair.
* `LaneB`: weak fairness of the dispatcher (a plugin call returns) and strong fairness of planning a non-empty batch:
  the file source takes new files in order, so that batches without valid rows between them cannot keep a
  waiting record out for ever.
* `StreamApp`: weak fairness of the main thread, in whose place the handler runs, and of the file source of every active query,
  which is a trigger on a timer. Launches, signals, kills, Flume and the clean-up are not fair.

`LaneA`, `Analytics`, `RecordPath` and `ItemsetBuffer` state safety only.

## 5 What is proved

The proofs use only the named assumptions on the constants (sizes positive, sets finite), for all values of them and
for unbounded runs; `MaxLines`, `MaxBatches` and the like are arbitrary naturals.

| Theorem | Statement | Argument |
|---|---|---|
| `TcpLineWriterProofs!TypeCorrect` | types, and the ring's bound | part of the invariant below |
| `ConnectedDrained`, `BufferNewest`, `OrderKept`, `Conservation` | `Spec => []...` of the four invariants | see below |
| `OneLoss` | `OneLossPerBreak` as an action property | step by step from the invariant |
| `Refinement` | `Spec => Sink!Spec` | initial state to initial state, every step to `Step` or a stutter, using the invariant |
| `PluginProofs!AprioriExact`, `PcyExact` | both algorithms return the brute-force result, for all finite families of baskets, thresholds and hash functions | downward closure: a basket that holds a pair holds its items, so reducing baskets to frequent items loses no frequent pair; a pair's entries inject into its bucket, so a frequent pair lies in a frequent bucket |
| `PluginProofs!Agreement` | `Spec => []AlgorithmsAgree` | the two results are equal functions by the above; needs that the buffer is always finite |
| `RowsStay` | `Spec => RowsImmutable` | the window start of a new row exceeds that of all rows |
| `NeverOver`, `Exact` | `Spec => []RowsNeverOver`, `Spec => PublishedExact` | what is buffered was absorbed, and a window's rows are written once; see below |
| `PluginProofs!Guarantees` | `DgimSpec => []DgimGuarantees`: an error of at most 50 %, at most two buckets of a size | the buckets count the ones of the exact window; the loop of the merge ends in time; see below |
| `PluginProofs!SampleUnbiased`, `SecondMomentUnbiased` | `SamplingSpec => []ReservoirUnbiased`, `AmsSpec => []AmsUnbiased` | sums over all outcomes of the draws, before and after a record; see below |
| `PluginProofs!ScoresKept` | `DecaySpec => []ScoresBounded` | a pruned score stays close to the score without pruning through every halving; see below |
| `PluginProofs!RanksStay` | `LinkSpec => []RanksConverge` | the change of the next iteration is the last one times a matrix whose rows add up to alpha; see below |
| `StreamAppProofs!NoFileLost` | `Spec => []NothingLost` | an eligible file has outstayed the lag, so every query has committed it |
| `StreamAppProofs!RowsKept` | `Spec => []CommittedIsStored` | a batch that was processed and not committed is stored, and an upsert only adds columns |
| `LaneBProofs!NeverOver`, `StoredFirst`, `ShrinksOnlyWhenLost` | `FmNeverOver`, `StoredBeforeExpiry`, `FmShrinksOnlyWhenLost` | sketches hold only keys that were delivered, and the table never runs ahead of a sketch that is kept |
| `LaneBProofs!TypeCorrect`, `OncePerLife` | `TypeOK`, `MomentsOncePerLife` | a credit per life and record; see below |
| `LaneAProofs!Refinement` | `Spec => ImplementsView` | the state store is exact where it matters, so every upsert writes exact counts |
| `LaneAProofs!CountsNeverOver`, `RowsOnlyGrow` | `Spec => []NeverOver`, `Spec => RowsGrow` | from the same invariant: counts over a larger set are larger. `RowsGrow` follows from the view and is no property of a run |
| `OnTimeRecordsCounted`, `LeadingRowsStored` | `Spec => []OnTimeCounted`, `Spec => []LeadersStored` | see below |
| `AlertWorkerProofs!TypeCorrect`, `Cooldowns`, `Atomic`, `InOrder` | types and the three invariants | the engine remembers the last alert of every key, the open transaction all alerts of the last evaluation; see below |
| `CaptureRunnerProofs!TypeCorrect`, `Ordered`, `Conserved`, `Complete` | types and the three invariants | one sequence per child from the pipe to the main thread; see below |
| `RecordPathProofs!OneLog` | `Spec => FilesAreOneLog` | the name of a new file is free, the last file opened is the only one appended to |
| `RecordPathProofs!CleanRows` | `Spec => []ContractRowsAreClean` | the contract is the last check of the parser; each condition of Spark is true of what the contract allows |

**The writer.** The invariants are not inductive one by one. `IInv` joins `TypeOK`, `ConnectedMeansDrained`,
`BufferIsNewest`, `SentInOrder` and `LinesConserved`: that a line sent directly keeps the order needs that nothing waits
(`ConnectedMeansDrained`), that a drained line keeps it needs what the ring holds (`BufferIsNewest`) and that
everything sent is older than the ring (`SentInOrder`). All outcomes of `_ensure_connected` are reduced to one lemma
about sending a prefix of the ring and losing at most the next line.

**The itemset buffer.** The invariant for agreement is that the buffer in memory and on disk has a finite domain, the table
has only keys of the two algorithms, and the rows agree. For `RowsImmutable` it is that all rows have a window start before the one
the next mining will use: `last_run_time` and the clock are related through `Publish`, `Save`, a failed save and a crash.
The second lost by a crash is what makes it inductive.

**The live zone.** The invariant says of the clean-up script what it knows. A line of the listing stays true of its file, except that the
file may be gone; the cutoff only falls further back, the longer the removal takes; a closed file younger than the lag may be
uncommitted, an older one is committed by all. The listing makes a file at most `Minute - 1` older, apart from the zone, and this is the `+ 1`
of the premise. Nothing is needed of the application: whatever it does, it commits files and never takes a commit back.
`RowsKept` needs two more facts (`StoreInv`): a query has processed the batch it is about to commit, and what a query of Lane A has processed
is stored (`WrittenIsStored`); a batch of any query only adds columns, so that neither can be undone by another.

**Flajolet-Martin.** Every key of a sketch belongs to a record delivered for its window
(`SketchesDelivered`); and the row of a window is at most its sketch unless that was lost (`TableBehindSketch`). The
upsert that fails changes neither, and the expiry comes after the upsert.

**Windowed queries.** The invariant is per query. A batch in hand ends behind the committed prefix of the log (`BatchAhead`); only committed records
and those of the batch in hand are counted, and all of these once it is written (`CountedSoFar`); the state store holds, for every window the watermark has not passed, the
counts of the committed batches (`StateExact`), which is the strengthening `NeverOver` needs: a batch that runs again starts from the same
store; the rows are counts over no more than `counted` (`RowsBehind`). The step from `Write` to `Publish` then has to show that the
rows that change are the rows of the records that are new, and that needs counts to be strictly larger with a record than without it.

**The rows of the itemset buffer.** Everything in the buffer, in memory or in the state file, is a basket of a record that was absorbed,
which bounds every support by the baskets of `absorbed`. While `complete` holds, the buffer is more: it is the window of all
baskets absorbed, and a mining takes exactly the rest of it. That a start of a window is used once (the argument for
`RowsImmutable`) makes the rows of that start the result of this one mining.

**Counting ones.** The invariant (`CountsWindow`) relates the buckets to the ones of the exact window (`SoundBuckets`): every bucket ends
at a one; the ones newer than that are as many as the sizes before it say; a bucket is no larger than these and one; the ones the oldest
bucket still has are at most its size. Expiry, a new one and one merge keep it, hence every
round of `_merge_buckets` (`RoundSound`). A query is then the ones newer than the end of the oldest bucket in question plus half of its size, and
between one and all of its ones are in question (`QueryBounds`); as it is no larger than what is newer, half of it is within the bound. That there
are at most two buckets of a size needs that sizes are powers of two (so that what is larger is at least the double, `PowersGap`), that the
loop never leaves a triple behind `i`, and that it ends: `2 * Len - i` falls in every round (`RoundTidy`), so that the `2 * Len(bs)` rounds of
`MergeBuckets` are enough, which the model takes for granted. `Analytics` moves `Dgim` by `DgimNext` alone, so that the
theorem is about its behaviours too.

**Estimates.** Both estimators are sums over a finite table of weighted outcomes, so their proofs start with the algebra of such
sums, each law by the smallest counterexample among the subsets of the domain: a sum is the only table that `Grows` by one member at
a time (`SumIs`), sums are linear, may be taken row by row or column by column (`SumSwap`), and may be gathered by
what a function makes of each member (`SumFibers`). The last two turn a sum over the outcomes after a draw into one over the outcomes before it
and the draws (`DrawnWeighted`, `TrackedWeighted`). The property of the reservoir is then inductive nearly as it stands (`SampleSound`): over the `n + 1`
positions of a draw, the totals of a full sample add up to `n` times its own plus `SampleK` times the new length (`TotalOverDraws`); the factor `n` is
left out while the sample fills. The second moment needs more (`AmsSound`): an item adds twice its own count to it, so the invariant also says
that an estimator tracks each destination with a weight that agrees with the exact count of that destination. The invariant of the moments speaks of the file as well as of the memory,
which covers the restart from an older file. As with DGIM, `Analytics` moves these modules by their own next-state relations alone.

**Decay.** `ScoresBounded` is not inductive: that a score without pruning exceeds the one in the table by less than two epsilons says too
little about the time when the key is dropped. `Close` adds what is missing, `a <= 2b + 1` for the score `a` without pruning and `b` in the table: a key that is
dropped has `b` below epsilon, so `a` is below two epsilons, and so it stays until the key comes back (`KeySound`). A key comes back with at least
one packet, which outweighs what was lost: `DecayAssumption` wants epsilon to be at most half a packet (the code uses 0.0001 packets, `decay.py:87`). Closeness survives the
division of both scores by any number, each rounded by itself (`HalvedClose`), so the proof does not lean on the exactness of halving. The other
half compares the sum of a table with the counter of all traffic (`PairSound`): a batch raises the sum by at most its rows, for keys in any order (`FilledTables`), pruning lowers
it, and time divides the sum by at least what it divides the counter by (`LaterSound`, with `ValueLater`: the time that passes is a multiple of the half-life).
The invariant `DecayInv` holds of the memory and of the file, at the clock of the next batch.

**Ranks.** That the change was small says nothing about the next one, so the invariant (`LinkInv`) bounds the change that the *next* iteration
would make (`Upcoming`). The model keeps ranks as integers of a growing unit, `Scale` being a common multiple of all row sums
(`ProductDivides`, `ScaleDivides`); so each row of the transition matrix, the one of a node without out-edges included, and the personalisation add up to `Scale`
exactly (`MovesDamped`). Hence an iteration takes a distribution to a distribution (`RankingSum`), and the difference of two successive ranks to itself
times the matrix, damped by alpha, in which the personalisation cancels (`NextShift`); a product with such a matrix does not lengthen a vector (`TimesSizes`).
The first change is at most two units because both ranks are distributions (`FirstShift`). It holds for every pruned subgraph (`prune_graph_top_n`) and for alpha up to one.

**Moments.** A record counts again when its batch is replayed, so the counters are no count of records. The invariant gives them a
`Credit`: every earlier life may have counted every delivered record once, and this life those of them that are not in the batch it has
yet to count. It holds of the saved counters as well, which is why a restart, which adds a life, is covered. A planned batch
is finite, as a batch of Spark is; this conjunct stands in `Plan`.

**On time and leading.** `OnTimeCounted` rests on three facts of a query: its watermark is that of a record it has committed
(`WatermarkSeen`), hence no punctual record is dropped as late, and those committed are in `counted` (`PunctualIn`); and the rows of a
query that keeps all of them are the counts of `counted` (`RowsExact`). `LeadersStored` speaks of rows that a batch did not change:
the invariant (`LeadersInv`) says of the committed store that its leaders are in the table, those that the batch in hand changes
excepted, and, once that batch is written, the same of the store it will commit, without exception. A row that leads there led among the
unchanged rows before, or was changed and is among the first of the changed.

**The alert worker.** For `CooldownRespected`: the time that the engine keeps for a key is not before any alert raised for it in this life, and the clock is
not behind them. For `AlertsAtomic`: what is in the table or in the hands of the worker is a union of whole evaluations, and
the alerts in hand are exactly those of the last one, so that a commit adds all of it and a kill loses all of it. For `OncePerWindow`:
`last` is the last window observed, and the newest window of the snapshot never falls behind it, because a row seen in one snapshot is in
every later one.

**The capture.** `Places(p)` numbers the places where a line of child `p` may be, from the front of the queue to the end of its pipe.
The invariant for the order: the pipe holds the newest run of lines, a line in the hand of the reader is the one before it, the
lines in the queue are older and ascending, and all are newer than the last one seen. The counts follow: every line that is moved from
place to place is in one place only, so that each step of a reader, of the main thread or of the child changes
both sides of `LinesConserved` alike. `CompleteWhenJoined` needs that a reader that ended had emptied its pipe, and that after joins in time
no reader of an earlier child is left to put a line behind the drain.

**Files and rows.** `FilesOpened` is the invariant of the writer: the files opened are different, and the open one is the last. The log is
`FlattenSeq`, whose value on a longer sequence is shown by the smallest counterexample (`PrefixesAgree`, `FlattenAppend`).
`NewNameFree`: among one number more than there are files, one is free. `ContractIsClean` has one step for each condition of Spark.

Every invariant of the passing runs is stated by a theorem. Only model-checked: liveness (`EventuallyDrained`, `StopEndsRun`, `DeadChildNoticed`,
`PipeDrains`, `NewestReached`, `RecordsCommitted`, `StopEndsApp`, `QueriesCatchUp`), because fairness and `ENABLED` are out of the prover's reach.
The induction schemes of the library cannot be instantiated: each recursion that is proved about (`PrefixesAgree`, `WalkSound`, `FeedSound`, `SumSizesNewer`, `OffersSound`, `AddsSound`,
`FilledTables`, `TwoToSum`, `PowersExist`, `SmallProducts`, `ProductDivides`) has its own argument by the smallest counterexample.

## 6 Where the code and its documents disagree

Three are runs that TLC refutes (`PROJECT.json`, "findings"):

1. **A broken drain loses a line uncounted** (`writers.py:230`, `:262`; the class comment at 186 says "then drops with counter").
   `popleft()` comes before `sendall()`. `OneLossPerBreak` bounds it: one line per broken connection.
2. **The alert worker freezes** (`alerts_worker.py:94`; `docs/todo.md:999`). A failed INSERT leaves Python's
   implicit transaction open; the next SELECT pins a snapshot, and later INSERTs fail on it.
3. **`port_counts` keeps more than the top N** (`counts.py:200`; `docs/todo.md:682`). The batch ranks the rows it changed; rows
   of earlier batches stay.

Others were met while reading or modelling and have no run of their own:

* A line may be put after the final drain (`run_capture.py:283`; comment at 274): the reader is not joined in the
  shutdown and may have passed its test of the stop event.
* A batch replayed after a crash is counted twice by moments, whose state is persisted before Spark commits (`moments.py:341`;
  `docs/todo.md:792`). `MomentsOncePerLife` bounds it: never without a restart.
* A row whose validity condition is null (no protocol, for instance) is neither valid nor invalid to `split_valid`; it is dropped
  without being counted (`cleaning.py:108`).
* Replay passes on rows that do not obey the contract, and its `_format_ts_epoch` takes seconds and milliseconds apart
  (`replay.py:40`), so that restamped times can step back at the turn of a second.
* Alerts whose insert failed are not raised again: the cooldown has started (`alerts_worker.py:41`).
* A fan-out that develops after the evaluation of its window raises nothing (`alerts_worker.py:82`, `TECH_RULES.md:169`).
* The baseline stored with a spike contains the rate that raised it (`alerts.py:250`), and a rate of exactly the multiple
  alerts (`alerts.py:220`, `>=`; `TECH_RULES.md:167` writes `>`). `AlertEngine` models both as coded.
* `f2_exact`, `f2_ams` and the decay tables are never written: the dispatcher builds the context without a connection (`stream_app.py:114`,
  `moments.py:212`, `decay.py:304`). `ContextHasConn` in `LaneB`.
* While upserts fail, fm does not expire sketches (`fm.py:271`; comment at 275).
* DGIM estimates a window with a single 1 as 0 (`dgim.py:129`; the 50 % bound at 45). `HalfErrorAboveOne` (a part of `DgimGuarantees`) is the bound for all other windows.
* The edges of a window may sum to less than its packets without truncation (`docs/validation_matrix.md:35`): the two queries cut
  their batches apart and drop different late records.
* `block` awaits the queries in the order of their list (`stream_app.py:268`); the death of one goes unnoticed until all before it have ended.
* A signal during the start-up stops the queries listed so far; those started afterwards run on and `run()` blocks
  (`stream_app.py:83`; `docs/todo.md:653`). `_running`, which the handler clears, is read by no one. `StopEndsApp` holds once all are listed.
* The clean-up reads the listing's local minutes as UTC (`cleanup_stream_in.py:18`): a file may go up to a minute before the retention,
  and later or earlier by the zone (`docs/todo.md:543`). `RetentionAssumption` says how much slack this takes.
* Flume writes below `%Y/%m/%d/%H` (`lnta-agent.conf`), compaction reads `dt=.../hr=...` (`compact_raw.py:46`); a source configured as
  `lnta.source.` is not the `lnta.sources` of line 4; and `--dt` with `--hr` accepts the current hour (`docs/todo.md:538`).
* DGIM is given no `state_dir` and nothing calls `restore()` (`stream_app.py:74`, `dgim.py:353`; `docs/todo.md:743`): `DgimRestart` starts from nothing.
* Nothing calls `cleanup()` of the serving store (`serving_db.py:140`; `TECH_RULES.md:253`).
* Nodes without out-edges have uniform rows in the Markov matrix (`markov.py:33`; `TECH_RULES.md:160` has them omitted), and rows of
  the heatmap that lose a part of their targets to the cut sum to less than 1 (`markov.py:149`).
* `DecayingKeyTable` prunes only keys below epsilon, so it grows beyond `max_keys` while keys are hot (`decay.py:81`, `:100`); the
  top keys of all half-lives share one key in `decay_top_keys`, the last one wins (`decay.py:280`).
* `upsert` overwrites a column that one row of the call lacks with NULL (`serving_db.py:91`, `:126`); no caller mixes shapes.

## 7 What is not modelled, and why

* Anonymiser, generator, configuration, schema: functions on one record or one file without state shared over steps.
* Interface listing, tshark command line, dashboard, shell scripts, test data: I/O and formatting.
* Compaction, verification, Flume control: each is one command that an operator runs by hand on files nobody writes any more, or should
  not (section 6).
* Centrality, heatmap and next-hop rows: functions of the graph that `LinkGraph` has.
* The Bernoulli sample of a batch, predicates of `counting_ones`, parsing of filter expressions: no state carried over steps.
  `snapshot` and `restore` of DGIM: called by no one.
* Accuracy of the Flajolet–Martin and HyperLogLog estimators: probability over hash functions. What is modelled is their use over
  batches, replays and expiry.
* The registry of plugins, which is filled at start-up and does not change; the progress log.
* `cleanup()` of the serving store, called by no one.
* Flume, HDFS, Spark and SQLite themselves: external, modelled as far as the code depends on them.

## 8 Plan

Ordered by how much of the system depends on it. Modules that are to be proved about have no RECURSIVE operator; their
constants carry named assumptions; invariants are conjunctions of named parts.

1. *Done, models:* `TcpLineWriter`; `CaptureRunner`; `AlertEngine` and `AlertWorker`; `LaneB`; `Itemsets` and `ItemsetBuffer`; `LaneA`; `Dgim`, `Sampling`,
   `Decay`, `Ams` and `LinkGraph`, composed in `Analytics`; `RecordContract` and `RecordPath` with replay; `StreamIn` and `StreamApp`.
2. *Done, abstract specifications:* `OrderedLossySink`, `ExactlyOnceView`, each with a proof of its refinement.
3. *Done, proofs:* the writer, the capture, the parser with the rotated files, the itemset algorithms and their buffer, counting ones, the reservoir, the second moment, decaying counters and the ranks, the live zone, `LaneB`,
   `LaneA`, the alert worker.
4. *Next, proofs:* the properties of the plugins once more for the composed next-state relation of `Analytics`; the guarantees of
   `Capture` below from those of its two parts.
5. *Next, models:* `Capture`, which composes `CaptureRunner` with `TcpLineWriter` through the abstract sink; `FlumeControl` (PID file);
   clean-up of the serving store, once something calls it.

## 9 Running the checks

    tlc -workers 2 -config MCTcpLineWriter.cfg TcpLineWriter.tla
    tlapm TcpLineWriterProofs.tla

`PROJECT.json` ("runs") pairs modules and configurations. The longest run, `alert_worker`, takes about two and a half
minutes.

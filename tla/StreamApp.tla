----------------------------- MODULE StreamApp -----------------------------
(***************************************************************************)
(* The life of the streaming application (streaming/stream_app.py) over    *)
(* the live zone.  run() starts its queries one after the other and puts   *)
(* each in a list, then awaits them in the order of the list; the signal   *)
(* handler stops those that are in the list when it runs.  Each query      *)
(* reads every file of the zone by Spark's file source: it writes a batch  *)
(* of files to its offset log, processes it and commits it, and after a    *)
(* restart takes up the batch it had planned.  The queries fill columns of *)
(* their own in common rows: distinct_counts has those of distinct.py and, *)
(* through the dispatcher of Lane B, those of fm.py.  Here a file holds    *)
(* the records of one window, and there is one row for it.                 *)
(***************************************************************************)
EXTENDS StreamIn

CONSTANTS NQueries,     \* the queries run() starts
          MaxFiles,     \* max_files_per_trigger
          MaxLag,       \* the longest a file waits for a query, outages included
          MaxCommands   \* bound on what an operator does: starts and signals

ASSUME StreamAppAssumption ==
  /\ NQueries \in Nat \ {0} /\ MaxFiles \in Nat \ {0}
  /\ MaxCommands \in Nat

\* The retention covers the lag, the granularity of the listing and its time zone.
ASSUME RetentionAssumption ==
  MaxLag \in Nat /\ MaxLag + Minute <= Retention + Zone + 1

Queries == 1..NQueries

\* The dispatcher of Lane B is started last.
Dispatcher == NQueries

VARIABLES
  main,      \* the main thread: "down", "starting", "awaiting"
  listed,    \* how many queries are in self.queries
  awaited,   \* the query main awaits
  handler,   \* the next query of the list to stop, 0 when no handler runs
  query,     \* "off", "active", "written" (the batch is processed), "stopped", "failed"
  planned,   \* the files of the batch in the offset log and not committed
  committed, \* the files of committed batches
  columns,   \* the serving store: the queries of Lane A whose columns of a row are filled
  commands   \* history: starts of the application and signals to it

appVars == <<main, listed, awaited, handler, query, commands>>
logVars == <<planned, committed, columns>>
vars == <<streamInVars, appVars, logVars>>

Init ==
  /\ StreamInInit
  /\ main = "down" /\ listed = 0 /\ awaited = 0 /\ handler = 0
  /\ query = [q \in Queries |-> "off"]
  /\ planned = [q \in Queries |-> {}] /\ committed = [q \in Queries |-> {}]
  /\ columns = [f \in Files |-> {}]
  /\ commands = 0

-----------------------------------------------------------------------------
\* The main thread; a signal handler interrupts it and runs in its place.
Running(at) == main = at /\ handler = 0

Launch ==
  /\ main = "down" /\ commands < MaxCommands
  /\ commands' = commands + 1 /\ main' = "starting"
  /\ UNCHANGED <<listed, awaited, handler, query>>

\* A query runs before start() returns it to be appended.
StartQuery ==
  /\ Running("starting") /\ query[listed + 1] = "off"
  /\ query' = [query EXCEPT ![listed + 1] = "active"]
  /\ UNCHANGED <<main, listed, awaited, handler, commands>>

AppendQuery ==
  /\ Running("starting") /\ query[listed + 1] # "off"
  /\ listed' = listed + 1
  /\ IF listed' = NQueries
     THEN main' = "awaiting" /\ awaited' = 1
     ELSE UNCHANGED <<main, awaited>>
  /\ UNCHANGED <<handler, query, commands>>

\* The end of the process ends its queries and forgets the list.
Exit ==
  /\ main' = "down" /\ listed' = 0 /\ awaited' = 0 /\ handler' = 0
  /\ query' = [q \in Queries |-> "off"]
  /\ UNCHANGED commands

\* awaitTermination returns when the query was stopped and raises when it failed,
\* which ends the process with 1.
Await ==
  /\ Running("awaiting")
  /\ \/ /\ query[awaited] = "failed" \/ (query[awaited] = "stopped" /\ awaited = NQueries)
        /\ Exit
     \/ /\ query[awaited] = "stopped" /\ awaited < NQueries
        /\ awaited' = awaited + 1
        /\ UNCHANGED <<main, listed, handler, query, commands>>

\* A start() that raises and a kill end the process at any point.
Killed == main # "down" /\ Exit

Signal ==
  /\ main # "down" /\ handler = 0 /\ commands < MaxCommands
  /\ commands' = commands + 1 /\ handler' = 1
  /\ UNCHANGED <<main, listed, awaited, query>>

Active(q) == query[q] \in {"active", "written"}

\* Variant of HandleShutdown: a query that is no longer active ends the loop.
HandleUntilInactive ==
  /\ handler > 0
  /\ IF handler > listed
     THEN handler' = 0 /\ UNCHANGED query
     ELSE IF Active(handler)
          THEN handler' = handler + 1 /\ query' = [query EXCEPT ![handler] = "stopped"]
          ELSE handler' = 0 /\ UNCHANGED query
  /\ UNCHANGED <<main, listed, awaited, commands>>

\* One query of the list; the handler returns after the last.
HandleShutdown ==
  /\ handler > 0
  /\ IF handler > listed
     THEN handler' = 0 /\ UNCHANGED query
     ELSE /\ handler' = handler + 1
          /\ query' = [query EXCEPT ![handler] = IF Active(handler) THEN "stopped" ELSE @]
  /\ UNCHANGED <<main, listed, awaited, commands>>

App == StartQuery \/ AppendQuery \/ Await \/ HandleShutdown

-----------------------------------------------------------------------------
\* Variant of Unseen: a file no newer than one that was seen is taken for seen.
UnseenByTime(q) ==
  {f \in Visible : \A g \in planned[q] \union committed[q] : file[f].mtime > file[g].mtime}

\* The file source of one query: the oldest files it has not seen, up to MaxFiles.
Unseen(q) == Visible \ (planned[q] \union committed[q])

OldestFiles(S) ==
  {b \in kSubset(Min({MaxFiles, Cardinality(S)}), S) :
     \A f \in b, g \in S \ b : file[f].mtime <= file[g].mtime}

PlanFiles(q) ==
  /\ query[q] = "active" /\ planned[q] = {} /\ Unseen(q) # {}
  /\ \E b \in OldestFiles(Unseen(q)) : planned' = [planned EXCEPT ![q] = b]
  /\ UNCHANGED <<appVars, committed, columns>>

\* Variant of Upserted: INSERT OR REPLACE puts a new row in the place of the old one.
UpsertedReplacing(rows, own) ==
  [f \in Files |-> IF f \in rows THEN own ELSE columns[f]]

\* upsert() into the rows of columns that its caller knows: the others keep what they
\* have.
Upserted(rows, own) ==
  [f \in Files |-> IF f \in rows THEN columns[f] \union own ELSE columns[f]]

\* foreachBatch of a query of Lane A reads the files and upserts.
WriteRows(q) ==
  /\ q # Dispatcher /\ query[q] = "active"
  /\ planned[q] # {} /\ planned[q] \subseteq Visible
  /\ columns' = Upserted(planned[q], {q})
  /\ query' = [query EXCEPT ![q] = "written"]
  /\ UNCHANGED <<main, listed, awaited, handler, commands, planned, committed>>

\* The dispatcher: fm upserts the windows of the batch and those of earlier batches that
\* it still holds, in columns that LaneB follows; an upsert that raises is logged and
\* the batch goes on.
Dispatch ==
  /\ query[Dispatcher] = "active"
  /\ planned[Dispatcher] # {} /\ planned[Dispatcher] \subseteq Visible
  /\ \/ \E held \in SUBSET committed[Dispatcher] :
          columns' = Upserted(planned[Dispatcher] \union held, {})
     \/ UNCHANGED columns
  /\ query' = [query EXCEPT ![Dispatcher] = "written"]
  /\ UNCHANGED <<main, listed, awaited, handler, commands, planned, committed>>

Process(q) == WriteRows(q) \/ (q = Dispatcher /\ Dispatch)

CommitFiles(q) ==
  /\ query[q] = "written" /\ query' = [query EXCEPT ![q] = "active"]
  /\ committed' = [committed EXCEPT ![q] = @ \union planned[q]]
  /\ planned' = [planned EXCEPT ![q] = {}]
  /\ UNCHANGED <<main, listed, awaited, handler, commands, columns>>

\* The batch raises: a file of it is gone, its upsert or its commit fails.
BatchFails(q) ==
  /\ Active(q) /\ planned[q] # {}
  /\ query' = [query EXCEPT ![q] = "failed"]
  /\ UNCHANGED <<main, listed, awaited, handler, commands, logVars>>

Source(q) == PlanFiles(q) \/ Process(q) \/ CommitFiles(q)

\* Time passes, but no file outstays MaxLag without being committed by every query.
Tick ==
  /\ now < MaxNow
  /\ \A f \in Visible, q \in Queries :
       f \in committed[q] \/ now + 1 - file[f].mtime <= MaxLag
  /\ now' = now + 1
  /\ UNCHANGED <<file, cleaner, todo, appVars, logVars>>

Next ==
  \/ (Flume \/ Cleanup) /\ UNCHANGED <<appVars, logVars>>
  \/ (Launch \/ App \/ Signal \/ Killed) /\ UNCHANGED <<streamInVars, logVars>>
  \/ \E q \in Queries : (Source(q) \/ BatchFails(q)) /\ UNCHANGED streamInVars
  \/ Tick

Spec == Init /\ [][Next]_vars

\* The main thread and its handler run, and an active query goes on with its batches;
\* nothing makes an operator start the application again.
FairSpec ==
  /\ Spec /\ WF_vars(App /\ UNCHANGED <<streamInVars, logVars>>)
  /\ \A q \in Queries : WF_vars(Source(q) /\ UNCHANGED streamInVars)

-----------------------------------------------------------------------------
TypeOK ==
  /\ now \in 0..MaxNow /\ cleaner \in {"idle", "listed", "removing"}
  /\ file \in [Files -> [state : {"none", "open", "closed", "removed"}, mtime : 0..MaxNow]]
  /\ todo \subseteq [path : Files, stable : BOOLEAN, mtime : 0..MaxNow]
  /\ main \in {"down", "starting", "awaiting"}
  /\ listed \in 0..NQueries /\ awaited \in 0..NQueries /\ handler \in 0..(NQueries + 1)
  /\ query \in [Queries -> {"off", "active", "written", "stopped", "failed"}]
  /\ columns \in [Files -> SUBSET Queries]
  /\ planned \in [Queries -> SUBSET Files] /\ committed \in [Queries -> SUBSET Files]
  /\ commands \in 0..MaxCommands

\* The cleanup never removes a file that some query has still to commit, whatever
\* happens between its listing, its cutoff and its removals and however often the
\* application fails and restarts, when the retention covers the lag, a minute and the
\* zone (cleanup_stream_in.py 53-65).
NothingLost ==
  \A f \in Files, q \in Queries : file[f].state = "removed" => f \in committed[q]

\* What a query of Lane A has committed is in the serving store, and stays there: no
\* upsert of another query into the same row, failing, repeated after a crash, or
\* writing again the windows of older batches, takes its columns away (serving_db.py
\* 84-137, distinct.py 96-116, fm.py 250-275).
CommittedIsStored ==
  \A q \in Queries \ {Dispatcher} : \A f \in committed[q] : q \in columns[f]

\* A signal that comes when every query has been started ends the application,
\* whichever queries have failed by then (stream_app.py 78-86, 267-269).
StopEndsApp == (handler > 0 /\ main = "awaiting") ~> main = "down"

\* An active query commits every file that was closed, also after a restart that found
\* a batch planned: no file is left behind by the order the source takes them in, by
\* files that close meanwhile, or by the cleanup (schema.py 38-45).
QueriesCatchUp ==
  \A q \in Queries :
    Active(q) ~> (Visible \subseteq committed[q] \/ ~Active(q))
=============================================================================

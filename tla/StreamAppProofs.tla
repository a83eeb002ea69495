-------------------------- MODULE StreamAppProofs --------------------------
(* The cleanup of the live zone removes no file that a query still needs,   *)
(* for every number of files and queries, every lag and retention, every    *)
(* granularity and time zone of the listing; and what a query has committed *)
(* is in the serving store.                                                 *)
EXTENDS StreamApp, TLAPS

States == {"none", "open", "closed", "removed"}

Types ==
  /\ now \in Nat
  /\ file \in [Files -> [state : States, mtime : Nat]]
  /\ todo \subseteq [path : Files, stable : BOOLEAN, mtime : Nat]
  /\ committed \in [Queries -> SUBSET Files]

\* A line of the listing stays true of its file, except that the file may be gone.
ListingHolds ==
  \A l \in todo : l.stable =>
    file[l.path].state \in {"closed", "removed"} /\ file[l.path].mtime = l.mtime

\* The cutoff lies further back the longer the removal takes.
RemovedAreOld ==
  cleaner = "removing" =>
    \A l \in todo : l.stable /\ Modified(l.mtime) < now - Retention

CommittedInTime ==
  \A f \in Files, q \in Queries :
    file[f].state = "closed" => f \in committed[q] \/ now - file[f].mtime <= MaxLag

IInv == Types /\ ListingHolds /\ RemovedAreOld /\ CommittedInTime /\ NothingLost

\* What a query of Lane A has processed is stored before it is committed.
WrittenIsStored ==
  \A q \in Queries \ {Dispatcher} :
    query[q] = "written" => \A f \in planned[q] : q \in columns[f]

QueryStates == {"off", "active", "written", "stopped", "failed"}

StoreInv ==
  /\ query \in [Queries -> QueryStates]
  /\ planned \in [Queries -> SUBSET Files]
  /\ committed \in [Queries -> SUBSET Files]
  /\ columns \in [Files -> SUBSET Queries]
  /\ WrittenIsStored /\ CommittedIsStored

-----------------------------------------------------------------------------
\* The listing makes a file at most Minute - 1 older than it is, apart from the zone.
LEMMA ModifiedBound ==
  ASSUME NEW m \in Nat
  PROVE  Modified(m) \in Int /\ Modified(m) + Minute >= m + Zone + 1
<1>1. Minute \in Nat \ {0} /\ Zone \in Int BY StreamInAssumption
<1>2. m % Minute \in 0..(Minute - 1) BY <1>1
<1>. QED BY <1>1, <1>2 DEF Modified

\* What the script takes for older than the retention has outstayed the lag.
LEMMA OldMeansLate ==
  ASSUME NEW m \in Nat, NEW t \in Nat, Modified(m) < t - Retention
  PROVE  ~(t - m <= MaxLag)
<1>1. Minute \in Nat /\ Zone \in Int /\ Retention \in Nat BY StreamInAssumption
<1>2. MaxLag \in Nat /\ MaxLag + Minute <= Retention + Zone + 1 BY RetentionAssumption
<1>3. Modified(m) \in Int /\ Modified(m) + Minute >= m + Zone + 1 BY ModifiedBound
<1>. QED BY <1>1, <1>2, <1>3

LEMMA InitIInv == Init => IInv
BY DEF Init, StreamInInit, IInv, Types, States, ListingHolds, RemovedAreOld,
       CommittedInTime, NothingLost

-----------------------------------------------------------------------------
\* Flume writes hidden files only, and a file that it closes is new.
LEMMA FlumeKeeps ==
  ASSUME IInv, Flume, UNCHANGED committed
  PROVE  IInv'
<1>. USE DEF IInv
<1>1. PICK f \in Files : Open(f) \/ Roll(f) BY DEF Flume
<1>2. /\ file[f].state \in {"none", "open"}
      /\ \E s \in {"open", "closed"}, m \in {file[f].mtime, now} :
           /\ file' = [file EXCEPT ![f] = [state |-> s, mtime |-> m]]
           /\ s = "closed" => m = now
      /\ UNCHANGED <<now, cleaner, todo>>
  <2>1. [file[f] EXCEPT !.state = "open"] = [state |-> "open", mtime |-> file[f].mtime]
    BY DEF Types
  <2>2. CASE Open(f) BY <2>1, <2>2 DEF Open
  <2>3. CASE Roll(f) BY <2>3 DEF Roll
  <2>. QED BY <1>1, <2>2, <2>3
<1>3. PICK s \in {"open", "closed"}, m \in {file[f].mtime, now} :
        /\ file' = [file EXCEPT ![f] = [state |-> s, mtime |-> m]]
        /\ s = "closed" => m = now
  BY <1>2
<1>4. Types' BY <1>2, <1>3 DEF Types, States
<1>5. ListingHolds'
  <2>1. \A l \in todo : l.stable => l.path # f BY <1>2 DEF ListingHolds
  <2>. QED BY <2>1, <1>2, <1>3 DEF ListingHolds, Types
<1>6. RemovedAreOld' BY <1>2 DEF RemovedAreOld, Modified
<1>7. CommittedInTime'
  <2>1. MaxLag \in Nat BY RetentionAssumption
  <2>. QED BY <2>1, <1>2, <1>3 DEF CommittedInTime, Types
<1>8. NothingLost' BY <1>2, <1>3 DEF NothingLost, Types
<1>. QED BY <1>4, <1>5, <1>6, <1>7, <1>8

LEMMA ListKeeps ==
  ASSUME IInv, List, UNCHANGED committed
  PROVE  IInv'
<1>. USE DEF IInv
<1>1. /\ todo' = {Line(f) : f \in Visible \union Hidden}
      /\ cleaner' = "listed" /\ UNCHANGED <<now, file>>
  BY DEF List
<1>2. Visible \subseteq Files /\ Hidden \subseteq Files BY DEF Visible, Hidden
<1>3. \A f \in Files : Line(f) \in [path : Files, stable : BOOLEAN, mtime : Nat]
  BY DEF Line, Stable, Types
<1>4. Types' BY <1>1, <1>2, <1>3 DEF Types
<1>5. ListingHolds'
  <2>1. \A l \in todo' : \E g \in Files : l = Line(g) BY <1>1, <1>2
  <2>2. \A g \in Files :
          /\ Line(g).path = g /\ Line(g).mtime = file[g].mtime
          /\ Line(g).stable => file[g].state = "closed"
    BY DEF Line, Stable, Visible
  <2>. QED BY <2>1, <2>2, <1>1 DEF ListingHolds
<1>6. RemovedAreOld' BY <1>1 DEF RemovedAreOld
<1>. QED BY <1>1, <1>4, <1>5, <1>6 DEF CommittedInTime, NothingLost

LEMMA TakeCutoffKeeps ==
  ASSUME IInv, TakeCutoff, UNCHANGED committed
  PROVE  IInv'
<1>. USE DEF IInv
<1>1. /\ todo' = {l \in todo : l.stable /\ Modified(l.mtime) < now - Retention}
      /\ UNCHANGED <<now, file>>
  BY DEF TakeCutoff, EligibleFiles
<1>2. Types' BY <1>1 DEF Types
<1>3. ListingHolds' BY <1>1 DEF ListingHolds
<1>4. RemovedAreOld' BY <1>1 DEF RemovedAreOld, Modified
<1>. QED BY <1>1, <1>2, <1>3, <1>4 DEF CommittedInTime, NothingLost

\* A file that is removed has outstayed the lag, so every query has committed it.
LEMMA RemoveKeeps ==
  ASSUME IInv, NEW l \in todo, Remove(l), UNCHANGED committed
  PROVE  IInv'
<1>. USE DEF IInv
<1>1. cleaner = "removing" /\ todo' \subseteq todo /\ now' = now BY DEF Remove
<1>2. CASE UNCHANGED file
  BY <1>1, <1>2 DEF Types, ListingHolds, RemovedAreOld, Modified, CommittedInTime, NothingLost
<1>3. CASE file' = [file EXCEPT ![l.path].state = "removed"]
  <2>1. /\ l.path \in Files /\ l.mtime \in Nat /\ l.stable
        /\ Modified(l.mtime) < now - Retention
    BY <1>1 DEF Types, RemovedAreOld
  <2>2. file[l.path].state \in {"closed", "removed"} /\ file[l.path].mtime = l.mtime
    BY <2>1 DEF ListingHolds
  <2>3. \A q \in Queries : l.path \in committed[q]
    <3>1. CASE file[l.path].state = "removed" BY <3>1, <2>1 DEF NothingLost
    <3>2. CASE file[l.path].state = "closed"
      <4>1. ~(now - l.mtime <= MaxLag) BY <2>1, OldMeansLate DEF Types
      <4>. QED BY <4>1, <3>2, <2>1, <2>2 DEF CommittedInTime
    <3>. QED BY <2>2, <3>1, <3>2
  <2>4. \A f \in Files : /\ file'[f].mtime = file[f].mtime
                         /\ file'[f].state = IF f = l.path THEN "removed" ELSE file[f].state
    BY <1>3, <2>1 DEF Types
  <2>5. Types' BY <1>1, <1>3, <2>1 DEF Types, States
  <2>6. ListingHolds' BY <1>1, <2>4 DEF ListingHolds, Types
  <2>7. RemovedAreOld' BY <1>1 DEF RemovedAreOld, Modified
  <2>8. CommittedInTime' BY <1>1, <2>4 DEF CommittedInTime
  <2>9. NothingLost' BY <2>3, <2>4 DEF NothingLost
  <2>. QED BY <2>5, <2>6, <2>7, <2>8, <2>9
<1>. QED BY <1>2, <1>3 DEF Remove

\* A commit only adds files.
LEMMA CommitKeeps ==
  ASSUME IInv, StoreInv, NEW q \in Queries, CommitFiles(q), UNCHANGED streamInVars
  PROVE  IInv'
<1>. USE DEF IInv
<1>1. /\ planned[q] \subseteq Files
      /\ committed' = [committed EXCEPT ![q] = @ \union planned[q]]
      /\ UNCHANGED <<now, file, cleaner, todo>>
  BY DEF CommitFiles, StoreInv, streamInVars
<1>2. Types' BY <1>1 DEF Types
<1>3. \A p \in Queries : committed[p] \subseteq committed'[p] BY <1>1 DEF Types
<1>4. CommittedInTime' BY <1>1, <1>3 DEF CommittedInTime
<1>5. NothingLost' BY <1>1, <1>3 DEF NothingLost
<1>. QED BY <1>1, <1>2, <1>4, <1>5 DEF ListingHolds, RemovedAreOld, Modified

LEMMA TickKeeps ==
  ASSUME IInv, Tick
  PROVE  IInv'
<1>. USE DEF IInv
<1>1. now' = now + 1 /\ UNCHANGED <<file, cleaner, todo, committed>>
  BY DEF Tick, logVars
<1>2. Types' BY <1>1 DEF Types
<1>3. RemovedAreOld'
  <2>1. Retention \in Nat BY StreamInAssumption
  <2>2. \A l \in todo : Modified(l.mtime) \in Int BY ModifiedBound DEF Types
  <2>. QED BY <2>1, <2>2, <1>1 DEF RemovedAreOld, Types, Modified
<1>4. CommittedInTime'
  <2>1. \A f \in Visible, q \in Queries :
          f \in committed[q] \/ now + 1 - file[f].mtime <= MaxLag
    BY DEF Tick
  <2>2. \A f \in Files : file[f].state = "closed" => f \in Visible BY DEF Visible
  <2>3. \A f \in Files, q \in Queries :
          file[f].state = "closed" => f \in committed[q] \/ now' - file[f].mtime <= MaxLag
    BY <2>1, <2>2, <1>1 DEF Types
  <2>. QED BY <2>3, <1>1 DEF CommittedInTime
<1>. QED BY <1>1, <1>2, <1>3, <1>4 DEF ListingHolds, NothingLost

\* Nothing else touches the zone or what is committed.
LEMMA OthersKeep ==
  ASSUME IInv, UNCHANGED <<now, file, cleaner, todo, committed>>
  PROVE  IInv'
BY DEF IInv, Types, ListingHolds, RemovedAreOld, Modified, CommittedInTime, NothingLost

LEMMA NextIInv == IInv /\ StoreInv /\ [Next]_vars => IInv'
<1>. SUFFICES ASSUME IInv, StoreInv, [Next]_vars PROVE IInv'
  OBVIOUS
<1>1. CASE Flume /\ UNCHANGED <<appVars, logVars>>
  BY <1>1, FlumeKeeps DEF logVars
<1>2. CASE Cleanup /\ UNCHANGED <<appVars, logVars>>
  BY <1>2, ListKeeps, TakeCutoffKeeps, RemoveKeeps DEF Cleanup, logVars
<1>3. CASE (Launch \/ App \/ Signal \/ Killed) /\ UNCHANGED <<streamInVars, logVars>>
  BY <1>3, OthersKeep DEF streamInVars, logVars
<1>4. ASSUME NEW q \in Queries, Source(q) \/ BatchFails(q), UNCHANGED streamInVars
      PROVE  IInv'
  <2>1. CASE PlanFiles(q) BY <1>4, <2>1, OthersKeep DEF PlanFiles, streamInVars
  <2>2. CASE CommitFiles(q) BY <1>4, <2>2, CommitKeeps
  <2>3. CASE BatchFails(q) BY <1>4, <2>3, OthersKeep DEF BatchFails, streamInVars, logVars
  <2>4. CASE Process(q)
    BY <1>4, <2>4, OthersKeep DEF Process, WriteRows, Dispatch, streamInVars
  <2>. QED BY <1>4, <2>1, <2>2, <2>3, <2>4 DEF Source
<1>5. CASE Tick BY <1>5, TickKeeps
<1>6. CASE UNCHANGED vars BY <1>6, OthersKeep DEF vars, streamInVars, logVars
<1>. QED BY <1>1, <1>2, <1>3, <1>4, <1>5, <1>6 DEF Next

-----------------------------------------------------------------------------
\* An upsert adds to the rows and takes nothing away.
LEMMA UpsertAdds ==
  ASSUME StoreInv, NEW rows, NEW own \in SUBSET Queries
  PROVE  /\ Upserted(rows, own) \in [Files -> SUBSET Queries]
         /\ \A f \in Files : columns[f] \subseteq Upserted(rows, own)[f]
         /\ \A f \in Files : f \in rows => own \subseteq Upserted(rows, own)[f]
BY DEF StoreInv, Upserted

\* No process writes to the logs or the store but a query, and none resumes a batch in
\* the middle.
LEMMA ProcessKeeps ==
  ASSUME StoreInv, query' \in [Queries -> QueryStates], UNCHANGED logVars,
         \A q \in Queries : query'[q] = "written" => query[q] = "written"
  PROVE  StoreInv'
BY DEF StoreInv, WrittenIsStored, CommittedIsStored, logVars

LEMMA SourceKeeps ==
  ASSUME StoreInv, NEW p \in Queries, Source(p)
  PROVE  StoreInv'
<1>. USE DEF StoreInv, QueryStates
<1>1. CASE PlanFiles(p)
  <2>1. PICK b \in OldestFiles(Unseen(p)) : planned' = [planned EXCEPT ![p] = b]
    BY <1>1 DEF PlanFiles
  <2>2. b \subseteq Files
    <3>1. b \subseteq Unseen(p) BY DEF OldestFiles, kSubset
    <3>. QED BY <3>1 DEF Unseen, Visible
  <2>3. query[p] = "active" /\ UNCHANGED <<query, committed, columns>>
    BY <1>1 DEF PlanFiles, appVars
  <2>4. WrittenIsStored' BY <2>1, <2>3 DEF WrittenIsStored
  <2>5. CommittedIsStored' BY <2>3 DEF CommittedIsStored
  <2>. QED BY <2>1, <2>2, <2>3, <2>4, <2>5
<1>2. CASE WriteRows(p)
  <2>1. /\ columns' = Upserted(planned[p], {p})
        /\ query' = [query EXCEPT ![p] = "written"]
        /\ UNCHANGED <<planned, committed>>
    BY <1>2 DEF WriteRows
  <2>2. /\ columns' \in [Files -> SUBSET Queries]
        /\ \A f \in Files : columns[f] \subseteq columns'[f]
        /\ \A f \in planned[p] : p \in columns'[f]
    BY <2>1, UpsertAdds
  <2>3. WrittenIsStored' BY <2>1, <2>2 DEF WrittenIsStored
  <2>4. CommittedIsStored' BY <2>1, <2>2 DEF CommittedIsStored
  <2>. QED BY <2>1, <2>2, <2>3, <2>4
<1>3. CASE p = Dispatcher /\ Dispatch
  <2>1. /\ \/ \E held \in SUBSET committed[Dispatcher] :
                columns' = Upserted(planned[Dispatcher] \union held, {})
           \/ UNCHANGED columns
        /\ query' = [query EXCEPT ![Dispatcher] = "written"]
        /\ UNCHANGED <<planned, committed>>
    BY <1>3 DEF Dispatch
  <2>2. /\ columns' \in [Files -> SUBSET Queries]
        /\ \A f \in Files : columns[f] \subseteq columns'[f]
    <3>1. CASE UNCHANGED columns BY <3>1
    <3>2. ASSUME NEW rows, columns' = Upserted(rows, {})
          PROVE  /\ columns' \in [Files -> SUBSET Queries]
                 /\ \A f \in Files : columns[f] \subseteq columns'[f]
      <4>. {} \in SUBSET Queries OBVIOUS
      <4>. HIDE DEF StoreInv
      <4>. QED BY <3>2, UpsertAdds
    <3>. QED BY <2>1, <3>1, <3>2
  <2>3. WrittenIsStored' BY <2>1, <2>2 DEF WrittenIsStored
  <2>4. CommittedIsStored' BY <2>1, <2>2 DEF CommittedIsStored
  <2>. QED BY <1>3, <2>1, <2>2, <2>3, <2>4
<1>4. CASE CommitFiles(p)
  <2>1. /\ query[p] = "written" /\ query' = [query EXCEPT ![p] = "active"]
        /\ committed' = [committed EXCEPT ![p] = @ \union planned[p]]
        /\ planned' = [planned EXCEPT ![p] = {}]
        /\ UNCHANGED columns
    BY <1>4 DEF CommitFiles
  <2>2. WrittenIsStored' BY <2>1 DEF WrittenIsStored
  <2>3. CommittedIsStored' BY <2>1 DEF WrittenIsStored, CommittedIsStored
  <2>. QED BY <2>1, <2>2, <2>3
<1>. QED BY <1>1, <1>2, <1>3, <1>4 DEF Source, Process

LEMMA NextStoreInv == StoreInv /\ [Next]_vars => StoreInv'
<1>. SUFFICES ASSUME StoreInv, [Next]_vars PROVE StoreInv'
  OBVIOUS
<1>. USE DEF StoreInv, QueryStates
<1>1. CASE (Flume \/ Cleanup) /\ UNCHANGED <<appVars, logVars>>
  BY <1>1, ProcessKeeps DEF appVars
<1>2. CASE (Launch \/ App \/ Signal \/ Killed) /\ UNCHANGED <<streamInVars, logVars>>
  <2>1. CASE Launch \/ AppendQuery \/ Signal
    BY <1>2, <2>1, ProcessKeeps DEF Launch, AppendQuery, Signal
  <2>2. CASE StartQuery BY <1>2, <2>2, ProcessKeeps DEF StartQuery
  <2>3. CASE Await \/ Killed BY <1>2, <2>3, ProcessKeeps DEF Await, Killed, Exit
  <2>4. CASE HandleShutdown BY <1>2, <2>4, ProcessKeeps DEF HandleShutdown
  <2>. QED BY <1>2, <2>1, <2>2, <2>3, <2>4 DEF App
<1>3. ASSUME NEW q \in Queries, Source(q) \/ BatchFails(q) PROVE StoreInv'
  <2>1. CASE BatchFails(q) BY <2>1, ProcessKeeps DEF BatchFails
  <2>. QED BY <1>3, <2>1, SourceKeeps
<1>4. CASE Tick BY <1>4, ProcessKeeps DEF Tick, appVars
<1>5. CASE UNCHANGED vars BY <1>5, ProcessKeeps DEF vars, appVars
<1>. QED BY <1>1, <1>2, <1>3, <1>4, <1>5 DEF Next

LEMMA InitStoreInv == Init => StoreInv
BY DEF Init, StoreInv, QueryStates, WrittenIsStored, CommittedIsStored

-----------------------------------------------------------------------------
\* The cleanup of stream_in removes no file before every query has committed it, if
\* the retention covers the lag, the minute of the listing and its zone
\* (cleanup_stream_in.py 53-65).
THEOREM NoFileLost == Spec => []NothingLost
<1>1. IInv => NothingLost BY DEF IInv
<1>. QED BY <1>1, InitIInv, NextIInv, InitStoreInv, NextStoreInv, PTL DEF Spec

\* What a query of Lane A has committed is in the serving store and stays there, for any
\* number of queries that write to the same rows, any failures, kills and restarts
\* (serving_db.py 84-137).
THEOREM RowsKept == Spec => []CommittedIsStored
<1>1. StoreInv => CommittedIsStored BY DEF StoreInv
<1>. QED BY <1>1, InitStoreInv, NextStoreInv, PTL DEF Spec
=============================================================================

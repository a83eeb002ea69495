------------------------------ MODULE StreamIn ------------------------------
(***************************************************************************)
(* The live zone /traffic/stream_in.  Flume's HDFS sink writes a file      *)
(* under a hidden in-use name and renames it when it rolls; Spark's file   *)
(* source reads the renamed ones; ingestion/scripts/cleanup_stream_in.py   *)
(* removes the old ones.  The script lists the directory first, takes its  *)
(* cutoff after that, and then removes the files one by one, while the     *)
(* directory goes on changing.  Times are in units of which Minute make a  *)
(* minute, because the listing shows times of modification to the minute.  *)
(***************************************************************************)
EXTENDS Integers, FiniteSetsExt

CONSTANTS NFiles,     \* bound on the files Flume writes
          MaxNow,     \* bound on the clock
          Minute,     \* the granularity of the listing
          Retention,  \* retention_hours
          Zone        \* the time zone of the listing, which the script reads as UTC

ASSUME StreamInAssumption ==
  /\ NFiles \in Nat \ {0} /\ MaxNow \in Nat
  /\ Minute \in Nat \ {0} /\ Retention \in Nat /\ Zone \in Int

Files == 1..NFiles

VARIABLES
  now,
  file,    \* the state and the time of modification of every file
  cleaner, \* "idle", "listed", "removing"
  todo     \* the listing, then the paths left to remove

streamInVars == <<now, file, cleaner, todo>>

StreamInInit ==
  /\ now = 0 /\ cleaner = "idle" /\ todo = {}
  /\ file = [f \in Files |-> [state |-> "none", mtime |-> 0]]

Visible == {f \in Files : file[f].state = "closed"}
Hidden == {f \in Files : file[f].state = "open"}

-----------------------------------------------------------------------------
\* Flume opens its files in order, one at a time.  A file left open by a crash of the
\* agent keeps its hidden name for ever; the time of a hidden file decides nothing.
Open(f) ==
  /\ file[f].state = "none"
  /\ \A g \in Files : g < f => file[g].state # "none"
  /\ file' = [file EXCEPT ![f].state = "open"]
  /\ UNCHANGED <<now, cleaner, todo>>

Roll(f) ==
  /\ file[f].state = "open"
  /\ \A g \in Files : g > f => file[g].state = "none"
  /\ file' = [file EXCEPT ![f] = [state |-> "closed", mtime |-> now]]
  /\ UNCHANGED <<now, cleaner, todo>>

Flume == \E f \in Files : Open(f) \/ Roll(f)

-----------------------------------------------------------------------------
\* parse_listing_line: the time the script takes a line of the listing for.
Modified(mtime) == mtime - (mtime % Minute) + Zone

\* Names that begin with "." are never eligible.
Stable(f) == f \in Visible

\* Variant of EligibleFiles: the cutoff is not applied.
EligibleWithoutCutoff(listing, cutoff) == {l \in listing : l.stable}

EligibleFiles(listing, cutoff) == {l \in listing : l.stable /\ Modified(l.mtime) < cutoff}

Line(f) == [path |-> f, stable |-> Stable(f), mtime |-> file[f].mtime]

\* hdfs dfs -ls -R
List ==
  /\ cleaner = "idle" /\ Visible # {}
  /\ todo' = {Line(f) : f \in Visible \union Hidden} /\ cleaner' = "listed"
  /\ UNCHANGED <<now, file>>

\* The cutoff, and the files below it.
TakeCutoff ==
  /\ cleaner = "listed"
  /\ todo' = EligibleFiles(todo, now - Retention)
  /\ cleaner' = IF todo' = {} THEN "idle" ELSE "removing"
  /\ UNCHANGED <<now, file>>

\* hdfs dfs -rm of one path, in the order of the listing, which is no order of the
\* model; check=True ends the script when it fails.
Remove(l) ==
  /\ cleaner = "removing" /\ l \in todo
  /\ \/ /\ file' = [file EXCEPT ![l.path].state = "removed"]
        /\ todo' = todo \ {l}
     \/ todo' = {} /\ UNCHANGED file
  /\ cleaner' = IF todo' = {} THEN "idle" ELSE "removing"
  /\ UNCHANGED now

Cleanup == List \/ TakeCutoff \/ \E l \in todo : Remove(l)
=============================================================================

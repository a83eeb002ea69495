----------------------------- MODULE RecordPath -----------------------------
(***************************************************************************)
(* The way of a record into files: the capture parses tshark lines, replay *)
(* passes on the rows of a file, as they are or restamped, and both write  *)
(* through CsvRotatingWriter of capture/writers.py.  The writer is line    *)
(* buffered, so a row is in its file when write() returns, and flush() and *)
(* the flush once a second change nothing.  Time is counted in ticks; a    *)
(* file is named after the second it is opened in.                         *)
(***************************************************************************)
EXTENDS RecordContract, Functions, SequencesExt

CONSTANTS Lines,           \* lines tshark may print
          ReplayRows,      \* the rows of a replayed file that have 11 columns
          Gaps,            \* times replay sleeps between two rows
          RowBytes,        \* size of a row in bytes
          RotateTicks,     \* rotate_seconds; 0 for never
          RotateBytes,     \* rotate_mb; 0 for never
          TicksPerSecond,
          MaxClock,        \* bound on the clock
          MaxRows          \* bound on the rows written

ASSUME RecordPathAssumption ==
  /\ Gaps \subseteq Nat
  /\ RotateTicks \in Nat /\ RotateBytes \in Nat /\ RowBytes \in Nat \ {0}
  /\ TicksPerSecond \in Nat \ {0} /\ MaxClock \in Nat /\ MaxRows \in Nat

VARIABLES clock,           \* time.time(), which may also be set back
          files,           \* the directory: rows of every file
          open,            \* _current_path, or NoFile
          started, bytes,  \* _file_start_time, _bytes_written
          opened,          \* history: the names of the files as they were opened
          captured         \* history: rows the parser accepted

vars == <<clock, files, open, started, bytes, opened, captured>>

NoFile == <<>>

Init ==
  /\ clock \in 0..MaxClock /\ files = [n \in {} |-> <<>>]
  /\ open = NoFile /\ started = 0 /\ bytes = 0 /\ opened = <<>> /\ captured = {}

ShouldRotate ==
  \/ open = NoFile
  \/ RotateTicks > 0 /\ clock - started >= RotateTicks
  \/ RotateBytes > 0 /\ bytes >= RotateBytes

\* Variant: the name is not looked up in the directory.
NewNameUnchecked(now) == <<now \div TicksPerSecond, 0>>

\* traffic_<second>.csv, or the first of traffic_<second>_<n>.csv that is free.
NewName(now) ==
  LET second == now \div TicksPerSecond
  IN <<second, Min({n \in 0..Cardinality(DOMAIN files) : <<second, n>> \notin DOMAIN files})>>

RowsIn(name) == IF name \in DOMAIN files THEN files[name] ELSE <<>>

\* The files are opened for appending.
Appended(name, row) ==
  [n \in DOMAIN files \union {name} |->
     IF n = name THEN Append(RowsIn(n), row) ELSE files[n]]

\* CsvRotatingWriter.write: rotate if needed, then write.
Write(row) ==
  LET name == IF ShouldRotate THEN NewName(clock) ELSE open
  IN /\ files' = Appended(name, row) /\ open' = name
     /\ IF ShouldRotate
        THEN started' = clock /\ bytes' = RowBytes /\ opened' = Append(opened, name)
        ELSE bytes' = bytes + RowBytes /\ UNCHANGED <<started, opened>>

Written == FlattenSeq([i \in DOMAIN opened |-> files[opened[i]]])

\* run_capture: a line that parses is written, a reject is only counted.
Capture(line) ==
  /\ Len(Written) < MaxRows
  /\ IF ParseLine(line) = "RECORD"
     THEN Write(RecordOf(line)) /\ captured' = captured \union {RecordOf(line)}
     ELSE UNCHANGED <<files, open, started, bytes, opened, captured>>
  /\ UNCHANGED clock

\* With --restamp a row carries the time it was due, which is when it is written but for
\* the time replay itself takes, and the gap before it.
Restamped(row, now, gap) ==
  [row EXCEPT !.timestamp = <<"ms", now>>, !.iat_ms = <<"float", gap>>]

\* ReplayEngine.replay: a row whose timestamp has a known form is passed on, as it is or
\* with a new stamp.
Replay(row) ==
  /\ Len(Written) < MaxRows
  /\ Kind(row.timestamp) \in {"ms", "s"}
  /\ \/ Write(row)
     \/ \E gap \in Gaps : Write(Restamped(row, clock, gap))
  /\ UNCHANGED <<clock, captured>>

\* close(), at the end of the process, or its death.
Close ==
  /\ open # NoFile
  /\ open' = NoFile /\ started' = 0 /\ bytes' = 0
  /\ UNCHANGED <<clock, files, opened, captured>>

Tick ==
  /\ clock' \in 0..MaxClock
  /\ UNCHANGED <<files, open, started, bytes, opened, captured>>

Next ==
  \/ \E line \in Lines : Capture(line)
  \/ \E row \in ReplayRows : Replay(row)
  \/ Close \/ Tick

Spec == Init /\ [][Next]_vars

-----------------------------------------------------------------------------
\* The files in the order they were opened are one log: a row is added at its end
\* and nowhere else, and a file is not touched again once another was opened,
\* whatever the clock does and however often the writer is restarted.
FilesAreOneLog ==
  [][Written' = Written \/ (Written' # <<>> /\ Front(Written') = Written)]_vars

\* Every row the parser lets through obeys the contract, and every row that obeys it,
\* captured or replayed, is valid for Spark, with the numbers it was written with.
ContractRowsAreClean ==
  /\ \A row \in captured : ValidRow(row)
  /\ \A row \in ToSet(Written) :
       ValidRow(row) =>
         /\ row \in SplitValid(ToSet(Written))[1]
         /\ SparkInt(row.packet_length) = row.packet_length
         /\ \A p \in {"src_port", "dst_port"} :
              SparkInt(row[p]) = IF row[p] = None THEN Null ELSE row[p]
=============================================================================

--------------------------- MODULE CaptureRunner ---------------------------
(***************************************************************************)
(* The capture supervisor (class CaptureRunner of capture/run_capture.py): *)
(* tshark runs as a child process, one reader thread per child moves its   *)
(* output lines from the pipe into a bounded queue, and the main thread    *)
(* parses them, hands records to the writer, restarts a child that died,   *)
(* and shuts down on a signal.  Line n of process p is <<p, n>>; process   *)
(* p is the one started after p - 1 restarts.                              *)
(***************************************************************************)
EXTENDS Integers, Sequences, FiniteSets

CONSTANTS MaxRestarts,  \* len(backoffs), the restarts allowed
          QueueSize,    \* maxsize of the queue
          PipeSize,     \* lines the pipe of a child holds before the child blocks
          MaxLines      \* bound on the lines one child emits

ASSUME MaxRestartsAssumption == MaxRestarts \in Nat
ASSUME QueueSizeAssumption == QueueSize \in Nat \ {0}
ASSUME PipeSizeAssumption == PipeSize \in Nat \ {0}
ASSUME MaxLinesAssumption == MaxLines \in Nat

Procs == 1..(MaxRestarts + 1)

VARIABLES
  pc,         \* where the main thread is in run()
  rc,         \* "none", the value returned by run(), or "raised"
  stop,       \* _stop_event
  restarts,
  proc,       \* the current child: "none", "running", or its exit "ok" / "failed"
  pipe,       \* pipe[p]: lines written by child p, not yet read
  reader,     \* reader[p]: "none", "reading", "holding", "cleared", "ended"
  hand,       \* hand[p]: the number of the line reader p holds
  queue,
  framesSeen, recordsWritten, rejects, dropped,
  unflushed,  \* records handed to the writer since its last flush
  stats,      \* contents of capture_stats.json
  emitted,    \* history: emitted[p] lines were written by child p
  seen,       \* history: seen[p] is the last line of child p taken from the queue
  discarded,  \* history: lines thrown away by a reader that saw the stop event
  timedOut    \* history: a join of a reader gave up

counters == <<framesSeen, recordsWritten, rejects, unflushed>>
readers  == <<pipe, reader, hand, dropped, emitted, discarded>>
vars == <<pc, rc, stop, restarts, proc, queue, counters, stats, readers, seen, timedOut>>

Cur == restarts + 1

-----------------------------------------------------------------------------
Init ==
  /\ pc = "start" /\ rc = "none" /\ stop = FALSE
  /\ restarts = 0 /\ proc = "none"
  /\ pipe = [p \in Procs |-> <<>>]
  /\ reader = [p \in Procs |-> "none"]
  /\ hand = [p \in Procs |-> 0]
  /\ queue = <<>>
  /\ framesSeen = 0 /\ recordsWritten = 0 /\ rejects = 0 /\ dropped = 0
  /\ unflushed = 0
  /\ stats = [frames |-> 0, records |-> 0, rejects |-> 0, dropped |-> 0]
  /\ emitted = [p \in Procs |-> 0]
  /\ seen = [p \in Procs |-> 0]
  /\ discarded = 0 /\ timedOut = FALSE

Snapshot ==
  [frames |-> framesSeen, records |-> recordsWritten, rejects |-> rejects,
   dropped |-> dropped]

Exit(code) == pc' = "exited" /\ rc' = code

-----------------------------------------------------------------------------
\* The child process and the signal.
Emit ==
  /\ pc # "exited" /\ proc = "running"
  /\ emitted[Cur] < MaxLines
  /\ Len(pipe[Cur]) < PipeSize
  /\ emitted' = [emitted EXCEPT ![Cur] = @ + 1]
  /\ pipe' = [pipe EXCEPT ![Cur] = Append(@, emitted'[Cur])]
  /\ UNCHANGED <<pc, rc, stop, restarts, proc, reader, hand, queue, counters, stats,
                 dropped, seen, discarded, timedOut>>

ChildExits ==
  /\ pc # "exited" /\ proc = "running"
  /\ proc' \in {"ok", "failed"}
  /\ UNCHANGED <<pc, rc, stop, restarts, queue, counters, stats, readers, seen, timedOut>>

\* SIGINT or SIGTERM: sig_handler sets the event.
Signal ==
  /\ pc # "exited" /\ ~stop
  /\ stop' = TRUE
  /\ UNCHANGED <<pc, rc, restarts, proc, queue, counters, stats, readers, seen, timedOut>>

-----------------------------------------------------------------------------
\* A reader thread: _stdout_reader.
ReaderUnchanged ==
  UNCHANGED <<pc, rc, stop, restarts, proc, counters, stats, emitted, seen, timedOut>>

ReaderTake(p) ==
  /\ reader[p] = "reading" /\ pipe[p] # <<>>
  /\ hand' = [hand EXCEPT ![p] = Head(pipe[p])]
  /\ pipe' = [pipe EXCEPT ![p] = Tail(@)]
  /\ reader' = [reader EXCEPT ![p] = "holding"]
  /\ UNCHANGED <<queue, dropped, discarded>>
  /\ ReaderUnchanged

ReaderEof(p) ==
  /\ reader[p] = "reading" /\ pipe[p] = <<>>
  /\ p # Cur \/ proc # "running"
  /\ reader' = [reader EXCEPT ![p] = "ended"]
  /\ UNCHANGED <<pipe, hand, queue, dropped, discarded>>
  /\ ReaderUnchanged

\* The stop event is tested once per line, before the put.
ReaderTest(p) ==
  /\ reader[p] = "holding"
  /\ IF stop
     THEN /\ reader' = [reader EXCEPT ![p] = "ended"]
          /\ hand' = [hand EXCEPT ![p] = 0]
          /\ discarded' = discarded + 1
     ELSE /\ reader' = [reader EXCEPT ![p] = "cleared"]
          /\ UNCHANGED <<hand, discarded>>
  /\ UNCHANGED <<pipe, queue, dropped>>
  /\ ReaderUnchanged

\* Variant of ReaderPut: a full queue is not counted.
ReaderPutUncounted(p) ==
  /\ reader[p] = "cleared"
  /\ queue' = IF Len(queue) < QueueSize THEN Append(queue, <<p, hand[p]>>) ELSE queue
  /\ reader' = [reader EXCEPT ![p] = "reading"]
  /\ hand' = [hand EXCEPT ![p] = 0]
  /\ UNCHANGED <<pipe, dropped, discarded>>
  /\ ReaderUnchanged

\* Variant of ReaderPut: the exception of the full queue ends the thread.
ReaderPutRaising(p) ==
  /\ reader[p] = "cleared"
  /\ IF Len(queue) < QueueSize
     THEN queue' = Append(queue, <<p, hand[p]>>) /\ reader' = [reader EXCEPT ![p] = "reading"]
     ELSE UNCHANGED queue /\ reader' = [reader EXCEPT ![p] = "ended"]
  /\ hand' = [hand EXCEPT ![p] = 0]
  /\ UNCHANGED <<pipe, dropped, discarded>>
  /\ ReaderUnchanged

ReaderPut(p) ==
  /\ reader[p] = "cleared"
  /\ IF Len(queue) < QueueSize
     THEN queue' = Append(queue, <<p, hand[p]>>) /\ UNCHANGED dropped
     ELSE dropped' = dropped + 1 /\ UNCHANGED queue
  /\ reader' = [reader EXCEPT ![p] = "reading"]
  /\ hand' = [hand EXCEPT ![p] = 0]
  /\ UNCHANGED <<pipe, discarded>>
  /\ ReaderUnchanged

\* Daemon threads end with the process.
Reader(p) ==
  /\ pc # "exited"
  /\ ReaderTake(p) \/ ReaderEof(p) \/ ReaderTest(p) \/ ReaderPut(p)

-----------------------------------------------------------------------------
\* The main thread: run().
MainUnchanged == UNCHANGED readers

\* Variant: the newest line is taken first, as from a LifoQueue.
TakeLineNewest(next) ==
  /\ queue # <<>>
  /\ LET l == queue[Len(queue)]
     IN /\ queue' = SubSeq(queue, 1, Len(queue) - 1)
        /\ seen' = [seen EXCEPT ![l[1]] = l[2]]
  /\ framesSeen' = framesSeen + 1
  /\ recordsWritten' = recordsWritten + 1 /\ unflushed' = unflushed + 1
  /\ pc' = next /\ UNCHANGED <<rejects, rc>>

\* One line: count it, parse it, write it or log the reject.  A writer may raise
\* (an OSError of the file sinks), which ends the process at once.
TakeLine(next) ==
  /\ queue # <<>>
  /\ queue' = Tail(queue)
  /\ seen' = [seen EXCEPT ![Head(queue)[1]] = Head(queue)[2]]
  /\ framesSeen' = framesSeen + 1
  /\ \/ /\ recordsWritten' = recordsWritten + 1 /\ unflushed' = unflushed + 1
        /\ pc' = next /\ UNCHANGED <<rejects, rc>>
     \/ /\ rejects' = rejects + 1
        /\ pc' = next /\ UNCHANGED <<recordsWritten, unflushed, rc>>
     \/ /\ Exit("raised") /\ UNCHANGED <<recordsWritten, rejects, unflushed>>

\* The head of the supervisor loop.
StartChild ==
  /\ pc = "start" /\ ~stop
  /\ \/ /\ proc' = "running"
        /\ reader' = [reader EXCEPT ![Cur] = "reading"]
        /\ pc' = "consume" /\ UNCHANGED rc
     \/ /\ Exit("1") /\ UNCHANGED <<proc, reader>>
  /\ UNCHANGED <<stop, restarts, queue, counters, stats, pipe, hand, dropped, emitted,
                 discarded, seen, timedOut>>

StartStopped ==
  /\ pc = "start" /\ stop
  /\ pc' = "shutdown"
  /\ UNCHANGED <<rc, stop, restarts, proc, queue, counters, stats, seen, timedOut>>
  /\ MainUnchanged

\* The consumer loop: one get with a timeout, then the checks.
ConsumeLine ==
  /\ pc = "consume" /\ ~stop
  /\ TakeLine("check")
  /\ UNCHANGED <<stop, restarts, proc, stats, timedOut>>
  /\ MainUnchanged

ConsumeEmpty ==
  /\ pc = "consume" /\ ~stop /\ queue = <<>>
  /\ pc' = "check"
  /\ UNCHANGED <<rc, stop, restarts, proc, queue, counters, stats, seen, timedOut>>
  /\ MainUnchanged

\* Variant: on the stop event the loop first waits for the child to end by itself.
ConsumeStoppedAfterChild ==
  /\ pc = "consume" /\ stop /\ proc # "running"
  /\ pc' = "after"
  /\ UNCHANGED <<rc, stop, restarts, proc, queue, counters, stats, seen, timedOut>>
  /\ MainUnchanged

ConsumeStopped ==
  /\ pc = "consume" /\ stop
  /\ pc' = "after"
  /\ UNCHANGED <<rc, stop, restarts, proc, queue, counters, stats, seen, timedOut>>
  /\ MainUnchanged

\* Variant: the child is never polled.
CheckWithoutPoll ==
  /\ pc = "check"
  /\ \/ stats' = Snapshot /\ unflushed' = 0
     \/ UNCHANGED <<stats, unflushed>>
  /\ \/ pc' = "after" /\ stop' = TRUE
     \/ pc' = "consume" /\ UNCHANGED stop
  /\ UNCHANGED <<rc, restarts, proc, queue, framesSeen, recordsWritten, rejects, seen,
                 timedOut>>
  /\ MainUnchanged

\* Periodic flush and statistics when due, the duration limit, then poll().  A
\* flush may raise as a write may.
Check ==
  /\ pc = "check"
  /\ \/ stats' = Snapshot /\ unflushed' = 0
     \/ UNCHANGED <<stats, unflushed>>
  /\ \/ pc' = "after" /\ stop' = TRUE
     \/ pc' = (IF proc = "running" THEN "consume" ELSE "join") /\ UNCHANGED stop
  /\ UNCHANGED <<rc, restarts, proc, queue, framesSeen, recordsWritten, rejects, seen,
                 timedOut>>
  /\ MainUnchanged

FlushRaises ==
  /\ pc \in {"check", "close"}
  /\ Exit("raised")
  /\ UNCHANGED <<stop, restarts, proc, queue, counters, stats, seen, timedOut>>
  /\ MainUnchanged

\* Variant: the drain does not wait for the reader.
JoinSkipped ==
  /\ pc = "join" /\ pc' = "drain"
  /\ UNCHANGED <<rc, stop, restarts, proc, queue, counters, stats, seen, timedOut>>
  /\ MainUnchanged

\* reader_thread.join(timeout=1.0)
JoinReader ==
  /\ pc = "join"
  /\ \/ reader[Cur] = "ended" /\ UNCHANGED timedOut
     \/ reader[Cur] # "ended" /\ timedOut' = TRUE
  /\ pc' = "drain"
  /\ UNCHANGED <<rc, stop, restarts, proc, queue, counters, stats, seen>>
  /\ MainUnchanged

Drain ==
  /\ pc = "drain"
  /\ \/ TakeLine("drain")
     \/ queue = <<>> /\ pc' = "after" /\ UNCHANGED <<rc, queue, counters, seen>>
  /\ UNCHANGED <<stop, restarts, proc, stats, timedOut>>
  /\ MainUnchanged

\* After the consumer loop: restart, give up, or go on to the shutdown.
AfterLoop ==
  /\ pc = "after"
  /\ \/ /\ stop \/ proc = "ok"
        /\ pc' = "shutdown" /\ UNCHANGED <<rc, stop, restarts>>
     \/ /\ ~stop /\ proc = "failed"
        /\ restarts' = restarts + 1
        /\ IF restarts' > MaxRestarts
           THEN Exit("1") /\ stop' = TRUE
           ELSE pc' = "start" /\ UNCHANGED <<rc, stop>>
  /\ UNCHANGED <<proc, queue, counters, stats, seen, timedOut>>
  /\ MainUnchanged

\* terminate(), wait, kill.
StopChild ==
  /\ pc = "shutdown"
  /\ proc' = IF proc = "running" THEN "failed" ELSE proc
  /\ pc' = "finish"
  /\ UNCHANGED <<rc, stop, restarts, queue, counters, stats, seen, timedOut>>
  /\ MainUnchanged

FinalDrain ==
  /\ pc = "finish"
  /\ \/ TakeLine("finish")
     \/ queue = <<>> /\ pc' = "close" /\ UNCHANGED <<rc, queue, counters, seen>>
  /\ UNCHANGED <<stop, restarts, proc, stats, timedOut>>
  /\ MainUnchanged

\* flush, close, write_stats, return 0.
Finish ==
  /\ pc = "close"
  /\ stats' = Snapshot /\ unflushed' = 0
  /\ Exit("0")
  /\ UNCHANGED <<stop, restarts, proc, queue, framesSeen, recordsWritten, rejects, seen,
                 timedOut>>
  /\ MainUnchanged

Main ==
  \/ StartChild \/ StartStopped
  \/ ConsumeLine \/ ConsumeEmpty \/ ConsumeStopped \/ Check \/ JoinReader \/ Drain
  \/ FlushRaises \/ AfterLoop \/ StopChild \/ FinalDrain \/ Finish

Next == Emit \/ ChildExits \/ Signal \/ Main \/ \E p \in Procs : Reader(p)

Spec == Init /\ [][Next]_vars

\* The threads are scheduled and a child's wait() ends; a join returns by its
\* timeout at the latest.  Nothing forces tshark to emit or exit, or a signal.
FairSpec == Spec /\ WF_vars(Main) /\ \A p \in Procs : WF_vars(Reader(p))

-----------------------------------------------------------------------------
Lines == 1..MaxLines

TypeOK ==
  /\ pc \in {"start", "consume", "check", "join", "drain", "after", "shutdown",
             "finish", "close", "exited"}
  /\ rc \in {"none", "0", "1", "raised"}
  /\ stop \in BOOLEAN /\ timedOut \in BOOLEAN
  /\ restarts \in 0..(MaxRestarts + 1)
  /\ proc \in {"none", "running", "ok", "failed"}
  /\ pipe \in [Procs -> Seq(Lines)] /\ \A p \in Procs : Len(pipe[p]) <= PipeSize
  /\ reader \in [Procs -> {"none", "reading", "holding", "cleared", "ended"}]
  /\ hand \in [Procs -> 0..MaxLines]
  /\ queue \in Seq(Procs \X Lines) /\ Len(queue) <= QueueSize
  /\ framesSeen \in Nat /\ recordsWritten \in Nat /\ rejects \in Nat
  /\ dropped \in Nat /\ unflushed \in Nat /\ discarded \in Nat
  /\ stats \in [frames : Nat, records : Nat, rejects : Nat, dropped : Nat]
  /\ emitted \in [Procs -> 0..MaxLines] /\ seen \in [Procs -> 0..MaxLines]

Holding(p) == reader[p] \in {"holding", "cleared"}

\* The lines of child p that are on their way, each with its place: the smaller, the
\* nearer to the main thread.
Places(p) ==
  {<<i, queue[i][2]>> : i \in {j \in DOMAIN queue : queue[j][1] = p}}
    \union {<<Len(queue) + 1, n>> : n \in IF Holding(p) THEN {hand[p]} ELSE {}}
    \union {<<Len(queue) + 1 + i, pipe[p][i]>> : i \in DOMAIN pipe[p]}

OnTheWay == UNION {{<<p, x[2]>> : x \in Places(p)} : p \in Procs}

Emitted == {l \in Procs \X Lines : l[2] <= emitted[l[1]]}

\* The lines of one child are taken in the order tshark printed them and none is
\* taken twice, even while the reader of a dead child and the reader of its
\* successor feed the same queue (run_capture.py 200-205, 235-238).
OrderPerChild ==
  \A p \in Procs : \A x, y \in Places(p) :
    x[2] > seen[p] /\ (x[1] < y[1] => x[2] < y[2])

\* Every emitted line is on its way, was taken, was dropped with the counter, or
\* was thrown away by a reader that saw the stop event (run_capture.py 170-176).
LinesConserved ==
  Cardinality(Emitted) = Cardinality(OnTheWay) + dropped + discarded + framesSeen

\* When tshark ended by itself and its readers were joined in time, a clean exit
\* has processed or counted every line: the join comes before the drain
\* (run_capture.py 235-250, 282-294).
CompleteWhenJoined ==
  rc = "0" /\ ~stop /\ ~timedOut => Cardinality(Emitted) = framesSeen + dropped

\* Once the stop event is set, run() returns: no loop of the main thread waits
\* for a child or for a reader without bound (run_capture.py 193, 208, 237, 278).
StopEndsRun == stop ~> pc = "exited"

\* A child that died is replaced or ends the run; it is never left unnoticed.
DeadChildNoticed ==
  (proc \in {"ok", "failed"} /\ pc # "exited")
    ~> (proc = "running" \/ pc = "exited")

\* A full pipe is emptied again: tshark is never left blocked on its output while the
\* run goes on, however slow the main thread is (run_capture.py 170-185).
PipeDrains ==
  \A p \in Procs :
    Len(pipe[p]) = PipeSize ~> (Len(pipe[p]) < PipeSize \/ pc = "exited")
=============================================================================

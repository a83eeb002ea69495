--------------------------- MODULE TcpLineWriter ---------------------------
(***************************************************************************)
(* The TCP sink of the capture process (class TcpLineWriter of             *)
(* capture/writers.py): contract lines are sent to the Flume netcat        *)
(* source, and while no connection stands they wait in a ring of           *)
(* BufferSize lines.  The writer is called by one thread, so an operation  *)
(* is one step; what the network does during the operation is chosen       *)
(* nondeterministically within it.                                         *)
(*                                                                         *)
(* Line n is the line given to the n-th call of write().  Time runs in     *)
(* units of 0.5 s, the initial back-off.                                   *)
(***************************************************************************)
EXTENDS Integers, Sequences

CONSTANTS BufferSize,  \* buffer_size, the maxlen of the deque
          MaxBackoff,  \* _max_backoff, in units of the initial back-off
          MaxLines     \* bound on the calls of write()

ASSUME BufferSizeAssumption == BufferSize \in Nat \ {0}
ASSUME MaxBackoffAssumption == MaxBackoff \in Nat \ {0, 1}
ASSUME MaxLinesAssumption == MaxLines \in Nat

VARIABLES
  socket,       \* "none" (None), "open", or "stale": open here, dropped by the peer
  buffer,       \* the lines that wait, oldest first
  dropped,      \* dropped_records
  sent,         \* records_sent
  backoff,      \* _backoff
  since,        \* time.time() - _last_connect_attempt, saturated at MaxBackoff
  closed,       \* close() has returned
  peer,         \* the receiver: "up" accepts connections and data, "down" refuses
  written,      \* history: calls of write()
  transmitted,  \* history: lines sendall() accepted, in order
  lost          \* history: lines taken from the buffer whose sendall() raised

vars == <<socket, buffer, dropped, sent, backoff, since, closed, peer,
          written, transmitted, lost>>

-----------------------------------------------------------------------------
Upto(s, n)  == SubSeq(s, 1, n)
After(s, n) == SubSeq(s, n + 1, Len(s))
Least(a, b) == IF a <= b THEN a ELSE b

\* What a loop "popleft, sendall, count" over the lines q can do: send all of
\* them, or lose the line in hand when sendall raises after n sends.
Drains(q) ==
  {[sent |-> Len(q), popped |-> Len(q), broke |-> FALSE]}
    \cup {[sent |-> n, popped |-> n + 1, broke |-> TRUE] : n \in 0..(Len(q) - 1)}

Untouched ==
  [socket |-> socket, backoff |-> backoff, since |-> since, peer |-> peer,
   sent |-> 0, popped |-> 0]

Doubled(b) == Least(2 * b, MaxBackoff)

Refused ==
  [socket |-> "none", backoff |-> Doubled(backoff), since |-> 0, peer |-> peer,
   sent |-> 0, popped |-> 0]

\* Variants of Connects: the buffered lines are not sent on connecting; the
\* socket is kept when sending them fails.
ConnectsWithoutDrain(d) ==
  [socket |-> "open", backoff |-> 1, since |-> 0, peer |-> peer,
   sent |-> 0, popped |-> 0]

ConnectsKeepingSocket(d) ==
  [socket |-> "open", backoff |-> 1, since |-> 0,
   peer |-> IF d.broke THEN "down" ELSE peer,
   sent |-> d.sent, popped |-> d.popped]

\* The connection is made, the back-off reset, and the buffer drained; a
\* failure on the way forgets the socket and doubles the back-off just reset.
Connects(d) ==
  [socket  |-> IF d.broke THEN "none" ELSE "open",
   backoff |-> IF d.broke THEN Doubled(1) ELSE 1,
   since   |-> 0,
   peer    |-> IF d.broke THEN "down" ELSE peer,
   sent    |-> d.sent,
   popped  |-> d.popped]

\* The possible outcomes of _ensure_connected().
EnsureConnected ==
  IF socket # "none" \/ since < backoff
  THEN {Untouched}
  ELSE IF peer = "down" THEN {Refused} ELSE {Connects(d) : d \in Drains(buffer)}

\* Variant of Push: the newest line gives way.
PushDroppingNewest(q, line) ==
  IF Len(q) >= BufferSize THEN q ELSE Append(q, line)

\* deque.append with maxlen: the oldest line gives way.
Push(q, line) ==
  Append(IF Len(q) >= BufferSize THEN Tail(q) ELSE q, line)

\* A send on an open or stale socket may succeed or raise; raising on an open
\* one means that the peer has just gone.
SendOutcomes(s) == IF s = "none" THEN {"none"} ELSE {"ok", "raises"}

-----------------------------------------------------------------------------
Init ==
  /\ socket = "none" /\ buffer = <<>>
  /\ dropped = 0 /\ sent = 0
  /\ backoff = 1 /\ since = MaxBackoff
  /\ closed = FALSE
  /\ peer \in {"up", "down"}
  /\ written = 0 /\ transmitted = <<>> /\ lost = 0

SendLine(o, rest, drained, line) ==
  /\ socket' = o.socket
  /\ buffer' = rest
  /\ sent' = sent + o.sent + 1
  /\ transmitted' = transmitted \o drained \o <<line>>
  /\ peer' = o.peer
  /\ UNCHANGED dropped

\* Variant of KeepLine: the full ring is recognised one line too late.
KeepLineCountingLate(o, rest, drained, line) ==
  /\ socket' = "none"
  /\ buffer' = Push(rest, line)
  /\ dropped' = IF Len(rest) > BufferSize THEN dropped + 1 ELSE dropped
  /\ sent' = sent + o.sent
  /\ transmitted' = transmitted \o drained
  /\ peer' = IF o.socket = "open" THEN "down" ELSE o.peer

KeepLine(o, rest, drained, line) ==
  /\ socket' = "none"
  /\ buffer' = Push(rest, line)
  /\ dropped' = IF Len(rest) >= BufferSize THEN dropped + 1 ELSE dropped
  /\ sent' = sent + o.sent
  /\ transmitted' = transmitted \o drained
  /\ peer' = IF o.socket = "open" THEN "down" ELSE o.peer

\* write(record)
Write ==
  /\ ~closed
  /\ written < MaxLines
  /\ \E o \in EnsureConnected : \E r \in SendOutcomes(o.socket) :
       LET rest    == After(buffer, o.popped)
           drained == Upto(buffer, o.sent)
       IN /\ IF r = "ok"
             THEN SendLine(o, rest, drained, written + 1)
             ELSE KeepLine(o, rest, drained, written + 1)
          /\ backoff' = o.backoff
          /\ since' = o.since
          /\ lost' = lost + (o.popped - o.sent)
  /\ written' = written + 1
  /\ UNCHANGED closed

\* The second half of flush(): drain what _ensure_connected left, if connected.
FlushLoop(o) ==
  IF o.socket = "none"
  THEN {[sent |-> 0, popped |-> 0, broke |-> FALSE]}
  ELSE Drains(After(buffer, o.popped))

FlushWith(o, d) ==
  LET rest == After(buffer, o.popped)
  IN /\ buffer' = After(rest, d.popped)
     /\ sent' = sent + o.sent + d.sent
     /\ transmitted' = transmitted \o Upto(buffer, o.sent) \o Upto(rest, d.sent)
     /\ lost' = lost + (o.popped - o.sent) + (d.popped - d.sent)
     /\ backoff' = o.backoff
     /\ since' = o.since
     /\ peer' = IF d.broke /\ o.socket = "open" THEN "down" ELSE o.peer
     /\ UNCHANGED <<dropped, written>>

\* Variant of Flush: it drains a standing connection but does not reconnect.
FlushWithoutReconnect ==
  /\ ~closed
  /\ \E d \in FlushLoop(Untouched) :
       /\ FlushWith(Untouched, d)
       /\ socket' = IF d.broke THEN "none" ELSE socket
  /\ UNCHANGED closed

\* flush()
Flush ==
  /\ ~closed
  /\ \E o \in EnsureConnected : \E d \in FlushLoop(o) :
       /\ FlushWith(o, d)
       /\ socket' = IF d.broke THEN "none" ELSE o.socket
  /\ UNCHANGED closed

\* close(): flush, then forget the socket.  Whoever owns the writer calls it last.
Close ==
  /\ ~closed
  /\ \E o \in EnsureConnected : \E d \in FlushLoop(o) : FlushWith(o, d)
  /\ socket' = "none"
  /\ closed' = TRUE

-----------------------------------------------------------------------------
\* The environment: the clock and the receiver.
Tick ==
  /\ since < MaxBackoff
  /\ since' = since + 1
  /\ UNCHANGED <<socket, buffer, dropped, sent, backoff, closed, peer,
                 written, transmitted, lost>>

PeerFails ==
  /\ peer = "up"
  /\ peer' = "down"
  /\ socket' = IF socket = "open" THEN "stale" ELSE socket
  /\ UNCHANGED <<buffer, dropped, sent, backoff, since, closed, written,
                 transmitted, lost>>

PeerRecovers ==
  /\ peer = "down"
  /\ peer' = "up"
  /\ UNCHANGED <<socket, buffer, dropped, sent, backoff, since, closed, written,
                 transmitted, lost>>

Next == Write \/ Flush \/ Close \/ Tick \/ PeerFails \/ PeerRecovers

Spec == Init /\ [][Next]_vars

\* The capture loop flushes its writer every stats_interval_s (run_capture.py
\* 224-225), and time passes.
FairSpec == Spec /\ WF_vars(Flush) /\ WF_vars(Tick)

-----------------------------------------------------------------------------
TypeOK ==
  /\ socket \in {"none", "open", "stale"}
  /\ buffer \in Seq(1..MaxLines) /\ Len(buffer) <= BufferSize
  /\ dropped \in Nat /\ sent \in Nat /\ lost \in Nat
  /\ backoff \in 1..MaxBackoff
  /\ since \in 0..MaxBackoff
  /\ closed \in BOOLEAN
  /\ peer \in {"up", "down"}
  /\ written \in 0..MaxLines
  /\ transmitted \in Seq(1..MaxLines)

\* Between calls a writer that has a socket has an empty buffer: the line a
\* write() sends directly can never overtake a buffered one (writers.py
\* 228-232, 243-250).
ConnectedMeansDrained == socket # "none" => buffer = <<>>

\* The buffer is always the run of the newest lines: the ring gives up its
\* oldest line only, and a failed drain never puts a line back in the wrong
\* place (writers.py 229-232, 253-255, 261-264).
BufferIsNewest ==
  \A i \in 1..Len(buffer) : buffer[i] = written - Len(buffer) + i

\* Lines leave in the order they were written, each at most once, whatever
\* sequence of failures, drains and reconnections lies between.
SentInOrder ==
  /\ \A i, j \in 1..Len(transmitted) : i < j => transmitted[i] < transmitted[j]
  /\ \A i \in 1..Len(transmitted) : transmitted[i] <= written - Len(buffer)

\* No line is created or counted twice: every written line was sent, waits, was
\* dropped and counted, or was lost in the hand of a drain that broke
\* (writers.py 230-231, 262-263).
LinesConserved ==
  /\ sent = Len(transmitted)
  /\ written = sent + Len(buffer) + dropped + lost

\* An operation loses at most one line without counting it, and only when the
\* connection breaks under it; the back-off that follows spaces such losses.
OneLossPerBreak ==
  [][lost' # lost => /\ lost' = lost + 1
                     /\ socket' = "none" /\ peer' = "down"
                     /\ since' = 0 /\ backoff' > 1]_vars

\* Once the receiver stays up, the buffer is emptied, again after every write
\* that had to buffer: back-off never grows out of reach (writers.py 216, 236).
EventuallyDrained ==
  <>[](peer = "up") => []<>(buffer = <<>> \/ closed)

\* The class comment (writers.py 186): lines are buffered up to buffer_size,
\* then dropped with a counter, so the counters and the buffer account for
\* every line written.
NoUncountedLoss == written = sent + Len(buffer) + dropped

-----------------------------------------------------------------------------
Sink == INSTANCE OrderedLossySink WITH accepted <- written, delivered <- transmitted

\* The writer implements the abstract sink: no operation delivers a line out of
\* order, a second time, or before it was written.
ImplementsSink == Sink!Spec
=============================================================================

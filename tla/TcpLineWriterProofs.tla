------------------------ MODULE TcpLineWriterProofs ------------------------
(***************************************************************************)
(* Proofs about TcpLineWriter, for every buffer size, back-off limit and   *)
(* number of lines: its invariants, its action properties, and that it     *)
(* implements OrderedLossySink.                                            *)
(***************************************************************************)
EXTENDS TcpLineWriter, SequenceTheorems, TLAPS

Lines == 1..MaxLines

\* q is the run of lines that ends with line w.
Newest(q, w) == \A i \in 1..Len(q) : q[i] = w - Len(q) + i

\* t is ascending and has no line beyond b.
Ordered(t, b) ==
  /\ \A i, j \in 1..Len(t) : i < j => t[i] < t[j]
  /\ \A i \in 1..Len(t) : t[i] <= b

\* The inductive invariant: each part needs the others.  A drain keeps the order
\* because the buffer is the newest run, and a direct send because a connected
\* writer has nothing buffered.
IInv ==
  /\ TypeOK
  /\ ConnectedMeansDrained
  /\ BufferIsNewest
  /\ SentInOrder
  /\ LinesConserved

-----------------------------------------------------------------------------
\* Lemmas about the operators on lines.

\* Cutting a sequence in two (the popleft loops of writers.py 229-230).
LEMMA CutProperties ==
  ASSUME NEW S, NEW s \in Seq(S), NEW n \in 0..Len(s)
  PROVE  /\ Upto(s, n) \in Seq(S)
         /\ Len(Upto(s, n)) = n
         /\ \A i \in 1..n : Upto(s, n)[i] = s[i]
         /\ After(s, n) \in Seq(S)
         /\ Len(After(s, n)) = Len(s) - n
         /\ \A i \in 1..(Len(s) - n) : After(s, n)[i] = s[n + i]
<1>1. Len(s) \in Nat /\ \A i \in 1..Len(s) : s[i] \in S
  BY LenProperties, ElementOfSeq
<1>2. /\ SubSeq(s, 1, n) \in Seq(S)
      /\ Len(SubSeq(s, 1, n)) = n
      /\ \A i \in 1..n : SubSeq(s, 1, n)[i] = s[i]
  <2>1. \A i \in 1..n : s[i] \in S
    BY <1>1
  <2>2. /\ SubSeq(s, 1, n) \in Seq(S)
        /\ Len(SubSeq(s, 1, n)) = IF 1 <= n THEN n - 1 + 1 ELSE 0
        /\ \A i \in 1..(n - 1 + 1) : SubSeq(s, 1, n)[i] = s[1 + i - 1]
    BY <1>1, <2>1, SubSeqProperties
  <2>3. QED
    BY <1>1, <2>2
<1>3. /\ SubSeq(s, n + 1, Len(s)) \in Seq(S)
      /\ Len(SubSeq(s, n + 1, Len(s))) = Len(s) - n
      /\ \A i \in 1..(Len(s) - n) : SubSeq(s, n + 1, Len(s))[i] = s[n + i]
  <2>1. \A i \in (n + 1)..Len(s) : s[i] \in S
    BY <1>1
  <2>2. /\ SubSeq(s, n + 1, Len(s)) \in Seq(S)
        /\ Len(SubSeq(s, n + 1, Len(s)))
             = IF n + 1 <= Len(s) THEN Len(s) - (n + 1) + 1 ELSE 0
        /\ \A i \in 1..(Len(s) - (n + 1) + 1) :
             SubSeq(s, n + 1, Len(s))[i] = s[n + 1 + i - 1]
    BY <1>1, <2>1, SubSeqProperties
  <2>3. QED
    BY <1>1, <2>2
<1>4. QED
  BY <1>2, <1>3 DEF Upto, After

\* Appending to the ring: at most its capacity, the new line last, the others
\* shifted by the line that gave way, if any.
LEMMA PushProperties ==
  ASSUME NEW S, NEW q \in Seq(S), Len(q) <= BufferSize, NEW x \in S
  PROVE  /\ Push(q, x) \in Seq(S)
         /\ Len(Push(q, x)) = IF Len(q) >= BufferSize THEN Len(q) ELSE Len(q) + 1
         /\ Len(Push(q, x)) <= BufferSize
         /\ Push(q, x)[Len(Push(q, x))] = x
         /\ \A i \in 1..(Len(Push(q, x)) - 1) :
              Push(q, x)[i] = q[i + Len(q) + 1 - Len(Push(q, x))]
<1> USE BufferSizeAssumption
<1>1. Len(q) \in Nat
  BY LenProperties
<1>2. CASE Len(q) >= BufferSize
  <2>1. q # <<>>
    BY <1>2, EmptySeq
  <2>2. /\ Tail(q) \in Seq(S) /\ Len(Tail(q)) = Len(q) - 1
        /\ \A i \in 1..Len(Tail(q)) : Tail(q)[i] = q[i + 1]
    BY <2>1, HeadTailProperties
  <2>3. Push(q, x) = Append(Tail(q), x)
    BY <1>2 DEF Push
  <2>4. /\ Append(Tail(q), x) \in Seq(S)
        /\ Len(Append(Tail(q), x)) = Len(q)
        /\ \A i \in 1..(Len(q) - 1) : Append(Tail(q), x)[i] = q[i + 1]
        /\ Append(Tail(q), x)[Len(q)] = x
    BY <1>1, <2>2, AppendProperties
  <2>5. QED
    BY <1>1, <1>2, <2>3, <2>4
<1>3. CASE Len(q) < BufferSize
  <2>1. Push(q, x) = Append(q, x)
    BY <1>1, <1>3 DEF Push
  <2>2. QED
    BY <1>1, <1>3, <2>1, AppendProperties
<1>4. QED
  BY <1>1, <1>2, <1>3

\* The ring stays the run of the newest lines when the next line is appended.
LEMMA PushNewest ==
  ASSUME NEW q \in Seq(Lines), Len(q) <= BufferSize,
         NEW w \in Nat, w + 1 \in Lines, Newest(q, w)
  PROVE  Newest(Push(q, w + 1), w + 1)
<1>1. Len(q) \in Nat
  BY LenProperties
<1>2. /\ Len(Push(q, w + 1)) = IF Len(q) >= BufferSize THEN Len(q) ELSE Len(q) + 1
      /\ Push(q, w + 1)[Len(Push(q, w + 1))] = w + 1
      /\ \A i \in 1..(Len(Push(q, w + 1)) - 1) :
           Push(q, w + 1)[i] = q[i + Len(q) + 1 - Len(Push(q, w + 1))]
  BY PushProperties
<1> DEFINE p == Push(q, w + 1)
<1> HIDE DEF p
<1>3. ASSUME NEW i \in 1..Len(p)
      PROVE  p[i] = w + 1 - Len(p) + i
  <2>1. /\ Len(p) \in Nat /\ Len(p) \in {Len(q), Len(q) + 1}
        /\ p[Len(p)] = w + 1
        /\ \A k \in 1..(Len(p) - 1) : p[k] = q[k + Len(q) + 1 - Len(p)]
    BY <1>1, <1>2 DEF p
  <2>2. CASE i = Len(p)
    BY <2>1, <2>2
  <2>3. CASE i < Len(p)
    <3>1. i \in 1..(Len(p) - 1) /\ i + Len(q) + 1 - Len(p) \in 1..Len(q)
      BY <1>1, <2>1, <2>3
    <3>2. p[i] = q[i + Len(q) + 1 - Len(p)]
      BY <2>1, <3>1
    <3>3. q[i + Len(q) + 1 - Len(p)] = w - Len(q) + (i + Len(q) + 1 - Len(p))
      BY <3>1 DEF Newest
    <3>4. QED
      BY <1>1, <2>1, <3>2, <3>3
  <2>4. QED
    BY <2>1, <2>2, <2>3
<1>4. QED
  BY <1>3 DEF Newest, p

\* A drain takes the oldest lines, so what is left is still the newest run.
LEMMA AfterNewest ==
  ASSUME NEW q \in Seq(Lines), NEW n \in 0..Len(q), NEW w \in Nat, Newest(q, w)
  PROVE  Newest(After(q, n), w)
<1>1. Len(q) \in Nat
  BY LenProperties
<1>2. /\ Len(After(q, n)) = Len(q) - n
      /\ \A i \in 1..(Len(q) - n) : After(q, n)[i] = q[n + i]
  BY CutProperties
<1>3. ASSUME NEW i \in 1..Len(After(q, n))
      PROVE  After(q, n)[i] = w - Len(After(q, n)) + i
  <2>1. n + i \in 1..Len(q) /\ After(q, n)[i] = q[n + i]
    BY <1>1, <1>2
  <2>2. q[n + i] = w - Len(q) + (n + i)
    BY <2>1 DEF Newest
  <2>3. QED
    BY <1>1, <1>2, <2>1, <2>2
<1>4. QED
  BY <1>3 DEF Newest

\* Lines beyond every line sent so far extend the order.
LEMMA ConcatOrdered ==
  ASSUME NEW t \in Seq(Lines), NEW u \in Seq(Lines), NEW b \in Int, NEW c \in Int,
         b <= c, Ordered(t, b),
         \A i, j \in 1..Len(u) : i < j => u[i] < u[j],
         \A i \in 1..Len(u) : b < u[i] /\ u[i] <= c
  PROVE  Ordered(t \o u, c)
<1>1. /\ Len(t) \in Nat /\ Len(u) \in Nat
      /\ \A i \in 1..Len(t) : t[i] \in Int
      /\ \A i \in 1..Len(u) : u[i] \in Int
  BY LenProperties, ElementOfSeq, MaxLinesAssumption DEF Lines
<1>2. /\ Len(t \o u) = Len(t) + Len(u)
      /\ \A i \in 1..(Len(t) + Len(u)) :
           (t \o u)[i] = IF i <= Len(t) THEN t[i] ELSE u[i - Len(t)]
  BY ConcatProperties
<1>3. \A i \in 1..Len(t \o u) : (t \o u)[i] <= c
  BY <1>1, <1>2 DEF Ordered
<1>4. ASSUME NEW i \in 1..Len(t \o u), NEW j \in 1..Len(t \o u), i < j
      PROVE  (t \o u)[i] < (t \o u)[j]
  <2>1. CASE j <= Len(t)
    BY <1>1, <1>2, <1>4, <2>1 DEF Ordered
  <2>2. CASE i <= Len(t) /\ j > Len(t)
    <3>1. t[i] <= b /\ b < u[j - Len(t)]
      BY <1>1, <1>2, <1>4, <2>2 DEF Ordered
    <3>2. QED
      BY <1>1, <1>2, <1>4, <2>2, <3>1
  <2>3. CASE i > Len(t)
    BY <1>1, <1>2, <1>4, <2>3
  <2>4. QED
    BY <1>1, <1>2, <1>4, <2>1, <2>2, <2>3
<1>5. QED
  BY <1>3, <1>4 DEF Ordered

\* Draining n lines of the newest run keeps the order of what was sent.
LEMMA DrainOrdered ==
  ASSUME NEW t \in Seq(Lines), NEW q \in Seq(Lines), NEW w \in Nat,
         Newest(q, w), Ordered(t, w - Len(q)), NEW n \in 0..Len(q)
  PROVE  /\ t \o Upto(q, n) \in Seq(Lines)
         /\ Len(t \o Upto(q, n)) = Len(t) + n
         /\ Ordered(t \o Upto(q, n), w - Len(q) + n)
<1>1. Len(q) \in Nat
  BY LenProperties
<1>2. /\ Upto(q, n) \in Seq(Lines) /\ Len(Upto(q, n)) = n
      /\ \A i \in 1..n : Upto(q, n)[i] = q[i]
  BY CutProperties
<1>3. \A i \in 1..n : Upto(q, n)[i] = w - Len(q) + i
  BY <1>1, <1>2 DEF Newest
<1>4. Ordered(t \o Upto(q, n), w - Len(q) + n)
  <2> DEFINE u == Upto(q, n)
  <2>1. u \in Seq(Lines) /\ w - Len(q) \in Int /\ w - Len(q) + n \in Int
    BY <1>1, <1>2
  <2>2. \A i, j \in 1..Len(u) : i < j => u[i] < u[j]
    BY <1>1, <1>2, <1>3
  <2>3. \A i \in 1..Len(u) : w - Len(q) < u[i] /\ u[i] <= w - Len(q) + n
    BY <1>1, <1>2, <1>3
  <2>4. w - Len(q) <= w - Len(q) + n
    BY <1>1
  <2> HIDE DEF u
  <2>5. Ordered(t \o u, w - Len(q) + n)
    BY <2>1, <2>2, <2>3, <2>4, ConcatOrdered
  <2>6. QED
    BY <2>5 DEF u
<1>5. QED
  BY <1>2, <1>4, ConcatProperties

\* Sending the next line after everything before it keeps the order.
LEMMA SendOrdered ==
  ASSUME NEW t \in Seq(Lines), NEW w \in Nat, w + 1 \in Lines, Ordered(t, w)
  PROVE  /\ t \o <<w + 1>> \in Seq(Lines)
         /\ Len(t \o <<w + 1>>) = Len(t) + 1
         /\ Ordered(t \o <<w + 1>>, w + 1)
<1> DEFINE u == <<w + 1>>
<1>1. u \in Seq(Lines) /\ Len(u) = 1 /\ u[1] = w + 1
  OBVIOUS
<1>2. /\ \A i, j \in 1..Len(u) : i < j => u[i] < u[j]
      /\ \A i \in 1..Len(u) : w < u[i] /\ u[i] <= w + 1
  BY <1>1
<1>3. w \in Int /\ w + 1 \in Int /\ w <= w + 1
  OBVIOUS
<1> HIDE DEF u
<1>4. Ordered(t \o u, w + 1)
  BY <1>1, <1>2, <1>3, ConcatOrdered
<1>5. t \o u \in Seq(Lines) /\ Len(t \o u) = Len(t) + Len(u)
  BY <1>1, ConcatProperties
<1>6. QED
  BY <1>1, <1>4, <1>5 DEF u

-----------------------------------------------------------------------------
\* What an outcome of _ensure_connected() may be when the invariant holds: it has
\* sent and taken a prefix of the buffer, and if it has a connection it has sent
\* the whole of it (writers.py 211-237).
EnsureResult(o) ==
  /\ o.socket \in {"none", "open", "stale"}
  /\ o.backoff \in 1..MaxBackoff
  /\ o.since \in 0..MaxBackoff
  /\ o.peer \in {"up", "down"}
  /\ o.sent \in 0..Len(buffer)
  /\ o.popped \in 0..Len(buffer)
  /\ o.popped \in {o.sent, o.sent + 1}
  /\ o.socket # "none" => o.sent = Len(buffer) /\ o.popped = Len(buffer)
  /\ o.popped # o.sent =>
       /\ o.socket = "none" /\ o.since = 0 /\ o.backoff > 1 /\ o.peer = "down"

LEMMA EnsureOutcome ==
  ASSUME TypeOK, ConnectedMeansDrained, NEW o \in EnsureConnected
  PROVE  EnsureResult(o)
<1> USE MaxBackoffAssumption
<1>1. Len(buffer) \in Nat
  BY LenProperties DEF TypeOK
<1>2. CASE o = Untouched
  <2>1. socket # "none" => Len(buffer) = 0
    BY EmptySeq DEF ConnectedMeansDrained
  <2>2. QED
    BY <1>1, <1>2, <2>1 DEF Untouched, EnsureResult, TypeOK
<1>3. CASE o = Refused
  BY <1>1, <1>3 DEF Refused, EnsureResult, TypeOK, Doubled, Least
<1>4. ASSUME NEW d \in Drains(buffer), o = Connects(d)
      PROVE  EnsureResult(o)
  <2>1. CASE d = [sent |-> Len(buffer), popped |-> Len(buffer), broke |-> FALSE]
    BY <1>1, <1>4, <2>1 DEF Connects, EnsureResult, TypeOK
  <2>2. CASE \E n \in 0..(Len(buffer) - 1) :
               d = [sent |-> n, popped |-> n + 1, broke |-> TRUE]
    BY <1>1, <1>4, <2>2 DEF Connects, EnsureResult, TypeOK, Doubled, Least
  <2>3. QED
    BY <2>1, <2>2 DEF Drains
<1>5. QED
  BY <1>2, <1>3, <1>4 DEF EnsureConnected

\* The counters an outcome adds are numbers.
LEMMA EnsureNumbers ==
  ASSUME TypeOK, NEW o, EnsureResult(o)
  PROVE  /\ o.sent \in Nat /\ o.popped \in Nat
         /\ o.popped - o.sent \in {0, 1}
         /\ o.popped <= Len(buffer) /\ o.sent <= Len(buffer)
         /\ dropped \in Nat /\ sent \in Nat /\ lost \in Nat
         /\ sent + o.sent \in Nat /\ lost + (o.popped - o.sent) \in Nat
<1>1. Len(buffer) \in Nat /\ dropped \in Nat /\ sent \in Nat /\ lost \in Nat
  BY LenProperties DEF TypeOK
<1>2. o.sent \in 0..Len(buffer) /\ o.popped \in {o.sent, o.sent + 1}
      /\ o.popped \in 0..Len(buffer)
  BY DEF EnsureResult
<1>3. QED
  BY <1>1, <1>2

\* After a connection attempt flush() finds nothing left to drain: its own loop
\* (writers.py 261-264) has no line to send.
LEMMA FlushOutcome ==
  ASSUME TypeOK, ConnectedMeansDrained, NEW o \in EnsureConnected,
         NEW d \in FlushLoop(o)
  PROVE  d = [sent |-> 0, popped |-> 0, broke |-> FALSE]
<1>1. EnsureResult(o) /\ Len(buffer) \in Nat /\ buffer \in Seq(Lines)
  BY EnsureOutcome, LenProperties DEF TypeOK, Lines
<1>2. CASE o.socket = "none"
  BY <1>2 DEF FlushLoop
<1>3. CASE o.socket # "none"
  <2>1. Len(After(buffer, o.popped)) = 0
    BY <1>1, <1>3, CutProperties DEF EnsureResult
  <2>2. 0..(Len(After(buffer, o.popped)) - 1) = {}
    BY <2>1
  <2>3. QED
    BY <1>3, <2>1, <2>2 DEF FlushLoop, Drains
<1>4. QED
  BY <1>2, <1>3

\* Every operation drains a prefix of the buffer: what remains is in order, and
\* so is everything sent (the shared part of write, flush and close).
LEMMA AfterEnsure ==
  ASSUME IInv, NEW o \in EnsureConnected
  PROVE  LET rest == After(buffer, o.popped)
             out  == transmitted \o Upto(buffer, o.sent)
         IN /\ rest \in Seq(Lines) /\ Len(rest) = Len(buffer) - o.popped
            /\ Len(rest) <= BufferSize
            /\ Newest(rest, written)
            /\ out \in Seq(Lines) /\ Len(out) = Len(transmitted) + o.sent
            /\ Ordered(out, written - Len(buffer) + o.sent)
            /\ Ordered(out, written - Len(rest))
<1> DEFINE rest == After(buffer, o.popped)
           out  == transmitted \o Upto(buffer, o.sent)
<1>1. /\ EnsureResult(o) /\ Len(buffer) \in Nat /\ buffer \in Seq(Lines)
      /\ transmitted \in Seq(Lines) /\ written \in Nat
      /\ Len(buffer) <= BufferSize
  BY EnsureOutcome, LenProperties, MaxLinesAssumption DEF IInv, TypeOK, Lines
<1>2. Newest(buffer, written) /\ Ordered(transmitted, written - Len(buffer))
  BY DEF IInv, BufferIsNewest, SentInOrder, Newest, Ordered
<1>3. o.sent \in 0..Len(buffer) /\ o.popped \in 0..Len(buffer) /\ o.sent <= o.popped
  BY <1>1 DEF EnsureResult
<1>4. /\ rest \in Seq(Lines) /\ Len(rest) = Len(buffer) - o.popped
      /\ Len(rest) <= BufferSize
  BY <1>1, <1>3, CutProperties, BufferSizeAssumption
<1>5. Newest(rest, written)
  BY <1>1, <1>2, <1>3, AfterNewest
<1>6. /\ out \in Seq(Lines) /\ Len(out) = Len(transmitted) + o.sent
      /\ Ordered(out, written - Len(buffer) + o.sent)
  BY <1>1, <1>2, <1>3, DrainOrdered
<1> HIDE DEF out, rest
<1>7. Ordered(out, written - Len(rest))
  <2>1. \A i \in 1..Len(out) : out[i] \in Int
    <3>1. \A i \in 1..Len(out) : out[i] \in Lines
      BY <1>6, ElementOfSeq
    <3>2. QED
      BY <3>1, MaxLinesAssumption DEF Lines
  <2>2. /\ written - Len(buffer) + o.sent \in Int /\ written - Len(rest) \in Int
        /\ written - Len(buffer) + o.sent <= written - Len(rest)
    BY <1>1, <1>3, <1>4
  <2>3. QED
    BY <1>6, <2>1, <2>2 DEF Ordered
<1>8. QED
  BY <1>4, <1>5, <1>6, <1>7 DEF out, rest

-----------------------------------------------------------------------------
\* A call of write() whose attempt to connect had outcome o, by what becomes of
\* the line.
WriteEffect(o) ==
  /\ written < MaxLines /\ written' = written + 1
  /\ backoff' = o.backoff /\ since' = o.since /\ closed' = closed
  /\ lost' = lost + (o.popped - o.sent)

SendStep(o) ==
  /\ o.socket # "none"
  /\ WriteEffect(o)
  /\ SendLine(o, After(buffer, o.popped), Upto(buffer, o.sent), written + 1)

KeepStep(o) ==
  /\ WriteEffect(o)
  /\ KeepLine(o, After(buffer, o.popped), Upto(buffer, o.sent), written + 1)

\* write() keeps the invariant when the line goes out at once.
LEMMA SendLineInvariant ==
  ASSUME IInv, NEW o \in EnsureConnected, SendStep(o)
  PROVE  IInv'
<1> DEFINE rest == After(buffer, o.popped)
           out  == transmitted \o Upto(buffer, o.sent)
<1>0. /\ written < MaxLines /\ written' = written + 1 /\ o.socket # "none"
      /\ backoff' = o.backoff /\ since' = o.since /\ closed' = closed
      /\ lost' = lost + (o.popped - o.sent)
  BY DEF SendStep, WriteEffect
<1>1. /\ TypeOK /\ EnsureResult(o) /\ Len(buffer) \in Nat /\ written \in Nat
      /\ written + 1 \in Lines /\ Len(transmitted) \in Nat /\ MaxLines \in Nat
  BY <1>0, EnsureOutcome, LenProperties, MaxLinesAssumption DEF IInv, TypeOK, Lines
<1>2. /\ rest \in Seq(Lines) /\ Len(rest) = Len(buffer) - o.popped
      /\ out \in Seq(Lines) /\ Len(out) = Len(transmitted) + o.sent
      /\ Ordered(out, written - Len(rest))
  BY AfterEnsure
<1>3. o.sent = Len(buffer) /\ o.popped = Len(buffer) /\ Len(rest) = 0
  BY <1>0, <1>1, <1>2 DEF EnsureResult
<1>4. rest = <<>>
  BY <1>2, <1>3, EmptySeq
<1> HIDE DEF out, rest
<1>5. /\ out \o <<written + 1>> \in Seq(Lines)
      /\ Len(out \o <<written + 1>>) = Len(out) + 1
      /\ Ordered(out \o <<written + 1>>, written + 1)
  <2>1. Ordered(out, written)
    BY <1>1, <1>2, <1>3
  <2>2. QED
    BY <1>1, <1>2, <2>1, SendOrdered
<1>6. /\ buffer' = <<>> /\ sent' = sent + Len(buffer) + 1 /\ dropped' = dropped
      /\ transmitted' = out \o <<written + 1>>
      /\ socket' = o.socket /\ peer' = o.peer /\ lost' = lost
  BY <1>0, <1>1, <1>3, <1>4 DEF SendStep, SendLine, out, rest, TypeOK
<1>7. Len(buffer') = 0
  BY <1>6
<1>8. TypeOK'
  BY <1>0, <1>1, <1>5, <1>6, <1>7, BufferSizeAssumption DEF TypeOK, EnsureResult, Lines
<1>9. ConnectedMeansDrained' /\ BufferIsNewest'
  BY <1>6, <1>7 DEF ConnectedMeansDrained, BufferIsNewest
<1>10. SentInOrder'
  BY <1>0, <1>1, <1>5, <1>6, <1>7 DEF SentInOrder, Ordered
<1>11. LinesConserved'
  BY <1>0, <1>1, <1>2, <1>3, <1>5, <1>6, <1>7 DEF LinesConserved, IInv, TypeOK
<1>12. QED
  BY <1>8, <1>9, <1>10, <1>11 DEF IInv

\* write() keeps the invariant when the line goes to the ring.
LEMMA KeepLineInvariant ==
  ASSUME IInv, NEW o \in EnsureConnected, KeepStep(o)
  PROVE  IInv'
<1> DEFINE rest == After(buffer, o.popped)
           out  == transmitted \o Upto(buffer, o.sent)
           kept == Push(rest, written + 1)
<1>0. /\ written < MaxLines /\ written' = written + 1
      /\ backoff' = o.backoff /\ since' = o.since /\ closed' = closed
      /\ lost' = lost + (o.popped - o.sent)
  BY DEF KeepStep, WriteEffect
<1>1. /\ TypeOK /\ EnsureResult(o) /\ Len(buffer) \in Nat /\ written \in Nat
      /\ written + 1 \in Lines /\ Len(transmitted) \in Nat /\ MaxLines \in Nat
      /\ BufferSize \in Nat
  BY <1>0, EnsureOutcome, LenProperties, MaxLinesAssumption, BufferSizeAssumption
     DEF IInv, TypeOK, Lines
<1>2. /\ rest \in Seq(Lines) /\ Len(rest) = Len(buffer) - o.popped
      /\ Len(rest) <= BufferSize
      /\ Newest(rest, written)
      /\ out \in Seq(Lines) /\ Len(out) = Len(transmitted) + o.sent
      /\ Ordered(out, written - Len(rest))
  BY AfterEnsure
<1>3. /\ socket' = "none" /\ buffer' = kept /\ sent' = sent + o.sent
      /\ dropped' = IF Len(rest) >= BufferSize THEN dropped + 1 ELSE dropped
      /\ transmitted' = out
      /\ peer' \in {"up", "down"}
  BY <1>1 DEF KeepStep, KeepLine, EnsureResult, out, rest, kept
<1> HIDE DEF out, rest
<1>4. /\ kept \in Seq(Lines) /\ Len(kept) <= BufferSize
      /\ Len(kept) = IF Len(rest) >= BufferSize THEN Len(rest) ELSE Len(rest) + 1
  <2>1. rest \in Seq(Lines) /\ Len(rest) <= BufferSize /\ written + 1 \in Lines
    BY <1>1, <1>2
  <2>2. QED
    BY <2>1, PushProperties
<1>5. Newest(kept, written + 1)
  BY <1>1, <1>2, PushNewest
<1> HIDE DEF kept
<1>6. TypeOK'
  <2>1. /\ socket' \in {"none", "open", "stale"} /\ peer' \in {"up", "down"}
        /\ backoff' \in 1..MaxBackoff /\ since' \in 0..MaxBackoff
    BY <1>0, <1>1, <1>3 DEF EnsureResult
  <2>5. closed' \in BOOLEAN
    BY <1>0, <1>1 DEF TypeOK
  <2>2. dropped' \in Nat /\ sent' \in Nat /\ lost' \in Nat /\ written' \in 0..MaxLines
    BY <1>0, <1>1, <1>3, EnsureNumbers DEF Lines
  <2>3. /\ buffer' \in Seq(1..MaxLines) /\ Len(buffer') <= BufferSize
        /\ transmitted' \in Seq(1..MaxLines)
    BY <1>2, <1>3, <1>4 DEF Lines
  <2>4. QED
    BY <2>1, <2>2, <2>3, <2>5 DEF TypeOK
<1>7. ConnectedMeansDrained' /\ BufferIsNewest'
  <2>1. buffer' = kept /\ written' = written + 1 /\ written' \in Nat
    BY <1>0, <1>1, <1>3
  <2>2. Newest(buffer', written')
    BY <1>5, <2>1
  <2>3. QED
    BY <1>3, <2>2 DEF ConnectedMeansDrained, BufferIsNewest, Newest
<1>8. SentInOrder'
  <2>1. written - Len(rest) \in Int /\ written + 1 - Len(kept) \in Int
        /\ written - Len(rest) <= written + 1 - Len(kept)
    BY <1>1, <1>2, <1>4
  <2>2. \A i \in 1..Len(out) : out[i] \in Lines
    BY <1>2, ElementOfSeq
  <2>3. \A i \in 1..Len(out) : out[i] \in Int
    BY <1>1, <2>2 DEF Lines
  <2>4. /\ \A i, j \in 1..Len(out) : i < j => out[i] < out[j]
        /\ \A i \in 1..Len(out) : out[i] <= written + 1 - Len(kept)
    BY <1>2, <2>1, <2>3 DEF Ordered
  <2>5. transmitted' = out /\ buffer' = kept /\ written' = written + 1
    BY <1>0, <1>3
  <2>6. written' - Len(buffer') = written + 1 - Len(kept)
    <3>1. written' \in Nat /\ Len(buffer') \in Nat /\ Len(kept) \in Nat
      BY <1>1, <1>4, <2>5, LenProperties
    <3>2. QED
      BY <1>1, <2>5, <3>1
  <2>7. /\ \A i, j \in 1..Len(transmitted') : i < j => transmitted'[i] < transmitted'[j]
        /\ \A i \in 1..Len(transmitted') : transmitted'[i] <= written' - Len(buffer')
    BY <2>4, <2>5, <2>6
  <2>8. QED
    BY <2>7 DEF SentInOrder
<1>9. LinesConserved'
  <2>1. /\ sent = Len(transmitted) /\ written = sent + Len(buffer) + dropped + lost
        /\ sent \in Nat /\ dropped \in Nat /\ lost \in Nat
    BY DEF IInv, LinesConserved, TypeOK
  <2>3. sent' = Len(transmitted')
    BY <1>2, <1>3, <2>1
  <2>4. /\ o.sent \in Nat /\ o.popped \in Nat
        /\ Len(rest) \in Nat /\ Len(rest) = Len(buffer) - o.popped
    BY <1>1, <1>2, EnsureNumbers, LenProperties
  <2>6. /\ Len(kept) \in Nat /\ dropped' \in Nat
        /\ Len(kept) + dropped' = Len(rest) + dropped + 1
    <3>1. Len(rest) \in Nat /\ dropped \in Nat
      BY <2>1, <2>4
    <3>2. \/ Len(kept) = Len(rest) /\ dropped' = dropped + 1
          \/ Len(kept) = Len(rest) + 1 /\ dropped' = dropped
      BY <1>3, <1>4
    <3>3. Len(kept) \in Nat /\ dropped' \in Nat
      BY <3>1, <3>2
    <3>4. QED
      BY <3>1, <3>2, <3>3
  <2>7. /\ sent \in Nat /\ o.sent \in Nat /\ dropped \in Nat /\ lost \in Nat
        /\ o.popped \in Nat /\ Len(buffer) \in Nat /\ Len(rest) \in Nat
        /\ written = sent + Len(buffer) + dropped + lost
        /\ Len(rest) = Len(buffer) - o.popped
    BY <1>1, <2>1, <2>4
  <2>8. written + 1 = sent + o.sent + Len(kept) + dropped' + (lost + (o.popped - o.sent))
    <3>1. Len(kept) + dropped' = Len(buffer) - o.popped + dropped + 1
      BY <2>6, <2>7
    <3>2. sent + o.sent + Len(kept) + dropped' = sent + o.sent + (Len(kept) + dropped')
      BY <2>6, <2>7
    <3>3. written + 1 = sent + o.sent + (Len(buffer) - o.popped + dropped + 1)
                          + (lost + (o.popped - o.sent))
      BY <2>7
    <3>4. QED
      BY <3>1, <3>2, <3>3
  <2>5. QED
    BY <1>0, <1>3, <2>3, <2>8 DEF LinesConserved
<1>10. QED
  BY <1>6, <1>7, <1>8, <1>9 DEF IInv

\* flush() and close() keep the invariant: s is the socket they leave.
LEMMA FlushInvariant ==
  ASSUME IInv, NEW o \in EnsureConnected, NEW d \in FlushLoop(o), FlushWith(o, d),
         socket' \in {"none", o.socket}, closed' \in BOOLEAN
  PROVE  IInv'
<1> DEFINE rest == After(buffer, o.popped)
           out  == transmitted \o Upto(buffer, o.sent)
<1>1. /\ TypeOK /\ ConnectedMeansDrained /\ EnsureResult(o) /\ Len(buffer) \in Nat
      /\ Len(transmitted) \in Nat /\ written \in Nat
  BY EnsureOutcome, LenProperties, MaxLinesAssumption DEF IInv, TypeOK
<1>2. d = [sent |-> 0, popped |-> 0, broke |-> FALSE]
  BY <1>1, FlushOutcome
<1>3. /\ rest \in Seq(Lines) /\ Len(rest) = Len(buffer) - o.popped
      /\ Len(rest) <= BufferSize
      /\ Newest(rest, written)
      /\ out \in Seq(Lines) /\ Len(out) = Len(transmitted) + o.sent
      /\ Ordered(out, written - Len(rest))
  BY AfterEnsure
<1>4. /\ After(rest, 0) \in Seq(Lines) /\ Len(After(rest, 0)) = Len(rest)
      /\ Newest(After(rest, 0), written)
  <2>1. 0 \in 0..Len(rest)
    BY <1>3, LenProperties
  <2> HIDE DEF rest
  <2>2. After(rest, 0) \in Seq(Lines) /\ Len(After(rest, 0)) = Len(rest) - 0
    BY <1>3, <2>1, CutProperties
  <2>3. Newest(After(rest, 0), written)
    BY <1>1, <1>3, <2>1, AfterNewest
  <2>4. QED
    BY <1>1, <1>3, <2>2, <2>3, LenProperties
<1>5. out \o Upto(rest, 0) = out
  <2>1. Upto(rest, 0) = <<>>
    BY SubSeqEmpty DEF Upto
  <2>2. QED
    BY <1>3, <2>1, ConcatEmptySeq
<1>6. /\ buffer' = After(rest, 0) /\ sent' = sent + o.sent
      /\ transmitted' = out
      /\ lost' = lost + (o.popped - o.sent)
      /\ backoff' = o.backoff /\ since' = o.since /\ peer' = o.peer
      /\ dropped' = dropped /\ written' = written
  <2>1. /\ buffer' = After(rest, d.popped) /\ sent' = sent + o.sent + d.sent
        /\ transmitted' = out \o Upto(rest, d.sent)
        /\ lost' = lost + (o.popped - o.sent) + (d.popped - d.sent)
        /\ backoff' = o.backoff /\ since' = o.since
        /\ peer' = IF d.broke /\ o.socket = "open" THEN "down" ELSE o.peer
        /\ dropped' = dropped /\ written' = written
    BY DEF FlushWith
  <2>2. d.sent = 0 /\ d.popped = 0 /\ ~d.broke
    BY <1>2
  <2> HIDE DEF out, rest
  <2>3. sent + o.sent + 0 = sent + o.sent
        /\ lost + (o.popped - o.sent) + (0 - 0) = lost + (o.popped - o.sent)
    BY <1>1, EnsureNumbers
  <2>4. QED
    BY <1>5, <2>1, <2>2, <2>3
<1>7. socket' # "none" => buffer' = <<>>
  <2>1. socket' # "none" => o.socket # "none"
    OBVIOUS
  <2>3. o.socket # "none" => o.popped = Len(buffer)
    BY <1>1 DEF EnsureResult
  <2>4. socket' # "none" => Len(buffer') = 0
    BY <1>1, <1>3, <1>4, <1>6, <2>1, <2>3
  <2>2. QED
    BY <1>4, <1>6, <2>4, EmptySeq
<1> HIDE DEF out, rest
<1>8. TypeOK'
  <2>1. /\ socket' \in {"none", "open", "stale"} /\ peer' \in {"up", "down"}
        /\ closed' \in BOOLEAN
        /\ backoff' \in 1..MaxBackoff /\ since' \in 0..MaxBackoff
    BY <1>1, <1>6 DEF EnsureResult
  <2>2. dropped' \in Nat /\ sent' \in Nat /\ lost' \in Nat
    BY <1>1, <1>6, EnsureNumbers
  <2>3. /\ buffer' \in Seq(1..MaxLines) /\ Len(buffer') <= BufferSize
        /\ transmitted' \in Seq(1..MaxLines) /\ written' \in 0..MaxLines
    BY <1>1, <1>3, <1>4, <1>6 DEF Lines, TypeOK
  <2>4. QED
    BY <2>1, <2>2, <2>3 DEF TypeOK
<1>9. ConnectedMeansDrained' /\ BufferIsNewest' /\ SentInOrder'
  BY <1>3, <1>4, <1>6, <1>7
     DEF ConnectedMeansDrained, BufferIsNewest, SentInOrder, Newest, Ordered
<1>10. LinesConserved'
  <2>1. sent = Len(transmitted) /\ written = sent + Len(buffer) + dropped + lost
    BY DEF IInv, LinesConserved
  <2>2. /\ sent \in Nat /\ dropped \in Nat /\ lost \in Nat
        /\ o.sent \in Nat /\ o.popped \in Nat
    BY <1>1, EnsureNumbers
  <2>3. Len(buffer') = Len(buffer) - o.popped
    BY <1>3, <1>4, <1>6
  <2>4. written = sent + o.sent + (Len(buffer) - o.popped) + dropped + (lost + (o.popped - o.sent))
    BY <1>1, <2>1, <2>2
  <2>5. sent' = Len(transmitted')
    BY <1>3, <1>6, <2>1
  <2>6. QED
    BY <1>6, <2>3, <2>4, <2>5 DEF LinesConserved
<1>11. QED
  BY <1>8, <1>9, <1>10 DEF IInv

-----------------------------------------------------------------------------
LEMMA InitIInv == Init => IInv
<1> SUFFICES ASSUME Init PROVE IInv
  OBVIOUS
<1>1. /\ buffer = <<>> /\ transmitted = <<>> /\ Len(buffer) = 0 /\ Len(transmitted) = 0
  BY DEF Init
<1>2. TypeOK
  <2>1. /\ 1 \in 1..MaxBackoff /\ MaxBackoff \in 0..MaxBackoff /\ 0 \in 0..MaxLines
        /\ 0 <= BufferSize
    BY BufferSizeAssumption, MaxBackoffAssumption, MaxLinesAssumption
  <2>2. <<>> \in Seq(1..MaxLines)
    BY EmptySeq
  <2>3. QED
    BY <1>1, <2>1, <2>2 DEF Init, TypeOK
<1>3. ConnectedMeansDrained /\ BufferIsNewest /\ SentInOrder /\ LinesConserved
  BY <1>1 DEF Init, ConnectedMeansDrained, BufferIsNewest, SentInOrder, LinesConserved
<1>4. QED
  BY <1>2, <1>3 DEF IInv

\* Every step keeps the inductive invariant.
LEMMA NextIInv == IInv /\ [Next]_vars => IInv'
<1> SUFFICES ASSUME IInv, [Next]_vars PROVE IInv'
  OBVIOUS
<1>1. CASE Write
  <2>1. PICK o \in EnsureConnected : SendStep(o) \/ KeepStep(o)
    BY <1>1 DEF Write, SendOutcomes, SendStep, KeepStep, WriteEffect
  <2>2. QED
    BY <2>1, SendLineInvariant, KeepLineInvariant
<1>2. CASE Flush
  BY <1>2, FlushInvariant DEF Flush, IInv, TypeOK
<1>3. CASE Close
  BY <1>3, FlushInvariant DEF Close
<1>4. CASE Tick
  BY <1>4, MaxBackoffAssumption
     DEF Tick, IInv, TypeOK, ConnectedMeansDrained, BufferIsNewest, SentInOrder, LinesConserved
<1>5. CASE PeerFails
  BY <1>5 DEF PeerFails, IInv, TypeOK, ConnectedMeansDrained, BufferIsNewest, SentInOrder,
              LinesConserved
<1>6. CASE PeerRecovers
  BY <1>6 DEF PeerRecovers, IInv, TypeOK, ConnectedMeansDrained, BufferIsNewest, SentInOrder,
              LinesConserved
<1>7. CASE UNCHANGED vars
  BY <1>7 DEF vars, IInv, TypeOK, ConnectedMeansDrained, BufferIsNewest, SentInOrder,
              LinesConserved
<1>8. QED
  BY <1>1, <1>2, <1>3, <1>4, <1>5, <1>6, <1>7 DEF Next

-----------------------------------------------------------------------------
\* The inductive invariant holds in every reachable state.
THEOREM Invariance == Spec => []IInv
<1>1. Init => IInv
  BY InitIInv
<1>2. IInv /\ [Next]_vars => IInv'
  BY NextIInv
<1>3. QED
  BY <1>1, <1>2, PTL DEF Spec

\* Type correctness of the writer, for every buffer size and number of lines.
THEOREM TypeCorrect == Spec => []TypeOK
<1>1. IInv => TypeOK
  BY DEF IInv
<1>2. QED
  BY <1>1, Invariance, PTL

\* A connected writer has an empty buffer, so a direct send overtakes no line
\* (writers.py 228-232, 243-250).
THEOREM ConnectedDrained == Spec => []ConnectedMeansDrained
<1>1. IInv => ConnectedMeansDrained
  BY DEF IInv
<1>2. QED
  BY <1>1, Invariance, PTL

\* The buffer holds exactly the newest lines, through any mix of evictions and
\* broken drains (writers.py 229-232, 253-255).
THEOREM BufferNewest == Spec => []BufferIsNewest
<1>1. IInv => BufferIsNewest
  BY DEF IInv
<1>2. QED
  BY <1>1, Invariance, PTL

\* Lines are sent in the order they were written, none twice.
THEOREM OrderKept == Spec => []SentInOrder
<1>1. IInv => SentInOrder
  BY DEF IInv
<1>2. QED
  BY <1>1, Invariance, PTL

\* Every line written was sent, waits, was dropped and counted, or was lost in a
\* broken drain (writers.py 230-232, 253-255, 262-264).
THEOREM Conservation == Spec => []LinesConserved
<1>1. IInv => LinesConserved
  BY DEF IInv
<1>2. QED
  BY <1>1, Invariance, PTL
-----------------------------------------------------------------------------
\* An operation loses at most one line, and only when its drain breaks.
LEMMA LossStep ==
  ASSUME IInv, [Next]_vars, lost' # lost
  PROVE  /\ lost' = lost + 1 /\ socket' = "none" /\ peer' = "down"
         /\ since' = 0 /\ backoff' > 1
<1>1. TypeOK /\ ConnectedMeansDrained /\ lost \in Nat
  BY DEF IInv, TypeOK
<1>2. ASSUME NEW o \in EnsureConnected, lost + (o.popped - o.sent) # lost
      PROVE  /\ lost + (o.popped - o.sent) = lost + 1 /\ o.socket = "none"
             /\ o.since = 0 /\ o.backoff > 1 /\ o.peer = "down"
  <2>1. EnsureResult(o)
    BY <1>1, EnsureOutcome
  <2>2. o.popped - o.sent \in {0, 1} /\ o.sent \in Nat /\ o.popped \in Nat
    BY <1>1, <2>1, EnsureNumbers
  <2>3. o.popped - o.sent = 1 /\ o.popped # o.sent
    BY <1>1, <1>2, <2>2
  <2>4. QED
    BY <2>1, <2>3 DEF EnsureResult
<1>3. CASE Write
  <2>1. PICK o \in EnsureConnected : SendStep(o) \/ KeepStep(o)
    BY <1>3 DEF Write, SendOutcomes, SendStep, KeepStep, WriteEffect
  <2>2. /\ lost' = lost + (o.popped - o.sent) /\ since' = o.since /\ backoff' = o.backoff
    BY <2>1 DEF SendStep, KeepStep, WriteEffect
  <2>3. /\ lost' = lost + 1 /\ o.socket = "none" /\ since' = 0 /\ backoff' > 1
        /\ o.peer = "down"
    BY <1>2, <2>2
  <2>4. KeepStep(o)
    BY <2>1, <2>3 DEF SendStep
  <2>5. QED
    BY <2>3, <2>4 DEF KeepStep, KeepLine
<1>4. ASSUME NEW o \in EnsureConnected, NEW d \in FlushLoop(o), FlushWith(o, d),
             socket' \in {"none", o.socket}
      PROVE  /\ lost' = lost + 1 /\ socket' = "none" /\ peer' = "down"
             /\ since' = 0 /\ backoff' > 1
  <2>1. d.sent = 0 /\ d.popped = 0 /\ d.broke = FALSE
    BY <1>1, FlushOutcome
  <2>2. o.popped - o.sent \in {0, 1}
    BY <1>1, EnsureOutcome, EnsureNumbers
  <2>3. /\ lost' = lost + (o.popped - o.sent) + (d.popped - d.sent)
        /\ backoff' = o.backoff /\ since' = o.since
        /\ peer' = IF d.broke /\ o.socket = "open" THEN "down" ELSE o.peer
    BY <1>4 DEF FlushWith
  <2>4. lost' = lost + (o.popped - o.sent)
    BY <1>1, <2>1, <2>2, <2>3
  <2>5. QED
    BY <1>2, <1>4, <2>1, <2>3, <2>4
<1>5. CASE Flush
  BY <1>4, <1>5 DEF Flush
<1>6. CASE Close
  BY <1>4, <1>6 DEF Close
<1>7. QED
  BY <1>3, <1>5, <1>6 DEF Next, vars, Tick, PeerFails, PeerRecovers

\* A broken drain loses one line in hand, never more (writers.py 230-236).
THEOREM OneLoss == Spec => OneLossPerBreak
<1>1. IInv /\ [Next]_vars =>
        [lost' # lost => /\ lost' = lost + 1
                         /\ socket' = "none" /\ peer' = "down"
                         /\ since' = 0 /\ backoff' > 1]_vars
  BY LossStep
<1>2. QED
  BY <1>1, Invariance, PTL DEF Spec, OneLossPerBreak

-----------------------------------------------------------------------------
\* The writer implements the abstract sink.

\* Whatever a step does, it only adds lines at the end of what was sent.
LEMMA TransmittedGrows ==
  ASSUME IInv, [Next]_vars
  PROVE  \E x \in Seq(Lines) : transmitted' = transmitted \o x
<1>1. TypeOK /\ ConnectedMeansDrained /\ transmitted \in Seq(Lines) /\ buffer \in Seq(Lines)
  BY DEF IInv, TypeOK, Lines
<1>2. ASSUME NEW o \in EnsureConnected
      PROVE  Upto(buffer, o.sent) \in Seq(Lines)
  BY <1>1, EnsureOutcome, CutProperties DEF EnsureResult
<1>3. CASE Write
  <2>1. PICK o \in EnsureConnected : SendStep(o) \/ KeepStep(o)
    BY <1>3 DEF Write, SendOutcomes, SendStep, KeepStep, WriteEffect
  <2>2. CASE SendStep(o)
    <3> DEFINE a == Upto(buffer, o.sent)
               b == <<written + 1>>
    <3>1. b \in Seq(Lines)
      BY <2>2, MaxLinesAssumption, <1>1 DEF SendStep, WriteEffect, Lines, TypeOK
    <3>2. transmitted' = transmitted \o a \o b
      BY <2>2 DEF SendStep, SendLine
    <3>3. a \in Seq(Lines)
      BY <1>2
    <3> HIDE DEF a, b
    <3>4. (transmitted \o a) \o b = transmitted \o (a \o b) /\ a \o b \in Seq(Lines)
      BY <1>1, <3>1, <3>3, ConcatAssociative, ConcatProperties
    <3>5. QED
      BY <3>2, <3>4
  <2>3. CASE KeepStep(o)
    BY <1>2, <2>3 DEF KeepStep, KeepLine
  <2>4. QED
    BY <2>1, <2>2, <2>3
<1>4. ASSUME NEW o \in EnsureConnected, NEW d \in FlushLoop(o), FlushWith(o, d)
      PROVE  transmitted' = transmitted \o Upto(buffer, o.sent)
  <2>1. d.sent = 0
    BY <1>1, FlushOutcome
  <2>2. Upto(After(buffer, o.popped), 0) = <<>>
    BY SubSeqEmpty DEF Upto
  <2>3. transmitted \o Upto(buffer, o.sent) \in Seq(Lines)
    BY <1>1, <1>2, ConcatProperties
  <2>4. transmitted' = (transmitted \o Upto(buffer, o.sent))
                         \o Upto(After(buffer, o.popped), d.sent)
    BY <1>4 DEF FlushWith
  <2>5. QED
    BY <2>1, <2>2, <2>3, <2>4, ConcatEmptySeq
<1>5. CASE Flush
  BY <1>2, <1>4, <1>5 DEF Flush
<1>6. CASE Close
  BY <1>2, <1>4, <1>6 DEF Close
<1>7. CASE UNCHANGED transmitted
  <2>1. transmitted \o <<>> = transmitted /\ <<>> \in Seq(Lines)
    BY <1>1, ConcatEmptySeq, EmptySeq
  <2>2. QED
    BY <1>7, <2>1
<1>8. QED
  BY <1>3, <1>5, <1>6, <1>7 DEF Next, vars, Tick, PeerFails, PeerRecovers

LEMMA StepsImplementSink ==
  ASSUME IInv, IInv', [Next]_vars
  PROVE  [Sink!Step]_<<written, transmitted>>
<1>1. PICK x \in Seq(Lines) : transmitted' = transmitted \o x
  BY TransmittedGrows
<1>2. /\ transmitted \in Seq(Lines) /\ transmitted' \in Seq(Lines)
      /\ written \in Nat /\ written' \in 0..MaxLines /\ buffer' \in Seq(Lines)
      /\ Len(buffer') \in Nat
  BY LenProperties, MaxLinesAssumption DEF IInv, TypeOK, Lines
<1>3. written' \in {written, written + 1} /\ written' <= MaxLines
  BY <1>2, MaxLinesAssumption
     DEF Next, vars, Write, Flush, Close, FlushWith, Tick, PeerFails, PeerRecovers
<1>4. /\ Len(transmitted) <= Len(transmitted')
      /\ SubSeq(transmitted', 1, Len(transmitted)) = transmitted
  <2>1. /\ Len(transmitted') = Len(transmitted) + Len(x)
        /\ Len(transmitted) \in Nat /\ Len(x) \in Nat
    BY <1>1, <1>2, ConcatProperties, LenProperties
  <2>2. CASE Len(transmitted) = 0
    <3>1. transmitted = <<>>
      BY <1>2, <2>2, EmptySeq
    <3>2. SubSeq(transmitted', 1, 0) = <<>>
      BY SubSeqEmpty
    <3>3. QED
      BY <2>1, <2>2, <3>1, <3>2
  <2>3. CASE Len(transmitted) # 0
    <3>1. 1 \in 1..Len(transmitted) /\ Len(transmitted) \in 1..Len(transmitted)
      BY <2>1, <2>3
    <3>2. SubSeq(transmitted \o x, 1, Len(transmitted)) = SubSeq(transmitted, 1, Len(transmitted))
      BY <1>2, <3>1, SubSeqOfConcat1
    <3>3. SubSeq(transmitted, 1, Len(transmitted)) = transmitted
      BY <1>2, SubSeqFull
    <3>4. QED
      BY <1>1, <2>1, <3>2, <3>3
  <2>4. QED
    BY <2>2, <2>3
<1>5. Sink!Ascending(transmitted')
  BY DEF IInv, SentInOrder, Sink!Ascending
<1>6. transmitted' \in Seq(1..written')
  <2>1. \A i \in 1..Len(transmitted') : transmitted'[i] \in 1..written'
    <3>1. TAKE i \in 1..Len(transmitted')
    <3>2. transmitted'[i] \in 1..MaxLines
      BY <1>2, ElementOfSeq DEF Lines
    <3>3. transmitted'[i] <= written' - Len(buffer')
      BY DEF IInv, SentInOrder
    <3>4. QED
      BY <1>2, <3>2, <3>3, MaxLinesAssumption
  <2>2. Len(transmitted') \in Nat /\ transmitted' \in [1..Len(transmitted') -> Lines]
    BY <1>2, LenProperties
  <2>3. transmitted' \in [1..Len(transmitted') -> 1..written']
    BY <2>1, <2>2
  <2>4. Seq(1..written') = UNION {[1..n -> 1..written'] : n \in Nat}
    BY SeqDef
  <2>5. [1..Len(transmitted') -> 1..written'] \in {[1..n -> 1..written'] : n \in Nat}
    BY <2>2
  <2>6. QED
    BY <2>3, <2>4, <2>5
<1>7. QED
  BY <1>3, <1>4, <1>5, <1>6 DEF Sink!Step

\* The writer is an ordered, at-most-once, lossy sink: whatever the network does,
\* no line is delivered out of order, twice, or before it is written.
THEOREM Refinement == Spec => ImplementsSink
<1>1. Init => Sink!Init
  BY DEF Init, Sink!Init
<1>2. IInv /\ IInv' /\ [Next]_vars => [Sink!Step]_<<written, transmitted>>
  BY StepsImplementSink
<1>3. QED
  BY <1>1, <1>2, Invariance, PTL DEF Spec, ImplementsSink, Sink!Spec, Sink!vars
=============================================================================

------------------------ MODULE CaptureRunnerProofs ------------------------
(* Lines are taken in order and none is lost uncounted, for any number of    *)
(* restarts, any sizes of queue and pipe and any number of lines, however    *)
(* the readers of successive children, the main thread and signals           *)
(* interleave.                                                               *)
EXTENDS CaptureRunner, FiniteSetTheorems, SequenceTheorems, TLAPS

\* The last line of child p that its reader has taken from the pipe.
LastRead(p) == emitted[p] - Len(pipe[p])

\* What is in the pipe is what the child has written last.
PipeIsNewest ==
  \A p \in Procs :
    LastRead(p) \in Nat /\ \A i \in 1..Len(pipe[p]) : pipe[p][i] = LastRead(p) + i

\* The line in a reader's hand is the last it has read, and not yet taken.
HandIsLast ==
  \A p \in Procs : IF Holding(p) THEN hand[p] = LastRead(p) /\ seen[p] < hand[p]
                                 ELSE seen[p] <= LastRead(p)

\* The queue has lines that were read and not taken, those of one child in order.
QueueOrdered ==
  /\ \A p \in Procs : \A i \in 1..Len(queue) : queue[i][1] = p =>
       /\ seen[p] < queue[i][2] /\ queue[i][2] <= LastRead(p)
       /\ Holding(p) => queue[i][2] < hand[p]
  /\ \A i, j \in 1..Len(queue) :
       i < j /\ queue[i][1] = queue[j][1] => queue[i][2] < queue[j][2]

\* A child that has not been started has done nothing.
NotStarted ==
  \A p \in Procs :
    p > Cur \/ (p = Cur /\ pc = "start") => reader[p] = "none" /\ emitted[p] = 0

MainInBounds ==
  /\ rc = "none" <=> pc # "exited"
  /\ pc # "exited" => restarts <= MaxRestarts
  /\ pc = "start" => proc # "running"

\* A reader that ended without a stop has emptied the pipe of a dead child.
EndedIsDrained ==
  ~stop =>
    /\ discarded = 0
    /\ \A p \in Procs : reader[p] = "ended" =>
         pipe[p] = <<>> /\ (p < Cur \/ (p = Cur /\ proc # "running"))

\* Without a stop a child has died before its reader is joined, and readers that were
\* joined in time have ended.
JoinedInTime ==
  ~stop =>
    /\ pc \in {"join", "drain", "after", "shutdown", "finish", "close"} \/ rc = "0" =>
         proc # "running" /\ restarts <= MaxRestarts
    /\ ~timedOut =>
         \A p \in Procs :
           \/ p < Cur
           \/ p = Cur /\ (pc \in {"drain", "after", "shutdown", "finish", "close"} \/ rc = "0")
           => reader[p] = "ended"
    /\ ~timedOut /\ (pc = "close" \/ rc = "0") => queue = <<>>

Order == PipeIsNewest /\ HandIsLast /\ QueueOrdered

IInv ==
  /\ TypeOK /\ Order /\ LinesConserved
  /\ NotStarted /\ MainInBounds /\ EndedIsDrained /\ JoinedInTime

-----------------------------------------------------------------------------
(* Sets of lines, and the lines on their way.                              *)

LEMMA Bounds ==
  /\ MaxRestarts \in Nat /\ QueueSize \in Nat \ {0} /\ PipeSize \in Nat \ {0} /\ MaxLines \in Nat
  /\ Procs = 1..(MaxRestarts + 1) /\ Procs \subseteq Nat /\ Lines \subseteq Nat
BY MaxRestartsAssumption, QueueSizeAssumption, PipeSizeAssumption, MaxLinesAssumption
   DEF Procs, Lines

LEMMA LinesFinite ==
  ASSUME NEW S \in SUBSET (Procs \X Lines)
  PROVE  IsFiniteSet(S) /\ Cardinality(S) \in Nat
<1>1. IsFiniteSet(Procs) /\ IsFiniteSet(Lines)
  BY Bounds, FS_Interval DEF Lines
<1>2. IsFiniteSet(Procs \X Lines) BY <1>1, FS_Product
<1>. QED BY <1>2, FS_Subset, FS_CardinalityType

LEMMA LineAdded ==
  ASSUME NEW S \in SUBSET (Procs \X Lines), NEW l, l \notin S
  PROVE  Cardinality(S \union {l}) = Cardinality(S) + 1
BY LinesFinite, FS_AddElement

LEMMA LineRemoved ==
  ASSUME NEW S \in SUBSET (Procs \X Lines), NEW l \in S
  PROVE  Cardinality(S \ {l}) = Cardinality(S) - 1
BY LinesFinite, FS_RemoveElement

Queued(p, n) == \E i \in 1..Len(queue) : queue[i] = <<p, n>>
InHand(p, n) == Holding(p) /\ hand[p] = n
InPipe(p, n) == LastRead(p) < n /\ n <= emitted[p]
OnWay(p, n) == Queued(p, n) \/ InHand(p, n) \/ InPipe(p, n)

OnTheWayIs ==
  /\ OnTheWay \subseteq Procs \X Lines
  /\ \A p \in Procs, n \in Lines : <<p, n>> \in OnTheWay <=> OnWay(p, n)

LEMMA QueueElements ==
  ASSUME TypeOK, NEW i \in 1..Len(queue)
  PROVE  /\ queue[i] \in Procs \X Lines /\ queue[i] = <<queue[i][1], queue[i][2]>>
         /\ queue[i][1] \in Procs /\ queue[i][2] \in Lines
<1>1. queue \in Seq(Procs \X Lines) BY DEF TypeOK
<1>2. queue[i] \in Procs \X Lines BY <1>1, ElementOfSeq
<1>. QED BY <1>2

LEMMA PipeElements ==
  ASSUME TypeOK, NEW p \in Procs, NEW i \in 1..Len(pipe[p])
  PROVE  pipe[p][i] \in Lines
<1>1. pipe[p] \in Seq(Lines) BY DEF TypeOK
<1>. QED BY <1>1, ElementOfSeq

LEMMA PipeLengths ==
  ASSUME TypeOK, PipeIsNewest, NEW p \in Procs
  PROVE  /\ LastRead(p) \in Nat /\ Len(pipe[p]) \in Nat /\ emitted[p] \in 0..MaxLines
         /\ emitted[p] = LastRead(p) + Len(pipe[p])
<1>1. pipe[p] \in Seq(Lines) /\ emitted[p] \in 0..MaxLines BY DEF TypeOK
<1>2. Len(pipe[p]) \in Nat BY <1>1
<1>3. emitted[p] \in Int BY <1>1, Bounds
<1>. QED BY <1>1, <1>2, <1>3 DEF PipeIsNewest, LastRead

\* The types of single entries, as the steps below need them.
LEMMA FlowTyped ==
  ASSUME TypeOK, NEW p \in Procs
  PROVE  /\ queue \in Seq(Procs \X Lines) /\ Len(queue) \in Nat
         /\ pipe[p] \in Seq(Lines) /\ Len(pipe[p]) \in Nat
         /\ seen[p] \in Nat /\ hand[p] \in Nat /\ emitted[p] \in Nat
<1>1. queue \in Seq(Procs \X Lines) /\ pipe \in [Procs -> Seq(Lines)] BY DEF TypeOK
<1>2. /\ seen \in [Procs -> 0..MaxLines] /\ hand \in [Procs -> 0..MaxLines]
      /\ emitted \in [Procs -> 0..MaxLines]
  BY DEF TypeOK
<1>3. 0..MaxLines \subseteq Nat BY Bounds
<1>4. pipe[p] \in Seq(Lines) BY <1>1
<1>5. Len(queue) \in Nat /\ Len(pipe[p]) \in Nat BY <1>1, <1>4, LenProperties
<1>. QED BY <1>1, <1>2, <1>3, <1>4, <1>5

LEMMA PlaceMember ==
  ASSUME TypeOK, PipeIsNewest, HandIsLast, NEW p \in Procs, NEW x
  PROVE  x \in Places(p) <=>
           \/ \E i \in 1..Len(queue) : queue[i][1] = p /\ x = <<i, queue[i][2]>>
           \/ Holding(p) /\ x = <<Len(queue) + 1, hand[p]>>
           \/ \E i \in 1..Len(pipe[p]) : x = <<Len(queue) + 1 + i, LastRead(p) + i>>
<1>1. DOMAIN queue = 1..Len(queue) /\ DOMAIN pipe[p] = 1..Len(pipe[p]) BY DEF TypeOK
<1>2. \A i \in 1..Len(pipe[p]) : pipe[p][i] = LastRead(p) + i BY DEF PipeIsNewest
<1>. QED BY <1>1, <1>2 DEF Places

LEMMA OnTheWayMember == TypeOK /\ PipeIsNewest /\ HandIsLast => OnTheWayIs
<1>. SUFFICES ASSUME TypeOK, PipeIsNewest, HandIsLast PROVE OnTheWayIs OBVIOUS
<1>1. ASSUME NEW p \in Procs, NEW x \in Places(p) PROVE x[2] \in Lines
  <2>1. /\ LastRead(p) \in Nat /\ Len(pipe[p]) \in Nat
        /\ LastRead(p) + Len(pipe[p]) \in 0..MaxLines /\ MaxLines \in Nat
    BY PipeLengths, Bounds
  <2>2. seen[p] \in Nat BY Bounds DEF TypeOK
  <2>3. Holding(p) => hand[p] \in Lines BY <2>1, <2>2 DEF HandIsLast, Lines
  <2>4. \A i \in 1..Len(pipe[p]) : LastRead(p) + i \in Lines BY <2>1 DEF Lines
  <2>. QED BY <2>3, <2>4, PlaceMember, QueueElements
<1>2. ASSUME NEW p \in Procs, NEW n \in Lines
      PROVE  (\E x \in Places(p) : x[2] = n) <=> OnWay(p, n)
  <2>1. (\E i \in 1..Len(queue) : queue[i][1] = p /\ queue[i][2] = n) <=> Queued(p, n)
    BY QueueElements DEF Queued
  <2>2. (\E i \in 1..Len(pipe[p]) : n = LastRead(p) + i) <=> InPipe(p, n)
    <3>1. LastRead(p) \in Nat /\ Len(pipe[p]) \in Nat /\ emitted[p] = LastRead(p) + Len(pipe[p])
      BY PipeLengths
    <3>2. n \in Nat BY Bounds
    <3>3. ASSUME InPipe(p, n) PROVE \E i \in 1..Len(pipe[p]) : n = LastRead(p) + i
      <4>1. n - LastRead(p) \in 1..Len(pipe[p]) BY <3>1, <3>2, <3>3 DEF InPipe
      <4>2. n = LastRead(p) + (n - LastRead(p)) BY <3>1, <3>2
      <4>. QED BY <4>1, <4>2
    <3>. QED BY <3>1, <3>2, <3>3 DEF InPipe
  <2>3. /\ \A x \in Places(p) :
             \/ \E i \in 1..Len(queue) : queue[i][1] = p /\ queue[i][2] = x[2]
             \/ Holding(p) /\ hand[p] = x[2]
             \/ \E i \in 1..Len(pipe[p]) : x[2] = LastRead(p) + i
        /\ \A i \in 1..Len(queue) : queue[i][1] = p => <<i, queue[i][2]>> \in Places(p)
        /\ Holding(p) => <<Len(queue) + 1, hand[p]>> \in Places(p)
        /\ \A i \in 1..Len(pipe[p]) : <<Len(queue) + 1 + i, LastRead(p) + i>> \in Places(p)
    BY PlaceMember
  <2>4. (\E x \in Places(p) : x[2] = n) <=>
          \/ \E i \in 1..Len(queue) : queue[i][1] = p /\ queue[i][2] = n
          \/ Holding(p) /\ hand[p] = n
          \/ \E i \in 1..Len(pipe[p]) : n = LastRead(p) + i
    BY <2>3
  <2>. QED BY <2>1, <2>2, <2>4 DEF InHand, OnWay
<1>3. \A l : l \in OnTheWay <=> \E p \in Procs : \E x \in Places(p) : l = <<p, x[2]>>
  BY DEF OnTheWay
<1>. QED BY <1>1, <1>2, <1>3 DEF OnTheWayIs

\* Places nearer to the main thread hold smaller numbers.
LEMMA OrderedPlaces == TypeOK /\ Order => OrderPerChild
<1>. SUFFICES ASSUME TypeOK, PipeIsNewest, HandIsLast, QueueOrdered,
                     NEW p \in Procs, NEW x \in Places(p), NEW y \in Places(p)
              PROVE  x[2] > seen[p] /\ (x[1] < y[1] => x[2] < y[2])
  BY DEF Order, OrderPerChild
<1>1. LastRead(p) \in Nat /\ seen[p] \in Nat /\ Len(queue) \in Nat
  BY PipeLengths, FlowTyped
<1>2. \A i \in 1..Len(queue) : queue[i][1] = p =>
        /\ queue[i][2] \in Nat /\ seen[p] < queue[i][2] /\ queue[i][2] <= LastRead(p)
        /\ Holding(p) => queue[i][2] < hand[p]
  BY QueueElements, Bounds DEF QueueOrdered
<1>3. \A i, j \in 1..Len(queue) :
        i < j /\ queue[i][1] = p /\ queue[j][1] = p => queue[i][2] < queue[j][2]
  BY DEF QueueOrdered
<1>4. IF Holding(p) THEN hand[p] = LastRead(p) /\ seen[p] < hand[p]
                    ELSE seen[p] <= LastRead(p)
  BY DEF HandIsLast
<1>5. \A z \in Places(p) :
        \/ \E i \in 1..Len(queue) : queue[i][1] = p /\ z[1] = i /\ z[2] = queue[i][2]
        \/ Holding(p) /\ z[1] = Len(queue) + 1 /\ z[2] = hand[p]
        \/ \E i \in 1..Len(pipe[p]) : z[1] = Len(queue) + 1 + i /\ z[2] = LastRead(p) + i
  BY PlaceMember
<1>6. Len(pipe[p]) \in Nat BY PipeLengths
<1>7. CASE \E i \in 1..Len(queue) : queue[i][1] = p /\ x[1] = i /\ x[2] = queue[i][2]
  <2>1. PICK i \in 1..Len(queue) : queue[i][1] = p /\ x[1] = i /\ x[2] = queue[i][2] BY <1>7
  <2>. QED BY <1>1, <1>2, <1>3, <1>4, <1>5, <1>6, <2>1
<1>8. CASE Holding(p) /\ x[1] = Len(queue) + 1 /\ x[2] = hand[p]
  BY <1>1, <1>2, <1>4, <1>5, <1>6, <1>8
<1>9. CASE \E i \in 1..Len(pipe[p]) : x[1] = Len(queue) + 1 + i /\ x[2] = LastRead(p) + i
  <2>1. PICK i \in 1..Len(pipe[p]) : x[1] = Len(queue) + 1 + i /\ x[2] = LastRead(p) + i BY <1>9
  <2>. QED BY <1>1, <1>2, <1>4, <1>5, <1>6, <2>1
<1>. QED BY <1>5, <1>7, <1>8, <1>9

-----------------------------------------------------------------------------
(* Types.                                                                  *)

flow == <<readers, queue, framesSeen, seen>>

TypeControl ==
  /\ pc \in {"start", "consume", "check", "join", "drain", "after", "shutdown",
             "finish", "close", "exited"}
  /\ rc \in {"none", "0", "1", "raised"}
  /\ stop \in BOOLEAN /\ timedOut \in BOOLEAN /\ restarts \in 0..(MaxRestarts + 1)
  /\ proc \in {"none", "running", "ok", "failed"}

TypeFlow ==
  /\ pipe \in [Procs -> Seq(Lines)] /\ \A p \in Procs : Len(pipe[p]) <= PipeSize
  /\ reader \in [Procs -> {"none", "reading", "holding", "cleared", "ended"}]
  /\ hand \in [Procs -> 0..MaxLines]
  /\ queue \in Seq(Procs \X Lines) /\ Len(queue) <= QueueSize
  /\ emitted \in [Procs -> 0..MaxLines] /\ seen \in [Procs -> 0..MaxLines]

TypeCounts ==
  /\ framesSeen \in Nat /\ recordsWritten \in Nat /\ rejects \in Nat
  /\ dropped \in Nat /\ unflushed \in Nat /\ discarded \in Nat
  /\ stats \in [frames : Nat, records : Nat, rejects : Nat, dropped : Nat]

LEMMA TypeParts == TypeOK <=> TypeControl /\ TypeFlow /\ TypeCounts
BY DEF TypeOK, TypeControl, TypeFlow, TypeCounts

LEMMA InitTypeOK == Init => TypeOK
<1>. SUFFICES ASSUME Init PROVE TypeOK OBVIOUS
<1>1. <<>> \in Seq(Lines) /\ <<>> \in Seq(Procs \X Lines) /\ Len(<<>>) = 0 OBVIOUS
<1>2. TypeControl
  <2>1. 0 \in 0..(MaxRestarts + 1) BY Bounds
  <2>. QED BY <2>1 DEF Init, TypeControl
<1>3. TypeFlow
  <2>1. 0 \in 0..MaxLines BY Bounds
  <2>2. /\ pipe = [p \in Procs |-> <<>>] /\ reader = [p \in Procs |-> "none"]
        /\ hand = [p \in Procs |-> 0] /\ emitted = [p \in Procs |-> 0]
        /\ seen = [p \in Procs |-> 0] /\ queue = <<>>
    BY DEF Init
  <2>3. pipe \in [Procs -> Seq(Lines)] BY <1>1, <2>2
  <2>4. \A p \in Procs : Len(pipe[p]) <= PipeSize BY <1>1, <2>2, Bounds
  <2>5. queue \in Seq(Procs \X Lines) /\ Len(queue) <= QueueSize BY <1>1, <2>2, Bounds
  <2>. QED BY <2>1, <2>2, <2>3, <2>4, <2>5 DEF TypeFlow
<1>4. TypeCounts BY DEF Init, TypeCounts
<1>. QED BY <1>2, <1>3, <1>4, TypeParts

\* How a step touches lines.
LEMMA FlowCases ==
  [Next]_vars =>
    \/ UNCHANGED flow
    \/ StartChild
    \/ UNCHANGED readers /\ \E next \in {"check", "drain", "finish"} : TakeLine(next)
    \/ Emit
    \/ \E p \in Procs : Reader(p)
<1>. USE DEF flow, MainUnchanged
<1>1. StartStopped \/ ConsumeEmpty \/ ConsumeStopped \/ Check \/ JoinReader \/ FlushRaises
        \/ AfterLoop \/ StopChild \/ Finish => UNCHANGED flow
  BY DEF StartStopped, ConsumeEmpty, ConsumeStopped, Check, JoinReader, FlushRaises, AfterLoop,
         StopChild, Finish, counters
<1>2. ChildExits \/ Signal => UNCHANGED flow BY DEF ChildExits, Signal, counters
<1>3. UNCHANGED vars => UNCHANGED flow BY DEF vars, counters
<1>4. ConsumeLine \/ Drain \/ FinalDrain =>
        \/ UNCHANGED flow
        \/ UNCHANGED readers /\ \E next \in {"check", "drain", "finish"} : TakeLine(next)
  BY DEF ConsumeLine, Drain, FinalDrain, counters
<1>. QED BY <1>1, <1>2, <1>3, <1>4 DEF Next, Main

LEMMA NextTypeControl == TypeControl /\ MainInBounds /\ [Next]_vars => TypeControl'
<1>. SUFFICES ASSUME TypeControl, MainInBounds, [Next]_vars PROVE TypeControl' OBVIOUS
<1>. USE DEF TypeControl
<1>1. CASE Emit \/ ChildExits \/ Signal BY <1>1 DEF Emit, ChildExits, Signal
<1>2. CASE \E p \in Procs : Reader(p)
  BY <1>2 DEF Reader, ReaderTake, ReaderEof, ReaderTest, ReaderPut, ReaderUnchanged
<1>3. CASE StartChild \/ StartStopped \/ ConsumeEmpty \/ ConsumeStopped
  BY <1>3 DEF StartChild, StartStopped, ConsumeEmpty, ConsumeStopped, Exit
<1>4. CASE ConsumeLine \/ Drain \/ FinalDrain
  BY <1>4 DEF ConsumeLine, Drain, FinalDrain, TakeLine, Exit
<1>5. CASE Check \/ JoinReader \/ FlushRaises \/ StopChild \/ Finish
  BY <1>5 DEF Check, JoinReader, FlushRaises, StopChild, Finish, Exit
<1>6. CASE AfterLoop
  <2>1. restarts \in 0..MaxRestarts BY <1>6, Bounds DEF AfterLoop, MainInBounds
  <2>2. restarts' \in 0..(MaxRestarts + 1) BY <1>6, <2>1, Bounds DEF AfterLoop
  <2>3. /\ pc' \in {"shutdown", "exited", "start"} /\ (rc' = rc \/ rc' = "1")
        /\ (stop' = stop \/ stop' = TRUE)
    BY <1>6 DEF AfterLoop, Exit
  <2>. QED BY <1>6, <2>2, <2>3 DEF AfterLoop
<1>7. CASE UNCHANGED vars BY <1>7 DEF vars
<1>. QED BY <1>1, <1>2, <1>3, <1>4, <1>5, <1>6, <1>7 DEF Next, Main

LEMMA NextTypeCounts == TypeCounts /\ [Next]_vars => TypeCounts'
<1>. SUFFICES ASSUME TypeCounts, [Next]_vars PROVE TypeCounts' OBVIOUS
<1>. USE DEF TypeCounts, counters, readers, MainUnchanged
<1>1. CASE Emit \/ ChildExits \/ Signal BY <1>1 DEF Emit, ChildExits, Signal
<1>2. ASSUME NEW p \in Procs, Reader(p) PROVE TypeCounts'
  <2>1. (dropped' = dropped \/ dropped' = dropped + 1)
          /\ (discarded' = discarded \/ discarded' = discarded + 1)
    BY <1>2 DEF Reader, ReaderTake, ReaderEof, ReaderTest, ReaderPut
  <2>2. UNCHANGED <<counters, stats>>
    BY <1>2 DEF Reader, ReaderTake, ReaderEof, ReaderTest, ReaderPut, ReaderUnchanged
  <2>. QED BY <2>1, <2>2
<1>3. CASE StartChild \/ StartStopped \/ ConsumeEmpty \/ ConsumeStopped
  BY <1>3 DEF StartChild, StartStopped, ConsumeEmpty, ConsumeStopped
<1>4. CASE ConsumeLine \/ Drain \/ FinalDrain
  <2>1. UNCHANGED <<stats, dropped, discarded>> BY <1>4 DEF ConsumeLine, Drain, FinalDrain
  <2>2. \/ UNCHANGED counters
        \/ /\ framesSeen' = framesSeen + 1
           /\ recordsWritten' = recordsWritten \/ recordsWritten' = recordsWritten + 1
           /\ unflushed' = unflushed \/ unflushed' = unflushed + 1
           /\ rejects' = rejects \/ rejects' = rejects + 1
    BY <1>4 DEF ConsumeLine, Drain, FinalDrain, TakeLine
  <2>. QED BY <2>1, <2>2
<1>5. Snapshot \in [frames : Nat, records : Nat, rejects : Nat, dropped : Nat]
  BY DEF Snapshot
<1>6. CASE Check \/ JoinReader \/ FlushRaises \/ StopChild \/ Finish \/ AfterLoop
  BY <1>5, <1>6 DEF Check, JoinReader, FlushRaises, StopChild, Finish, AfterLoop
<1>7. CASE UNCHANGED vars BY <1>7 DEF vars
<1>. QED BY <1>1, <1>2, <1>3, <1>4, <1>6, <1>7 DEF Next, Main

\* The first line of a queue or a pipe.
LEMMA Shifted ==
  ASSUME NEW S, NEW s \in Seq(S), s # <<>>
  PROVE  /\ Head(s) = s[1] /\ s[1] \in S /\ Tail(s) \in Seq(S) /\ Len(Tail(s)) = Len(s) - 1
         /\ Len(s) \in Nat \ {0} /\ 1 \in 1..Len(s)
         /\ \A i \in 1..Len(Tail(s)) : i + 1 \in 1..Len(s) /\ Tail(s)[i] = s[i + 1]
<1>1. Len(s) \in Nat \ {0} BY EmptySeq
<1>. QED BY <1>1, HeadTailProperties, ElementOfSeq

LEMMA NextTypeFlow == TypeOK /\ Order /\ MainInBounds /\ [Next]_vars => TypeFlow'
<1>. SUFFICES ASSUME TypeOK, Order, MainInBounds, [Next]_vars PROVE TypeFlow' OBVIOUS
<1>. TypeFlow /\ TypeControl BY TypeParts
<1>. USE DEF TypeFlow
<1>1. CASE UNCHANGED flow BY <1>1 DEF flow, readers
<1>2. CASE StartChild BY <1>2 DEF StartChild
<1>3. CASE UNCHANGED readers /\ \E next \in {"check", "drain", "finish"} : TakeLine(next)
  <2>1. /\ queue # <<>> /\ queue' = Tail(queue)
        /\ seen' = [seen EXCEPT ![Head(queue)[1]] = Head(queue)[2]]
    BY <1>3 DEF TakeLine
  <2>2. Head(queue) \in Procs \X Lines /\ queue' \in Seq(Procs \X Lines)
        /\ Len(queue') = Len(queue) - 1 /\ Len(queue) \in Nat
    BY <2>1, Shifted
  <2>3. seen' \in [Procs -> 0..MaxLines] BY <2>1, <2>2 DEF Lines
  <2>4. Len(queue') <= QueueSize BY <2>2, Bounds
  <2>. QED BY <1>3, <2>2, <2>3, <2>4 DEF readers
<1>4. CASE Emit
  <2>1. Cur \in Procs BY <1>4, Bounds DEF Emit, MainInBounds, TypeControl, Cur
  <2>2. /\ emitted[Cur] < MaxLines /\ Len(pipe[Cur]) < PipeSize
        /\ emitted' = [emitted EXCEPT ![Cur] = emitted[Cur] + 1]
        /\ pipe' = [pipe EXCEPT ![Cur] = Append(pipe[Cur], emitted'[Cur])]
    BY <1>4 DEF Emit
  <2>3. emitted' \in [Procs -> 0..MaxLines] /\ emitted'[Cur] \in Lines
    <3>1. emitted[Cur] + 1 \in 1..MaxLines BY <2>1, <2>2, FlowTyped, Bounds
    <3>. QED BY <2>1, <2>2, <3>1 DEF Lines
  <2>4. /\ Append(pipe[Cur], emitted'[Cur]) \in Seq(Lines)
        /\ Len(Append(pipe[Cur], emitted'[Cur])) = Len(pipe[Cur]) + 1
        /\ Len(pipe[Cur]) \in Nat
    BY <2>1, <2>3, AppendProperties
  <2>5. pipe' \in [Procs -> Seq(Lines)] /\ \A p \in Procs : Len(pipe'[p]) <= PipeSize
    <3>1. Len(pipe[Cur]) + 1 <= PipeSize BY <2>2, <2>4, Bounds
    <3>. QED BY <2>1, <2>2, <2>4, <3>1
  <2>. QED BY <1>4, <2>3, <2>5 DEF Emit
<1>5. ASSUME NEW p \in Procs, Reader(p) PROVE TypeFlow'
  <2>. USE DEF ReaderUnchanged
  <2>1. CASE ReaderTake(p)
    <3>1. pipe[p] \in Seq(Lines) /\ pipe[p] # <<>> BY <2>1 DEF ReaderTake
    <3>2. Head(pipe[p]) \in Lines /\ Tail(pipe[p]) \in Seq(Lines)
          /\ Len(Tail(pipe[p])) = Len(pipe[p]) - 1 /\ Len(pipe[p]) \in Nat
      BY <3>1, Shifted
    <3>3. pipe' \in [Procs -> Seq(Lines)] /\ \A q \in Procs : Len(pipe'[q]) <= PipeSize
      BY <2>1, <3>2, Bounds DEF ReaderTake
    <3>4. hand' \in [Procs -> 0..MaxLines] BY <2>1, <3>2 DEF ReaderTake, Lines
    <3>. QED BY <2>1, <3>3, <3>4 DEF ReaderTake
  <2>2. CASE ReaderEof(p) BY <2>2 DEF ReaderEof
  <2>3. CASE ReaderTest(p)
    <3>0. hand' = hand \/ hand' = [hand EXCEPT ![p] = 0] BY <2>3 DEF ReaderTest
    <3>1. hand' \in [Procs -> 0..MaxLines]
      <4>1. 0 \in 0..MaxLines /\ hand \in [Procs -> 0..MaxLines] BY Bounds
      <4>2. [hand EXCEPT ![p] = 0] \in [Procs -> 0..MaxLines] BY <4>1
      <4>. QED BY <3>0, <4>1, <4>2
    <3>2. reader' \in [Procs -> {"none", "reading", "holding", "cleared", "ended"}]
      BY <2>3 DEF ReaderTest
    <3>. QED BY <2>3, <3>1, <3>2 DEF ReaderTest
  <2>4. CASE ReaderPut(p) /\ Len(queue) < QueueSize
    <3>1. hand[p] \in Lines
      <4>1. hand[p] \in 0..MaxLines BY DEF TypeFlow
      <4>2. Holding(p) BY <2>4 DEF ReaderPut, Holding
      <4>3. seen[p] < hand[p] BY <4>2 DEF Order, HandIsLast
      <4>4. seen[p] \in Nat BY FlowTyped
      <4>. QED BY <4>1, <4>3, <4>4, Bounds DEF Lines
    <3>2. queue' = Append(queue, <<p, hand[p]>>) BY <2>4 DEF ReaderPut
    <3>3. queue' \in Seq(Procs \X Lines) /\ Len(queue') = Len(queue) + 1 /\ Len(queue) \in Nat
      BY <3>1, <3>2, AppendProperties
    <3>4. Len(queue') <= QueueSize BY <2>4, <3>3, Bounds
    <3>5. hand' \in [Procs -> 0..MaxLines] BY <2>4, Bounds DEF ReaderPut
    <3>. QED BY <2>4, <3>3, <3>4, <3>5 DEF ReaderPut
  <2>5. CASE ReaderPut(p) /\ ~(Len(queue) < QueueSize)
    <3>1. hand' \in [Procs -> 0..MaxLines] BY <2>5, Bounds DEF ReaderPut
    <3>. QED BY <2>5, <3>1 DEF ReaderPut
  <2>. QED BY <1>5, <2>1, <2>2, <2>3, <2>4, <2>5 DEF Reader
<1>. QED BY <1>1, <1>2, <1>3, <1>4, <1>5, FlowCases

-----------------------------------------------------------------------------
(* A child's lines stay in order.                                          *)

LEMMA FirstOfQueue ==
  ASSUME TypeOK, queue # <<>>, queue' = Tail(queue),
         seen' = [seen EXCEPT ![Head(queue)[1]] = Head(queue)[2]]
  PROVE  /\ Head(queue) = queue[1] /\ 1 \in 1..Len(queue)
         /\ queue[1][1] \in Procs /\ queue[1][2] \in Nat /\ queue[1] = <<queue[1][1], queue[1][2]>>
         /\ Len(queue') = Len(queue) - 1 /\ Len(queue) \in Nat
         /\ \A i \in 1..Len(queue') : i + 1 \in 1..Len(queue) /\ queue'[i] = queue[i + 1]
         /\ \A p \in Procs : seen'[p] = IF p = queue[1][1] THEN queue[1][2] ELSE seen[p]
<1>1. queue \in Seq(Procs \X Lines) BY DEF TypeOK
<1>2. /\ Head(queue) = queue[1] /\ 1 \in 1..Len(queue) /\ Len(queue) \in Nat
      /\ Len(queue') = Len(queue) - 1
      /\ \A i \in 1..Len(queue') : i + 1 \in 1..Len(queue) /\ queue'[i] = queue[i + 1]
  BY <1>1, Shifted
<1>3. queue[1] = <<queue[1][1], queue[1][2]>> /\ queue[1][1] \in Procs /\ queue[1][2] \in Lines
  BY <1>2, QueueElements
<1>4. seen \in [Procs -> 0..MaxLines] BY DEF TypeOK
<1>5. \A p \in Procs : seen'[p] = IF p = queue[1][1] THEN queue[1][2] ELSE seen[p]
  BY <1>2, <1>3, <1>4
<1>. QED BY <1>2, <1>3, <1>5, Bounds

LEMMA TakeKeepsOrder ==
  ASSUME TypeOK, Order, UNCHANGED readers, NEW next, TakeLine(next)
  PROVE  Order'
<1>1. /\ queue # <<>> /\ queue' = Tail(queue)
      /\ seen' = [seen EXCEPT ![Head(queue)[1]] = Head(queue)[2]]
  BY DEF TakeLine
<1>2. \A p \in Procs : LastRead(p)' = LastRead(p) /\ (Holding(p)' <=> Holding(p)) /\ hand'[p] = hand[p]
  BY DEF readers, LastRead, Holding
<1>3. PipeIsNewest' BY DEF readers, Order, PipeIsNewest, LastRead
<1>. DEFINE q == queue[1][1]
<1>4. /\ q \in Procs /\ seen[q] < queue[1][2] /\ queue[1][2] <= LastRead(q)
      /\ Holding(q) => queue[1][2] < hand[q]
      /\ \A i \in 1..Len(queue) : i > 1 /\ queue[i][1] = q => queue[1][2] < queue[i][2]
  BY <1>1, FirstOfQueue DEF Order, QueueOrdered
<1>5. \A p \in Procs : seen'[p] = IF p = q THEN queue[1][2] ELSE seen[p]
  BY <1>1, FirstOfQueue
<1>6. HandIsLast'
  BY <1>2, <1>4, <1>5 DEF Order, HandIsLast
<1>7. QueueOrdered'
  <2>1. ASSUME NEW p \in Procs, NEW i \in 1..Len(queue'), queue'[i][1] = p
        PROVE  /\ seen'[p] < queue'[i][2] /\ queue'[i][2] <= LastRead(p)'
               /\ Holding(p)' => queue'[i][2] < hand'[p]
    <3>1. i + 1 \in 1..Len(queue) /\ queue'[i] = queue[i + 1] /\ i + 1 > 1
      BY <1>1, FirstOfQueue
    <3>2. /\ seen[p] < queue[i + 1][2] /\ queue[i + 1][2] <= LastRead(p)
          /\ Holding(p) => queue[i + 1][2] < hand[p]
      BY <2>1, <3>1 DEF Order, QueueOrdered
    <3>3. seen'[p] < queue[i + 1][2] BY <1>4, <1>5, <2>1, <3>1, <3>2
    <3>. QED BY <1>2, <3>1, <3>2, <3>3
  <2>2. ASSUME NEW i \in 1..Len(queue'), NEW j \in 1..Len(queue'),
               i < j, queue'[i][1] = queue'[j][1]
        PROVE  queue'[i][2] < queue'[j][2]
    <3>1. /\ i + 1 \in 1..Len(queue) /\ j + 1 \in 1..Len(queue) /\ i + 1 < j + 1
          /\ queue'[i] = queue[i + 1] /\ queue'[j] = queue[j + 1]
      BY <1>1, <2>2, FirstOfQueue
    <3>. QED BY <2>2, <3>1 DEF Order, QueueOrdered
  <2>. QED BY <2>1, <2>2 DEF QueueOrdered
<1>. QED BY <1>3, <1>6, <1>7 DEF Order

LEMMA Emission ==
  ASSUME TypeOK, PipeIsNewest, MainInBounds, Emit
  PROVE  /\ Cur \in Procs /\ emitted[Cur] + 1 \in Lines
         /\ \A p \in Procs : emitted'[p] = IF p = Cur THEN emitted[Cur] + 1 ELSE emitted[p]
         /\ \A p \in Procs : LastRead(p)' = LastRead(p)
         /\ \A p \in Procs : \A i \in 1..Len(pipe'[p]) :
              \/ i \in 1..Len(pipe[p]) /\ pipe'[p][i] = pipe[p][i]
              \/ p = Cur /\ pipe'[p][i] = emitted[Cur] + 1 /\ i = Len(pipe[p]) + 1
         /\ UNCHANGED <<reader, hand, queue, seen, dropped, discarded, framesSeen>>
<1>1. Cur \in Procs
  BY Bounds DEF Emit, MainInBounds, TypeOK, Cur
<1>2. /\ emitted[Cur] < MaxLines /\ emitted' = [emitted EXCEPT ![Cur] = emitted[Cur] + 1]
      /\ pipe' = [pipe EXCEPT ![Cur] = Append(pipe[Cur], emitted'[Cur])]
      /\ UNCHANGED <<reader, hand, queue, seen, dropped, discarded, framesSeen>>
  BY DEF Emit, counters
<1>3. emitted \in [Procs -> 0..MaxLines] /\ pipe \in [Procs -> Seq(Lines)] BY DEF TypeOK
<1>4. emitted[Cur] + 1 \in Lines
  <2>1. emitted[Cur] \in Nat BY <1>1, FlowTyped
  <2>. QED BY <1>2, <2>1, Bounds DEF Lines
<1>5. \A p \in Procs : emitted'[p] = IF p = Cur THEN emitted[Cur] + 1 ELSE emitted[p]
  BY <1>1, <1>2, <1>3
<1>6. \A p \in Procs : pipe'[p] = IF p = Cur THEN Append(pipe[Cur], emitted[Cur] + 1) ELSE pipe[p]
  BY <1>1, <1>2, <1>3, <1>5
<1>7. /\ pipe[Cur] \in Seq(Lines) /\ Len(pipe[Cur]) \in Nat
      /\ Len(Append(pipe[Cur], emitted[Cur] + 1)) = Len(pipe[Cur]) + 1
      /\ \A i \in 1..Len(pipe[Cur]) : Append(pipe[Cur], emitted[Cur] + 1)[i] = pipe[Cur][i]
      /\ Append(pipe[Cur], emitted[Cur] + 1)[Len(pipe[Cur]) + 1] = emitted[Cur] + 1
  BY <1>1, <1>4, FlowTyped, AppendProperties
<1>8. ASSUME NEW p \in Procs PROVE LastRead(p)' = LastRead(p)
  <2>1. emitted[p] \in Nat /\ Len(pipe[p]) \in Nat BY FlowTyped
  <2>2. emitted'[p] - Len(pipe'[p]) = emitted[p] - Len(pipe[p])
    <3>1. CASE p # Cur BY <1>5, <1>6, <3>1
    <3>2. CASE p = Cur
      <4>1. emitted'[p] = emitted[p] + 1 /\ Len(pipe'[p]) = Len(pipe[p]) + 1
        BY <1>5, <1>6, <1>7, <3>2
      <4>. QED BY <2>1, <4>1
    <3>. QED BY <3>1, <3>2
  <2>. QED BY <2>2 DEF LastRead
<1>9. ASSUME NEW p \in Procs, NEW i \in 1..Len(pipe'[p])
      PROVE  \/ i \in 1..Len(pipe[p]) /\ pipe'[p][i] = pipe[p][i]
             \/ p = Cur /\ pipe'[p][i] = emitted[Cur] + 1 /\ i = Len(pipe[p]) + 1
  <2>1. CASE p # Cur BY <1>6, <2>1
  <2>2. CASE p = Cur /\ i \in 1..Len(pipe[p]) BY <1>6, <1>7, <2>2
  <2>3. CASE p = Cur /\ i \notin 1..Len(pipe[p])
    <3>1. pipe'[p] = Append(pipe[Cur], emitted[Cur] + 1) BY <1>6, <2>3
    <3>2. Len(pipe'[p]) = Len(pipe[Cur]) + 1 BY <1>7, <3>1
    <3>3. i = Len(pipe[Cur]) + 1 BY <1>7, <2>3, <3>2
    <3>. QED BY <1>7, <2>3, <3>1, <3>3
  <2>. QED BY <2>1, <2>2, <2>3
<1>. QED BY <1>1, <1>2, <1>4, <1>5, <1>8, <1>9

LEMMA EmitKeepsOrder ==
  ASSUME TypeOK, Order, MainInBounds, Emit
  PROVE  Order'
<1>1. PipeIsNewest' 
  <2>1. ASSUME NEW p \in Procs, NEW i \in 1..Len(pipe'[p])
        PROVE  pipe'[p][i] = LastRead(p) + i
    <3>1. emitted[p] = LastRead(p) + Len(pipe[p]) /\ LastRead(p) \in Nat /\ Len(pipe[p]) \in Nat
      BY PipeLengths DEF Order
    <3>2. CASE i \in 1..Len(pipe[p]) /\ pipe'[p][i] = pipe[p][i]
      BY <3>2 DEF Order, PipeIsNewest
    <3>3. CASE p = Cur /\ pipe'[p][i] = emitted[Cur] + 1 /\ i = Len(pipe[p]) + 1
      BY <3>1, <3>3
    <3>. QED BY <3>2, <3>3, Emission DEF Order
  <2>2. \A p \in Procs : LastRead(p)' = LastRead(p) /\ LastRead(p) \in Nat
    BY Emission, PipeLengths DEF Order
  <2>. QED BY <2>1, <2>2 DEF PipeIsNewest
<1>2. \A p \in Procs : LastRead(p)' = LastRead(p)
        /\ (Holding(p)' <=> Holding(p)) /\ hand'[p] = hand[p] /\ seen'[p] = seen[p]
  BY Emission DEF Order, Holding
<1>3. queue' = queue BY Emission DEF Order
<1>4. HandIsLast' BY <1>2 DEF Order, HandIsLast
<1>5. \A i \in 1..Len(queue) : queue[i][1] \in Procs BY QueueElements
<1>6. QueueOrdered' BY <1>2, <1>3, <1>5 DEF Order, QueueOrdered
<1>. QED BY <1>1, <1>4, <1>6 DEF Order

\* What a reader does to its own child's lines; the others' stay as they are.
LEMMA OthersKept ==
  ASSUME TypeOK, NEW p \in Procs, Reader(p)
  PROVE  /\ UNCHANGED <<emitted, seen, framesSeen>>
         /\ \A q \in Procs \ {p} :
              /\ pipe'[q] = pipe[q] /\ hand'[q] = hand[q] /\ (Holding(q)' <=> Holding(q))
              /\ LastRead(q)' = LastRead(q)
<1>1. UNCHANGED <<emitted, seen, framesSeen>>
  BY DEF Reader, ReaderTake, ReaderEof, ReaderTest, ReaderPut, ReaderUnchanged, counters
<1>2. /\ pipe \in [Procs -> Seq(Lines)] /\ hand \in [Procs -> 0..MaxLines]
      /\ reader \in [Procs -> {"none", "reading", "holding", "cleared", "ended"}]
  BY DEF TypeOK
<1>3. ASSUME NEW q \in Procs \ {p}
      PROVE  pipe'[q] = pipe[q] /\ hand'[q] = hand[q] /\ reader'[q] = reader[q]
  <2>1. CASE ReaderTake(p) BY <1>2, <2>1 DEF ReaderTake
  <2>2. CASE ReaderEof(p) BY <1>2, <2>2 DEF ReaderEof
  <2>3. CASE ReaderTest(p) BY <1>2, <2>3 DEF ReaderTest
  <2>4. CASE ReaderPut(p) BY <1>2, <2>4 DEF ReaderPut
  <2>. QED BY <2>1, <2>2, <2>3, <2>4 DEF Reader
<1>. QED BY <1>1, <1>3 DEF Holding, LastRead

\* Taking a line moves the oldest one of the pipe into the hand.
LEMMA ReadLine ==
  ASSUME TypeOK, PipeIsNewest, HandIsLast, NEW p \in Procs, ReaderTake(p)
  PROVE  /\ ~Holding(p) /\ Holding(p)'
         /\ LastRead(p)' = LastRead(p) + 1 /\ hand'[p] = LastRead(p) + 1
         /\ LastRead(p) \in Nat /\ Len(pipe[p]) \in Nat \ {0}
         /\ Len(pipe'[p]) = Len(pipe[p]) - 1
         /\ \A i \in 1..Len(pipe'[p]) : pipe'[p][i] = LastRead(p) + 1 + i
         /\ UNCHANGED <<queue, dropped, discarded, emitted, seen>>
<1>1. /\ pipe \in [Procs -> Seq(Lines)] /\ hand \in [Procs -> 0..MaxLines]
      /\ reader \in [Procs -> {"none", "reading", "holding", "cleared", "ended"}]
  BY DEF TypeOK
<1>2. /\ reader[p] = "reading" /\ pipe[p] # <<>>
      /\ hand' = [hand EXCEPT ![p] = Head(pipe[p])]
      /\ pipe' = [pipe EXCEPT ![p] = Tail(pipe[p])]
      /\ reader' = [reader EXCEPT ![p] = "holding"]
      /\ UNCHANGED <<queue, dropped, discarded, emitted, seen>>
  BY DEF ReaderTake, ReaderUnchanged
<1>3. ~Holding(p) /\ Holding(p)' BY <1>1, <1>2 DEF Holding
<1>4. pipe'[p] = Tail(pipe[p]) /\ hand'[p] = Head(pipe[p]) BY <1>1, <1>2
<1>5. pipe[p] \in Seq(Lines) BY <1>1
<1>6. /\ Head(pipe[p]) = pipe[p][1] /\ Len(Tail(pipe[p])) = Len(pipe[p]) - 1
      /\ Len(pipe[p]) \in Nat \ {0} /\ 1 \in 1..Len(pipe[p])
      /\ \A i \in 1..Len(Tail(pipe[p])) :
           i + 1 \in 1..Len(pipe[p]) /\ Tail(pipe[p])[i] = pipe[p][i + 1]
  BY <1>2, <1>5, Shifted
<1>7. /\ LastRead(p) \in Nat /\ \A i \in 1..Len(pipe[p]) : pipe[p][i] = LastRead(p) + i
  BY DEF PipeIsNewest
<1>8. hand'[p] = LastRead(p) + 1 BY <1>4, <1>6, <1>7
<1>9. LastRead(p)' = LastRead(p) + 1
  <2>1. emitted[p] \in Nat BY FlowTyped
  <2>2. emitted'[p] = emitted[p] /\ Len(pipe'[p]) = Len(pipe[p]) - 1 BY <1>2, <1>4, <1>6
  <2>3. Len(pipe[p]) \in Nat BY <1>6
  <2>. QED BY <2>1, <2>2, <2>3 DEF LastRead
<1>10. ASSUME NEW i \in 1..Len(pipe'[p]) PROVE pipe'[p][i] = LastRead(p) + 1 + i
  <2>1. i + 1 \in 1..Len(pipe[p]) /\ pipe'[p][i] = pipe[p][i + 1] BY <1>4, <1>6
  <2>2. pipe'[p][i] = LastRead(p) + (i + 1) BY <1>7, <2>1
  <2>. QED BY <1>7, <2>2
<1>. QED BY <1>2, <1>3, <1>4, <1>6, <1>7, <1>8, <1>9, <1>10

\* The other steps of a reader leave its pipe alone.
LEMMA HandChange ==
  ASSUME TypeOK, NEW p \in Procs, ReaderEof(p) \/ ReaderTest(p) \/ ReaderPut(p)
  PROVE  /\ UNCHANGED <<pipe, emitted, seen>> /\ \A q \in Procs : LastRead(q)' = LastRead(q)
         /\ \/ /\ (Holding(p)' <=> Holding(p)) /\ hand'[p] = hand[p]
               /\ UNCHANGED <<queue, dropped, discarded>>
            \/ /\ Holding(p) /\ ~Holding(p)' /\ queue' = queue
               /\ dropped' + discarded' = dropped + discarded + 1
            \/ /\ Holding(p) /\ ~Holding(p)' /\ queue' = Append(queue, <<p, hand[p]>>)
               /\ UNCHANGED <<dropped, discarded>>
<1>1. reader \in [Procs -> {"none", "reading", "holding", "cleared", "ended"}]
      /\ dropped \in Nat /\ discarded \in Nat
  BY DEF TypeOK
<1>2. UNCHANGED <<pipe, emitted, seen>>
  BY DEF ReaderEof, ReaderTest, ReaderPut, ReaderUnchanged
<1>3. CASE ReaderEof(p) BY <1>1, <1>2, <1>3 DEF ReaderEof, Holding, LastRead
<1>4. CASE ReaderTest(p) /\ stop BY <1>1, <1>2, <1>4 DEF ReaderTest, Holding, LastRead
<1>5. CASE ReaderTest(p) /\ ~stop BY <1>1, <1>2, <1>5 DEF ReaderTest, Holding, LastRead
<1>6. CASE ReaderPut(p) /\ Len(queue) < QueueSize
  BY <1>1, <1>2, <1>6 DEF ReaderPut, Holding, LastRead
<1>7. CASE ReaderPut(p) /\ ~(Len(queue) < QueueSize)
  BY <1>1, <1>2, <1>7 DEF ReaderPut, Holding, LastRead
<1>. QED BY <1>3, <1>4, <1>5, <1>6, <1>7

LEMMA ReaderKeepsOrder ==
  ASSUME TypeOK, Order, NEW p \in Procs, Reader(p)
  PROVE  Order'
<1>. USE DEF Order
<1>1. /\ UNCHANGED <<emitted, seen>>
      /\ \A q \in Procs \ {p} :
           /\ pipe'[q] = pipe[q] /\ hand'[q] = hand[q] /\ (Holding(q)' <=> Holding(q))
           /\ LastRead(q)' = LastRead(q)
  BY OthersKept
<1>2. \A q \in Procs : LastRead(q) \in Nat /\ seen[q] \in Nat BY PipeLengths, FlowTyped
<1>3. CASE ReaderTake(p)
  <2>1. /\ ~Holding(p) /\ Holding(p)'
        /\ LastRead(p)' = LastRead(p) + 1 /\ hand'[p] = LastRead(p) + 1
        /\ \A i \in 1..Len(pipe'[p]) : pipe'[p][i] = LastRead(p) + 1 + i
        /\ UNCHANGED <<queue, seen>>
    BY <1>3, ReadLine
  <2>2. PipeIsNewest' 
    <3>1. ASSUME NEW q \in Procs, NEW i \in 1..Len(pipe'[q])
          PROVE  LastRead(q)' \in Nat /\ pipe'[q][i] = LastRead(q)' + i
      <4>1. CASE q = p BY <1>2, <2>1, <4>1
      <4>2. CASE q # p BY <1>1, <1>2, <4>2 DEF PipeIsNewest
      <4>. QED BY <4>1, <4>2
    <3>2. ASSUME NEW q \in Procs PROVE LastRead(q)' \in Nat BY <1>1, <1>2, <2>1
    <3>. QED BY <3>1, <3>2 DEF PipeIsNewest
  <2>3. HandIsLast'
    <3>1. seen[p] <= LastRead(p) BY <2>1 DEF HandIsLast
    <3>2. ASSUME NEW q \in Procs
          PROVE  IF Holding(q)' THEN hand'[q] = LastRead(q)' /\ seen'[q] < hand'[q]
                                ELSE seen'[q] <= LastRead(q)'
      <4>1. CASE q = p BY <1>2, <2>1, <3>1, <4>1
      <4>2. CASE q # p BY <1>1, <4>2 DEF HandIsLast
      <4>. QED BY <4>1, <4>2
    <3>. QED BY <3>2 DEF HandIsLast
  <2>4. ASSUME NEW q \in Procs, NEW i \in 1..Len(queue), queue[i][1] = q
        PROVE  /\ seen'[q] < queue[i][2] /\ queue[i][2] <= LastRead(q)'
               /\ Holding(q)' => queue[i][2] < hand'[q]
    <3>1. /\ seen[q] < queue[i][2] /\ queue[i][2] <= LastRead(q) /\ queue[i][2] \in Nat
          /\ Holding(q) => queue[i][2] < hand[q]
      BY <2>4, QueueElements, Bounds DEF QueueOrdered
    <3>2. CASE q = p BY <1>2, <2>1, <3>1, <3>2
    <3>3. CASE q # p BY <1>1, <3>1, <3>3
    <3>. QED BY <3>2, <3>3
  <2>5. QueueOrdered' BY <2>1, <2>4 DEF QueueOrdered
  <2>. QED BY <2>2, <2>3, <2>5
<1>4. CASE ReaderEof(p) \/ ReaderTest(p) \/ ReaderPut(p)
  <2>1. UNCHANGED pipe /\ \A q \in Procs : LastRead(q)' = LastRead(q) BY <1>4, HandChange
  <2>2. PipeIsNewest' BY <2>1 DEF PipeIsNewest
  <2>3. \/ /\ (Holding(p)' <=> Holding(p)) /\ hand'[p] = hand[p] /\ queue' = queue
        \/ Holding(p) /\ ~Holding(p)' /\ queue' = queue
        \/ Holding(p) /\ ~Holding(p)' /\ queue' = Append(queue, <<p, hand[p]>>)
    BY <1>4, HandChange
  <2>4. ASSUME NEW q \in Procs
        PROVE  \/ (Holding(q)' <=> Holding(q)) /\ hand'[q] = hand[q]
               \/ q = p /\ Holding(q) /\ ~Holding(q)'
    BY <1>1, <2>3
  <2>5. HandIsLast'
    <3>1. ASSUME NEW q \in Procs
          PROVE  IF Holding(q)' THEN hand'[q] = LastRead(q)' /\ seen'[q] < hand'[q]
                                ELSE seen'[q] <= LastRead(q)'
      BY <1>1, <1>2, <2>1, <2>4 DEF HandIsLast
    <3>. QED BY <3>1 DEF HandIsLast
  <2>6. ASSUME NEW q \in Procs, NEW i \in 1..Len(queue), queue[i][1] = q
        PROVE  /\ seen'[q] < queue[i][2] /\ queue[i][2] <= LastRead(q)'
               /\ Holding(q)' => queue[i][2] < hand'[q]
    BY <1>1, <2>1, <2>4, <2>6 DEF QueueOrdered
  <2>7. ASSUME queue' = queue PROVE QueueOrdered'
    BY <2>6, <2>7 DEF QueueOrdered
  <2>8. ASSUME Holding(p), ~Holding(p)', queue' = Append(queue, <<p, hand[p]>>)
        PROVE  QueueOrdered'
    <3>1. /\ Len(queue') = Len(queue) + 1 /\ Len(queue) \in Nat
          /\ \A i \in 1..Len(queue) : queue'[i] = queue[i]
          /\ queue'[Len(queue) + 1] = <<p, hand[p]>>
      BY <2>8, FlowTyped, AppendProperties
    <3>2. hand[p] = LastRead(p) /\ seen[p] < hand[p] BY <2>8 DEF HandIsLast
    <3>3. ASSUME NEW i \in 1..Len(queue') PROVE i \in 1..Len(queue) \/ i = Len(queue) + 1
      BY <3>1
    <3>4. ASSUME NEW q \in Procs, NEW i \in 1..Len(queue'), queue'[i][1] = q
          PROVE  /\ seen'[q] < queue'[i][2] /\ queue'[i][2] <= LastRead(q)'
                 /\ Holding(q)' => queue'[i][2] < hand'[q]
      <4>1. CASE i \in 1..Len(queue) BY <2>6, <3>1, <3>4, <4>1
      <4>2. CASE i = Len(queue) + 1 BY <1>1, <1>2, <2>1, <2>8, <3>1, <3>2, <3>4, <4>2
      <4>. QED BY <3>3, <4>1, <4>2
    <3>5. ASSUME NEW i \in 1..Len(queue'), NEW j \in 1..Len(queue'),
                 i < j, queue'[i][1] = queue'[j][1]
          PROVE  queue'[i][2] < queue'[j][2]
      <4>1. CASE j \in 1..Len(queue) BY <3>1, <3>5, <4>1 DEF QueueOrdered
      <4>2. CASE j = Len(queue) + 1
        <5>1. i \in 1..Len(queue) /\ queue[i][1] = p /\ queue'[i] = queue[i] BY <3>1, <3>5, <4>2
        <5>2. queue[i][2] < hand[p] BY <2>8, <5>1 DEF QueueOrdered
        <5>. QED BY <3>1, <4>2, <5>1, <5>2
      <4>. QED BY <3>3, <4>1, <4>2
    <3>. QED BY <3>4, <3>5 DEF QueueOrdered
  <2>9. QueueOrdered' BY <2>3, <2>7, <2>8
  <2>. QED BY <2>2, <2>5, <2>9
<1>. QED BY <1>3, <1>4 DEF Reader

\* The reader of a new child starts with empty hands.
LEMMA StartedReader ==
  ASSUME TypeOK, NotStarted, StartChild, NEW p \in Procs
  PROVE  Holding(p)' <=> Holding(p)
<1>1. reader \in [Procs -> {"none", "reading", "holding", "cleared", "ended"}] BY DEF TypeOK
<1>2. p = Cur => reader[p] = "none" BY DEF NotStarted, StartChild
<1>3. reader' = reader \/ reader' = [reader EXCEPT ![Cur] = "reading"] BY DEF StartChild
<1>. QED BY <1>1, <1>2, <1>3 DEF Holding

LEMMA NextOrder == TypeOK /\ Order /\ NotStarted /\ MainInBounds /\ [Next]_vars => Order'
<1>. SUFFICES ASSUME TypeOK, Order, NotStarted, MainInBounds, [Next]_vars PROVE Order' OBVIOUS
<1>1. CASE UNCHANGED flow
  BY <1>1 DEF flow, readers, Order, PipeIsNewest, HandIsLast, QueueOrdered, LastRead, Holding
<1>2. CASE StartChild
  <2>1. UNCHANGED <<emitted, pipe, hand, queue, seen>> BY <1>2 DEF StartChild
  <2>2. \A p \in Procs : Holding(p)' <=> Holding(p) BY <1>2, StartedReader
  <2>. QED BY <2>1, <2>2 DEF Order, PipeIsNewest, HandIsLast, QueueOrdered, LastRead
<1>. QED BY <1>1, <1>2, FlowCases, TakeKeepsOrder, EmitKeepsOrder, ReaderKeepsOrder

-----------------------------------------------------------------------------
(* No line is lost uncounted.                                              *)

LEMMA NextMember == TypeOK' /\ PipeIsNewest' /\ HandIsLast' => OnTheWayIs'
BY OnTheWayMember, PTL

LEMMA SameWay ==
  ASSUME OnTheWayIs, OnTheWayIs',
         \A p \in Procs, n \in Lines : OnWay(p, n)' <=> OnWay(p, n)
  PROVE  OnTheWay' = OnTheWay
BY DEF OnTheWayIs

LEMMA ShorterWay ==
  ASSUME OnTheWayIs, OnTheWayIs', NEW q \in Procs, NEW m \in Lines, OnWay(q, m),
         \A p \in Procs, n \in Lines : OnWay(p, n)' <=> OnWay(p, n) /\ ~(p = q /\ n = m)
  PROVE  Cardinality(OnTheWay') = Cardinality(OnTheWay) - 1
<1>1. OnTheWay' = OnTheWay \ {<<q, m>>} BY DEF OnTheWayIs
<1>2. <<q, m>> \in OnTheWay /\ OnTheWay \in SUBSET (Procs \X Lines) BY DEF OnTheWayIs
<1>. QED BY <1>1, <1>2, LineRemoved

LEMMA LongerWay ==
  ASSUME OnTheWayIs, OnTheWayIs', NEW q \in Procs, NEW m \in Lines, ~OnWay(q, m),
         \A p \in Procs, n \in Lines : OnWay(p, n)' <=> OnWay(p, n) \/ (p = q /\ n = m)
  PROVE  Cardinality(OnTheWay') = Cardinality(OnTheWay) + 1
<1>1. OnTheWay' = OnTheWay \union {<<q, m>>} BY DEF OnTheWayIs
<1>2. <<q, m>> \notin OnTheWay /\ OnTheWay \in SUBSET (Procs \X Lines) BY DEF OnTheWayIs
<1>. QED BY <1>1, <1>2, LineAdded

\* The counts of both sides are numbers.
LEMMA WayCounts ==
  ASSUME TypeOK, OnTheWayIs
  PROVE  /\ Cardinality(OnTheWay) \in Nat /\ Cardinality(Emitted) \in Nat
         /\ dropped \in Nat /\ discarded \in Nat /\ framesSeen \in Nat
<1>1. OnTheWay \in SUBSET (Procs \X Lines) /\ Emitted \in SUBSET (Procs \X Lines)
  BY DEF OnTheWayIs, Emitted
<1>. QED BY <1>1, LinesFinite DEF TypeOK

LEMMA TakeConserves ==
  ASSUME TypeOK, Order, LinesConserved, OnTheWayIs, OnTheWayIs',
         UNCHANGED readers, NEW next, TakeLine(next)
  PROVE  LinesConserved'
<1>1. /\ queue # <<>> /\ queue' = Tail(queue) /\ framesSeen' = framesSeen + 1
      /\ seen' = [seen EXCEPT ![Head(queue)[1]] = Head(queue)[2]]
  BY DEF TakeLine
<1>2. /\ 1 \in 1..Len(queue) /\ queue[1][1] \in Procs /\ queue[1] = <<queue[1][1], queue[1][2]>>
      /\ Len(queue') = Len(queue) - 1 /\ Len(queue) \in Nat
      /\ \A i \in 1..Len(queue') : i + 1 \in 1..Len(queue) /\ queue'[i] = queue[i + 1]
  BY <1>1, FirstOfQueue
<1>3. PICK q \in Procs, m \in Lines : queue[1] = <<q, m>> BY <1>2, QueueElements
<1>4. /\ m <= LastRead(q) /\ (Holding(q) => m < hand[q])
      /\ \A i \in 1..Len(queue) : i > 1 /\ queue[i][1] = q => m < queue[i][2]
  BY <1>2, <1>3 DEF Order, QueueOrdered
<1>5. ASSUME NEW p \in Procs, NEW n \in Lines
      PROVE  Queued(p, n)' <=> \E i \in 1..Len(queue) : i > 1 /\ queue[i] = <<p, n>>
  <2>1. ASSUME Queued(p, n)' PROVE \E i \in 1..Len(queue) : i > 1 /\ queue[i] = <<p, n>>
    <3>1. PICK i \in 1..Len(queue') : queue'[i] = <<p, n>> BY <2>1 DEF Queued
    <3>2. i + 1 \in 1..Len(queue) /\ i + 1 > 1 /\ queue[i + 1] = <<p, n>> BY <1>2, <3>1
    <3>. QED BY <3>2
  <2>2. ASSUME NEW i \in 1..Len(queue), i > 1, queue[i] = <<p, n>> PROVE Queued(p, n)'
    <3>1. i - 1 \in 1..Len(queue') /\ (i - 1) + 1 = i BY <1>2, <2>2
    <3>2. queue'[i - 1] = <<p, n>> BY <1>2, <2>2, <3>1
    <3>. QED BY <3>1, <3>2 DEF Queued
  <2>. QED BY <2>1, <2>2
<1>6. ASSUME NEW p \in Procs, NEW n \in Lines
      PROVE  OnWay(p, n)' <=> OnWay(p, n) /\ ~(p = q /\ n = m)
  <2>1. (InHand(p, n)' <=> InHand(p, n)) /\ (InPipe(p, n)' <=> InPipe(p, n))
    BY DEF readers, InHand, InPipe, Holding, LastRead
  <2>2. Queued(p, n) <=> (\E i \in 1..Len(queue) : i > 1 /\ queue[i] = <<p, n>>) \/ (p = q /\ n = m)
    BY <1>2, <1>3 DEF Queued
  <2>3. ASSUME p = q, n = m PROVE ~InHand(p, n) /\ ~InPipe(p, n)
    <3>1. n \in Nat /\ LastRead(q) \in Nat /\ hand[q] \in Nat
      BY Bounds, PipeLengths, FlowTyped DEF Order
    <3>. QED BY <1>4, <2>3, <3>1 DEF InHand, InPipe
  <2>4. ~\E i \in 1..Len(queue) : i > 1 /\ queue[i] = <<q, m>>
    <3>1. m \in Nat BY Bounds
    <3>2. ASSUME NEW i \in 1..Len(queue), i > 1, queue[i] = <<q, m>> PROVE FALSE
      <4>1. queue[i][1] = q /\ queue[i][2] = m BY <3>2
      <4>2. m < queue[i][2] BY <1>4, <3>2, <4>1
      <4>. QED BY <3>1, <4>1, <4>2
    <3>. QED BY <3>2
  <2>. QED BY <1>5, <2>1, <2>2, <2>3, <2>4 DEF OnWay
<1>7. OnWay(q, m) BY <1>2, <1>3 DEF OnWay, Queued
<1>8. Cardinality(OnTheWay') = Cardinality(OnTheWay) - 1 BY <1>6, <1>7, ShorterWay
<1>9. UNCHANGED <<dropped, discarded>> /\ Emitted' = Emitted BY DEF readers, Emitted
<1>. QED BY <1>1, <1>8, <1>9, WayCounts DEF LinesConserved

LEMMA EmitConserves ==
  ASSUME TypeOK, Order, MainInBounds, LinesConserved, OnTheWayIs, OnTheWayIs', Emit
  PROVE  LinesConserved'
<1>. DEFINE m == emitted[Cur] + 1
<1>. USE DEF Order
<1>1. PICK q \in Procs : q = Cur BY Emission
<1>2. /\ m \in Lines /\ emitted[q] + 1 = m
      /\ \A p \in Procs : emitted'[p] = IF p = q THEN m ELSE emitted[p]
      /\ \A p \in Procs : LastRead(p)' = LastRead(p)
      /\ UNCHANGED <<reader, hand, queue, seen, dropped, discarded, framesSeen>>
  BY <1>1, Emission
<1>3. /\ \A p \in Procs : emitted[p] \in Nat /\ LastRead(p) \in Nat /\ LastRead(p) <= emitted[p]
      /\ \A n \in Lines : n \in Nat
  <2>1. ASSUME NEW p \in Procs
        PROVE  emitted[p] \in Nat /\ LastRead(p) \in Nat /\ LastRead(p) <= emitted[p]
    <3>1. LastRead(p) \in Nat /\ Len(pipe[p]) \in Nat /\ emitted[p] = LastRead(p) + Len(pipe[p])
      BY PipeLengths
    <3>. QED BY <3>1
  <2>. QED BY <2>1, Bounds
<1>4. ASSUME NEW p \in Procs, NEW n \in Lines
      PROVE  OnWay(p, n)' <=> OnWay(p, n) \/ (p = q /\ n = m)
  <2>1. (Queued(p, n)' <=> Queued(p, n)) /\ (InHand(p, n)' <=> InHand(p, n))
    BY <1>2 DEF Queued, InHand, Holding
  <2>2. InPipe(p, n)' <=> InPipe(p, n) \/ (p = q /\ n = m)
    <3>1. InPipe(p, n)' <=> LastRead(p) < n /\ n <= emitted'[p] BY <1>2 DEF InPipe
    <3>2. CASE p = q BY <1>2, <1>3, <3>1, <3>2 DEF InPipe
    <3>3. CASE p # q BY <1>2, <3>1, <3>3 DEF InPipe
    <3>. QED BY <3>2, <3>3
  <2>. QED BY <2>1, <2>2 DEF OnWay
<1>5. ~OnWay(q, m)
  <2>1. ~InPipe(q, m) BY <1>2, <1>3 DEF InPipe
  <2>2. ~InHand(q, m)
    <3>1. InHand(q, m) => m = LastRead(q) BY DEF InHand, HandIsLast
    <3>. QED BY <1>2, <1>3, <3>1
  <2>3. ~Queued(q, m)
    <3>1. ASSUME NEW i \in 1..Len(queue), queue[i] = <<q, m>> PROVE FALSE
      <4>1. queue[i][1] = q /\ queue[i][2] = m BY <3>1
      <4>2. m <= LastRead(q) BY <4>1 DEF QueueOrdered
      <4>. QED BY <1>2, <1>3, <4>2
    <3>. QED BY <3>1 DEF Queued
  <2>. QED BY <2>1, <2>2, <2>3 DEF OnWay
<1>6. Cardinality(OnTheWay') = Cardinality(OnTheWay) + 1 BY <1>2, <1>4, <1>5, LongerWay
<1>7. Cardinality(Emitted') = Cardinality(Emitted) + 1
  <2>1. Emitted' = Emitted \union {<<q, m>>}
    <3>1. ASSUME NEW p \in Procs, NEW n \in Lines
          PROVE  n <= emitted'[p] <=> n <= emitted[p] \/ (p = q /\ n = m)
      BY <1>2, <1>3
    <3>. QED BY <1>2, <3>1 DEF Emitted
  <2>2. <<q, m>> \notin Emitted BY <1>2, <1>3 DEF Emitted
  <2>3. Emitted \in SUBSET (Procs \X Lines) BY DEF Emitted
  <2>. QED BY <2>1, <2>2, <2>3, LineAdded
<1>. QED BY <1>2, <1>6, <1>7, WayCounts DEF LinesConserved

LEMMA ReaderConserves ==
  ASSUME TypeOK, Order, LinesConserved, OnTheWayIs, OnTheWayIs', NEW q \in Procs, Reader(q)
  PROVE  LinesConserved'
<1>. USE DEF Order
<1>1. /\ UNCHANGED <<emitted, seen, framesSeen>>
      /\ \A p \in Procs \ {q} :
           hand'[p] = hand[p] /\ (Holding(p)' <=> Holding(p)) /\ LastRead(p)' = LastRead(p)
  BY OthersKept
<1>2. Emitted' = Emitted BY <1>1 DEF Emitted
<1>3. /\ \A p \in Procs : LastRead(p) \in Nat /\ emitted[p] \in Nat /\ hand[p] \in Nat
      /\ \A n \in Lines : n \in Nat
  BY PipeLengths, FlowTyped, Bounds
<1>4. CASE ReaderTake(q)
  <2>1. /\ ~Holding(q) /\ Holding(q)'
        /\ LastRead(q)' = LastRead(q) + 1 /\ hand'[q] = LastRead(q) + 1
        /\ UNCHANGED <<queue, dropped, discarded>> /\ emitted'[q] = emitted[q]
        /\ LastRead(q) + 1 <= emitted[q]
    <3>1. /\ ~Holding(q) /\ Holding(q)'
          /\ LastRead(q)' = LastRead(q) + 1 /\ hand'[q] = LastRead(q) + 1
          /\ UNCHANGED <<queue, dropped, discarded, emitted>> /\ Len(pipe[q]) \in Nat \ {0}
      BY <1>4, ReadLine
    <3>2. emitted[q] = LastRead(q) + Len(pipe[q]) BY PipeLengths
    <3>. QED BY <1>3, <3>1, <3>2
  <2>2. ASSUME NEW p \in Procs, NEW n \in Lines PROVE OnWay(p, n)' <=> OnWay(p, n)
    <3>1. Queued(p, n)' <=> Queued(p, n) BY <2>1 DEF Queued
    <3>2. CASE p = q
      <4>1. InHand(p, n)' <=> n = LastRead(q) + 1 BY <2>1, <3>2 DEF InHand
      <4>2. InPipe(p, n)' <=> LastRead(q) + 1 < n /\ n <= emitted[q] BY <2>1, <3>2 DEF InPipe
      <4>3. InHand(p, n)' \/ InPipe(p, n)' <=> InPipe(p, n)
        BY <1>3, <2>1, <3>2, <4>1, <4>2 DEF InPipe
      <4>. QED BY <2>1, <3>1, <3>2, <4>3 DEF OnWay, InHand
    <3>3. CASE p # q
      BY <1>1, <3>1, <3>3 DEF OnWay, InHand, InPipe
    <3>. QED BY <3>2, <3>3
  <2>3. OnTheWay' = OnTheWay BY <2>2, SameWay
  <2>. QED BY <1>1, <1>2, <2>1, <2>3 DEF LinesConserved
<1>5. CASE ReaderEof(q) \/ ReaderTest(q) \/ ReaderPut(q)
  <2>1. /\ UNCHANGED <<emitted, seen>> /\ \A p \in Procs : LastRead(p)' = LastRead(p)
        /\ \/ /\ (Holding(q)' <=> Holding(q)) /\ hand'[q] = hand[q]
              /\ UNCHANGED <<queue, dropped, discarded>>
           \/ /\ Holding(q) /\ ~Holding(q)' /\ queue' = queue
              /\ dropped' + discarded' = dropped + discarded + 1
           \/ /\ Holding(q) /\ ~Holding(q)' /\ queue' = Append(queue, <<q, hand[q]>>)
              /\ UNCHANGED <<dropped, discarded>>
    BY <1>5, HandChange
  <2>2. \A p \in Procs, n \in Lines : InPipe(p, n)' <=> InPipe(p, n) BY <2>1 DEF InPipe
  <2>3. \A p \in Procs, n \in Lines : p # q => (InHand(p, n)' <=> InHand(p, n)) BY <1>1 DEF InHand
  <2>4. Holding(q) => hand[q] \in Lines /\ hand[q] = LastRead(q)
    <3>1. hand[q] \in 0..MaxLines /\ seen[q] \in Nat BY FlowTyped DEF TypeOK
    <3>. QED BY <3>1, Bounds DEF HandIsLast, Lines
  <2>5. ASSUME (Holding(q)' <=> Holding(q)), hand'[q] = hand[q],
               UNCHANGED <<queue, dropped, discarded>>
        PROVE  LinesConserved'
    <3>1. \A p \in Procs, n \in Lines : OnWay(p, n)' <=> OnWay(p, n)
      BY <2>2, <2>3, <2>5 DEF OnWay, InHand, Queued
    <3>2. OnTheWay' = OnTheWay BY <3>1, SameWay
    <3>. QED BY <1>1, <1>2, <2>5, <3>2 DEF LinesConserved
  <2>6. ASSUME Holding(q), ~Holding(q)', queue' = queue,
               dropped' + discarded' = dropped + discarded + 1
        PROVE  LinesConserved'
    <3>. DEFINE m == hand[q]
    <3>1. ASSUME NEW p \in Procs, NEW n \in Lines
          PROVE  OnWay(p, n)' <=> OnWay(p, n) /\ ~(p = q /\ n = m)
      <4>1. Queued(p, n)' <=> Queued(p, n) BY <2>6 DEF Queued
      <4>2. CASE p = q
        <5>1. ~InHand(p, n)' /\ (InHand(p, n) <=> n = m) BY <2>6, <4>2 DEF InHand
        <5>2. n = m => ~InPipe(p, n) BY <1>3, <2>4, <2>6, <4>2 DEF InPipe
        <5>3. n = m => ~Queued(p, n)
          <6>1. ASSUME NEW i \in 1..Len(queue), queue[i] = <<q, m>> PROVE FALSE
            <7>1. queue[i][1] = q /\ queue[i][2] = m BY <6>1
            <7>2. m < m BY <2>6, <7>1 DEF QueueOrdered
            <7>. QED BY <1>3, <7>2
          <6>. QED BY <4>2, <6>1 DEF Queued
        <5>. QED BY <2>2, <4>1, <4>2, <5>1, <5>2, <5>3 DEF OnWay
      <4>3. CASE p # q BY <2>2, <2>3, <4>1, <4>3 DEF OnWay
      <4>. QED BY <4>2, <4>3
    <3>2. m \in Lines /\ OnWay(q, m) BY <2>4, <2>6 DEF OnWay, InHand
    <3>3. Cardinality(OnTheWay') = Cardinality(OnTheWay) - 1 BY <3>1, <3>2, ShorterWay
    <3>4. dropped' \in Nat /\ discarded' \in Nat
      BY <1>5, WayCounts DEF ReaderEof, ReaderTest, ReaderPut
    <3>. QED BY <1>1, <1>2, <2>6, <3>3, <3>4, WayCounts DEF LinesConserved
  <2>7. ASSUME Holding(q), ~Holding(q)', queue' = Append(queue, <<q, hand[q]>>),
               UNCHANGED <<dropped, discarded>>
        PROVE  LinesConserved'
    <3>1. /\ Len(queue') = Len(queue) + 1 /\ Len(queue) \in Nat
          /\ \A i \in 1..Len(queue) : queue'[i] = queue[i]
          /\ queue'[Len(queue) + 1] = <<q, hand[q]>>
      <4>1. <<q, hand[q]>> \in Procs \X Lines BY <2>4, <2>7
      <4>. QED BY <2>7, <4>1, FlowTyped, AppendProperties
    <3>2. ASSUME NEW p \in Procs, NEW n \in Lines
          PROVE  Queued(p, n)' <=> Queued(p, n) \/ (p = q /\ n = hand[q])
      <4>1. ASSUME Queued(p, n)' PROVE Queued(p, n) \/ (p = q /\ n = hand[q])
        <5>1. PICK i \in 1..Len(queue') : queue'[i] = <<p, n>> BY <4>1 DEF Queued
        <5>2. i \in 1..Len(queue) \/ i = Len(queue) + 1 BY <3>1, <5>1
        <5>. QED BY <3>1, <5>1, <5>2 DEF Queued
      <4>2. \A i \in 1..Len(queue) : i \in 1..Len(queue') BY <3>1
      <4>3. Len(queue) + 1 \in 1..Len(queue') BY <3>1
      <4>. QED BY <3>1, <4>1, <4>2, <4>3 DEF Queued
    <3>3. \A n \in Lines : ~InHand(q, n)' /\ (InHand(q, n) <=> n = hand[q]) BY <2>7 DEF InHand
    <3>4. \A p \in Procs, n \in Lines : OnWay(p, n)' <=> OnWay(p, n)
      BY <2>2, <2>3, <3>2, <3>3 DEF OnWay
    <3>5. OnTheWay' = OnTheWay BY <3>4, SameWay
    <3>. QED BY <1>1, <1>2, <2>7, <3>5 DEF LinesConserved
  <2>. QED BY <2>1, <2>5, <2>6, <2>7
<1>. QED BY <1>4, <1>5 DEF Reader

LEMMA NextConserved ==
  TypeOK /\ Order /\ NotStarted /\ MainInBounds /\ LinesConserved /\ TypeOK' /\ Order' /\ [Next]_vars
    => LinesConserved'
<1>. SUFFICES ASSUME TypeOK, Order, NotStarted, MainInBounds, LinesConserved, TypeOK', Order',
                     [Next]_vars
              PROVE  LinesConserved'
  OBVIOUS
<1>1. OnTheWayIs /\ OnTheWayIs' BY OnTheWayMember, NextMember DEF Order
<1>2. CASE UNCHANGED flow
  BY <1>2 DEF flow, readers, LinesConserved, Emitted, OnTheWay, Places, Holding
<1>3. CASE StartChild
  <2>1. UNCHANGED <<emitted, pipe, hand, queue, dropped, discarded, framesSeen>>
    BY <1>3 DEF StartChild, counters
  <2>2. \A p \in Procs : Holding(p)' <=> Holding(p) BY <1>3, StartedReader
  <2>3. \A p \in Procs, n \in Lines : OnWay(p, n)' <=> OnWay(p, n)
    BY <2>1, <2>2 DEF OnWay, Queued, InHand, InPipe, LastRead
  <2>4. OnTheWay' = OnTheWay BY <1>1, <2>3, SameWay
  <2>. QED BY <2>1, <2>4 DEF LinesConserved, Emitted
<1>. QED BY <1>1, <1>2, <1>3, FlowCases, TakeConserves, EmitConserves, ReaderConserves

-----------------------------------------------------------------------------
(* The main thread.                                                        *)

LEMMA InitIInv == Init => IInv
<1>. SUFFICES ASSUME Init PROVE IInv OBVIOUS
<1>1. TypeOK BY InitTypeOK
<1>2. /\ pipe = [p \in Procs |-> <<>>] /\ reader = [p \in Procs |-> "none"]
      /\ emitted = [p \in Procs |-> 0] /\ seen = [p \in Procs |-> 0] /\ queue = <<>>
      /\ framesSeen = 0 /\ dropped = 0 /\ discarded = 0
      /\ pc = "start" /\ rc = "none" /\ restarts = 0 /\ proc = "none"
  BY DEF Init
<1>3. Len(queue) = 0 /\ \A p \in Procs : Len(pipe[p]) = 0 /\ LastRead(p) = 0 /\ ~Holding(p)
  <2>1. Len(<<>>) = 0 OBVIOUS
  <2>. QED BY <1>2, <2>1 DEF LastRead, Holding
<1>4. Order
  <2>1. PipeIsNewest BY <1>3 DEF PipeIsNewest
  <2>2. HandIsLast BY <1>2, <1>3 DEF HandIsLast
  <2>3. QueueOrdered BY <1>3 DEF QueueOrdered
  <2>. QED BY <2>1, <2>2, <2>3 DEF Order
<1>5. LinesConserved
  <2>1. OnTheWayIs BY <1>1, <1>4, OnTheWayMember DEF Order
  <2>2. \A p \in Procs, n \in Lines : ~OnWay(p, n)
    BY <1>2, <1>3, Bounds DEF OnWay, Queued, InHand, InPipe, Lines
  <2>3. OnTheWay = {} BY <2>1, <2>2 DEF OnTheWayIs
  <2>4. Emitted = {} BY <1>2, Bounds DEF Emitted, Lines
  <2>. QED BY <1>2, <2>3, <2>4, FS_EmptySet DEF LinesConserved
<1>6. NotStarted BY <1>2 DEF NotStarted
<1>7. MainInBounds BY <1>2, Bounds DEF MainInBounds
<1>8. EndedIsDrained BY <1>2 DEF EndedIsDrained
<1>9. JoinedInTime BY <1>2, Bounds DEF JoinedInTime, Cur
<1>. QED BY <1>1, <1>4, <1>5, <1>6, <1>7, <1>8, <1>9 DEF IInv

LEMMA NextMainInBounds == TypeOK /\ MainInBounds /\ [Next]_vars => MainInBounds'
<1>. SUFFICES ASSUME TypeOK, MainInBounds, [Next]_vars PROVE MainInBounds' OBVIOUS
<1>. USE DEF MainInBounds
<1>1. CASE Emit \/ ChildExits \/ Signal BY <1>1 DEF Emit, ChildExits, Signal
<1>2. CASE \E p \in Procs : Reader(p)
  BY <1>2 DEF Reader, ReaderTake, ReaderEof, ReaderTest, ReaderPut, ReaderUnchanged
<1>3. CASE StartChild \/ StartStopped \/ ConsumeEmpty \/ ConsumeStopped
  BY <1>3 DEF StartChild, StartStopped, ConsumeEmpty, ConsumeStopped, Exit
<1>4. CASE ConsumeLine \/ Drain \/ FinalDrain
  BY <1>4 DEF ConsumeLine, Drain, FinalDrain, TakeLine, Exit
<1>5. CASE Check \/ JoinReader \/ FlushRaises \/ StopChild \/ Finish
  BY <1>5 DEF Check, JoinReader, FlushRaises, StopChild, Finish, Exit
<1>6. CASE AfterLoop
  <2>1. restarts \in Nat BY Bounds DEF TypeOK
  <2>. QED BY <1>6, <2>1, Bounds DEF AfterLoop, Exit
<1>7. CASE UNCHANGED vars BY <1>7 DEF vars
<1>. QED BY <1>1, <1>2, <1>3, <1>4, <1>5, <1>6, <1>7 DEF Next, Main

\* Steps that change neither a reader nor what was emitted, seen from the main thread.
LEMMA ControlCases ==
  [Next]_vars =>
    \/ UNCHANGED <<pc, restarts>> /\ (Emit \/ \E p \in Procs : Reader(p))
    \/ StartChild
    \/ UNCHANGED <<reader, emitted, pipe, discarded>>
<1>. USE DEF MainUnchanged, readers
<1>1. Emit => UNCHANGED <<pc, restarts>> BY DEF Emit
<1>2. ASSUME NEW p \in Procs, Reader(p) PROVE UNCHANGED <<pc, restarts>>
  BY <1>2 DEF Reader, ReaderTake, ReaderEof, ReaderTest, ReaderPut, ReaderUnchanged
<1>3. ChildExits \/ Signal \/ UNCHANGED vars => UNCHANGED <<reader, emitted, pipe, discarded>>
  BY DEF ChildExits, Signal, vars
<1>4. StartStopped \/ ConsumeEmpty \/ ConsumeStopped \/ Check \/ JoinReader \/ FlushRaises
        \/ AfterLoop \/ StopChild \/ Finish \/ ConsumeLine \/ Drain \/ FinalDrain
        => UNCHANGED <<reader, emitted, pipe, discarded>>
  BY DEF StartStopped, ConsumeEmpty, ConsumeStopped, Check, JoinReader, FlushRaises, AfterLoop,
         StopChild, Finish, ConsumeLine, Drain, FinalDrain
<1>. QED BY <1>1, <1>2, <1>3, <1>4 DEF Next, Main

\* A restart takes the next child; only a restart brings the main thread back to the start.
LEMMA Progress ==
  ASSUME TypeOK, MainInBounds, [Next]_vars
  PROVE  /\ Cur \in Nat /\ Cur' \in Nat
         /\ \/ Cur' = Cur /\ (pc' = "start" => pc = "start")
            \/ AfterLoop /\ Cur' = Cur + 1 /\ ~stop /\ proc = "failed"
<1>1. restarts \in Nat BY Bounds DEF TypeOK
<1>. USE DEF Cur
<1>2. CASE Emit \/ ChildExits \/ Signal BY <1>1, <1>2 DEF Emit, ChildExits, Signal
<1>3. CASE \E p \in Procs : Reader(p)
  BY <1>1, <1>3 DEF Reader, ReaderTake, ReaderEof, ReaderTest, ReaderPut, ReaderUnchanged
<1>4. CASE StartChild \/ StartStopped \/ ConsumeEmpty \/ ConsumeStopped
  BY <1>1, <1>4 DEF StartChild, StartStopped, ConsumeEmpty, ConsumeStopped, Exit
<1>5. CASE ConsumeLine \/ Drain \/ FinalDrain
  BY <1>1, <1>5 DEF ConsumeLine, Drain, FinalDrain, TakeLine, Exit
<1>6. CASE Check \/ JoinReader \/ FlushRaises \/ StopChild \/ Finish
  BY <1>1, <1>6 DEF Check, JoinReader, FlushRaises, StopChild, Finish, Exit
<1>7. CASE AfterLoop BY <1>1, <1>7 DEF AfterLoop
<1>8. CASE UNCHANGED vars BY <1>1, <1>8 DEF vars
<1>. QED BY <1>2, <1>3, <1>4, <1>5, <1>6, <1>7, <1>8 DEF Next, Main

LEMMA NextNotStarted == TypeOK /\ NotStarted /\ MainInBounds /\ [Next]_vars => NotStarted'
<1>. SUFFICES ASSUME TypeOK, NotStarted, MainInBounds, [Next]_vars,
                     NEW p \in Procs, p > Cur' \/ (p = Cur' /\ pc' = "start")
              PROVE  reader'[p] = "none" /\ emitted'[p] = 0
  BY DEF NotStarted
<1>1. p > Cur \/ (p = Cur /\ pc = "start") BY Progress, Bounds
<1>2. reader[p] = "none" /\ emitted[p] = 0 BY <1>1 DEF NotStarted
<1>3. /\ reader \in [Procs -> {"none", "reading", "holding", "cleared", "ended"}]
      /\ emitted \in [Procs -> 0..MaxLines]
  BY DEF TypeOK
<1>4. CASE UNCHANGED <<reader, emitted, pipe, discarded>> BY <1>2, <1>4
<1>5. CASE Emit
  <2>1. p # Cur
    <3>1. pc # "start" /\ Cur' = Cur /\ pc' = pc BY <1>5 DEF Emit, Cur, MainInBounds
    <3>. QED BY <3>1, Progress, Bounds
  <2>. QED BY <1>2, <1>3, <1>5, <2>1 DEF Emit
<1>6. ASSUME NEW q \in Procs, Reader(q) PROVE reader'[p] = "none" /\ emitted'[p] = 0
  <2>1. q # p BY <1>2, <1>6 DEF Reader, ReaderTake, ReaderEof, ReaderTest, ReaderPut
  <2>2. emitted' = emitted /\ reader'[p] = reader[p]
    BY <1>3, <1>6, <2>1 DEF Reader, ReaderTake, ReaderEof, ReaderTest, ReaderPut, ReaderUnchanged
  <2>. QED BY <1>2, <2>2
<1>7. CASE StartChild
  <2>1. /\ pc' # "start" /\ Cur' = Cur /\ emitted' = emitted
        /\ reader' = reader \/ reader' = [reader EXCEPT ![Cur] = "reading"]
    BY <1>7 DEF StartChild, Exit, Cur
  <2>2. p # Cur BY <2>1, Progress, Bounds
  <2>. QED BY <1>2, <1>3, <2>1, <2>2
<1>. QED BY <1>4, <1>5, <1>6, <1>7, ControlCases

\* The stop event is never cleared, and an ended reader stays ended.
LEMMA StopStays == TypeOK /\ [Next]_vars /\ stop => stop'
<1>. SUFFICES ASSUME TypeOK, [Next]_vars, stop PROVE stop' OBVIOUS
<1>1. CASE Emit \/ ChildExits \/ Signal BY <1>1 DEF Emit, ChildExits, Signal
<1>2. CASE \E p \in Procs : Reader(p)
  BY <1>2 DEF Reader, ReaderTake, ReaderEof, ReaderTest, ReaderPut, ReaderUnchanged
<1>3. CASE StartChild \/ StartStopped \/ ConsumeEmpty \/ ConsumeStopped
  BY <1>3 DEF StartChild, StartStopped, ConsumeEmpty, ConsumeStopped
<1>4. CASE ConsumeLine \/ Drain \/ FinalDrain BY <1>4 DEF ConsumeLine, Drain, FinalDrain
<1>5. CASE Check \/ JoinReader \/ FlushRaises \/ StopChild \/ Finish
  BY <1>5 DEF Check, JoinReader, FlushRaises, StopChild, Finish
<1>6. CASE AfterLoop BY <1>6 DEF AfterLoop
<1>7. CASE UNCHANGED vars BY <1>7 DEF vars
<1>. QED BY <1>1, <1>2, <1>3, <1>4, <1>5, <1>6, <1>7 DEF Next, Main

\* What a reader's step means for the readers, without a stop.
LEMMA ReaderStep ==
  ASSUME TypeOK, ~stop, NEW q \in Procs, Reader(q)
  PROVE  /\ reader[q] \notin {"none", "ended"} /\ pc # "exited"
         /\ UNCHANGED <<pc, rc, stop, restarts, proc, emitted, discarded, timedOut>>
         /\ \A p \in Procs \ {q} : reader'[p] = reader[p] /\ pipe'[p] = pipe[p]
         /\ reader'[q] = "ended" => pipe'[q] = <<>> /\ (q # Cur \/ proc # "running")
<1>1. /\ pipe \in [Procs -> Seq(Lines)]
      /\ reader \in [Procs -> {"none", "reading", "holding", "cleared", "ended"}]
  BY DEF TypeOK
<1>. pc # "exited" BY DEF Reader
<1>. USE DEF ReaderUnchanged
<1>2. CASE ReaderTake(q) BY <1>1, <1>2 DEF ReaderTake
<1>3. CASE ReaderEof(q) BY <1>1, <1>3 DEF ReaderEof
<1>4. CASE ReaderTest(q) BY <1>1, <1>4 DEF ReaderTest
<1>5. CASE ReaderPut(q) BY <1>1, <1>5 DEF ReaderPut
<1>. QED BY <1>2, <1>3, <1>4, <1>5 DEF Reader

\* Only StartChild makes a process run.
LEMMA ProcessStays == [Next]_vars /\ proc # "running" => proc' # "running" \/ StartChild
<1>. SUFFICES ASSUME [Next]_vars, proc # "running" PROVE proc' # "running" \/ StartChild OBVIOUS
<1>1. CASE Emit \/ ChildExits \/ Signal BY <1>1 DEF Emit, ChildExits, Signal
<1>2. CASE \E p \in Procs : Reader(p)
  BY <1>2 DEF Reader, ReaderTake, ReaderEof, ReaderTest, ReaderPut, ReaderUnchanged
<1>3. CASE StartStopped \/ ConsumeEmpty \/ ConsumeStopped
  BY <1>3 DEF StartStopped, ConsumeEmpty, ConsumeStopped
<1>4. CASE ConsumeLine \/ Drain \/ FinalDrain BY <1>4 DEF ConsumeLine, Drain, FinalDrain
<1>5. CASE Check \/ JoinReader \/ FlushRaises \/ StopChild \/ Finish \/ AfterLoop
  BY <1>5 DEF Check, JoinReader, FlushRaises, StopChild, Finish, AfterLoop
<1>6. CASE UNCHANGED vars BY <1>6 DEF vars
<1>. QED BY <1>1, <1>2, <1>3, <1>4, <1>5, <1>6 DEF Next, Main

LEMMA NextEndedIsDrained ==
  TypeOK /\ NotStarted /\ MainInBounds /\ EndedIsDrained /\ [Next]_vars => EndedIsDrained'
<1>. SUFFICES ASSUME TypeOK, NotStarted, MainInBounds, EndedIsDrained, [Next]_vars, ~stop'
              PROVE  /\ discarded' = 0
                     /\ \A p \in Procs : reader'[p] = "ended" =>
                          pipe'[p] = <<>> /\ (p < Cur' \/ (p = Cur' /\ proc' # "running"))
  BY DEF EndedIsDrained
<1>1. ~stop BY StopStays
<1>2. /\ discarded = 0
      /\ \A p \in Procs : reader[p] = "ended" =>
           pipe[p] = <<>> /\ (p < Cur \/ (p = Cur /\ proc # "running"))
  BY <1>1 DEF EndedIsDrained
<1>3. /\ reader \in [Procs -> {"none", "reading", "holding", "cleared", "ended"}]
      /\ pipe \in [Procs -> Seq(Lines)]
  BY DEF TypeOK
<1>4. CASE Emit
  <2>1. /\ UNCHANGED <<reader, discarded, proc>> /\ Cur' = Cur /\ proc = "running"
        /\ \A p \in Procs : p # Cur => pipe'[p] = pipe[p]
    BY <1>3, <1>4 DEF Emit, Cur
  <2>2. \A p \in Procs : reader[p] = "ended" => p # Cur
    <3>1. Cur \in Nat /\ \A p \in Procs : p \in Nat BY Progress, Bounds
    <3>. QED BY <1>2, <2>1, <3>1
  <2>. QED BY <1>2, <2>1, <2>2
<1>5. ASSUME NEW q \in Procs, Reader(q)
      PROVE  /\ discarded' = 0
             /\ \A p \in Procs : reader'[p] = "ended" =>
                  pipe'[p] = <<>> /\ (p < Cur' \/ (p = Cur' /\ proc' # "running"))
  <2>1. /\ reader[q] \notin {"none", "ended"} /\ UNCHANGED <<restarts, proc, discarded>>
        /\ \A p \in Procs \ {q} : reader'[p] = reader[p] /\ pipe'[p] = pipe[p]
        /\ reader'[q] = "ended" => pipe'[q] = <<>> /\ (q # Cur \/ proc # "running")
    BY <1>1, <1>5, ReaderStep
  <2>2. ~(q > Cur) BY <2>1 DEF NotStarted
  <2>3. q \in Nat /\ Cur \in Nat /\ Cur' = Cur BY <2>1, Progress, Bounds DEF Cur
  <2>. QED BY <1>2, <2>1, <2>2, <2>3
<1>6. CASE StartChild
  <2>1. /\ UNCHANGED <<pipe, discarded>> /\ Cur' = Cur
        /\ \/ reader' = [reader EXCEPT ![Cur] = "reading"]
           \/ UNCHANGED <<reader, proc>>
    BY <1>6 DEF StartChild, Cur
  <2>. QED BY <1>2, <1>3, <2>1
<1>7. CASE UNCHANGED <<reader, emitted, pipe, discarded>>
  <2>1. CASE AfterLoop /\ Cur' = Cur + 1
    <3>1. Cur \in Nat BY Progress
    <3>2. \A p \in Procs : p \in Nat BY Bounds
    <3>3. \A p \in Procs : reader[p] = "ended" => p < Cur' BY <1>2, <2>1, <3>1, <3>2
    <3>. QED BY <1>2, <1>7, <3>3
  <2>2. CASE Cur' = Cur
    <3>1. proc # "running" => proc' # "running" \/ StartChild BY ProcessStays
    <3>. QED BY <1>2, <1>6, <1>7, <2>2, <3>1
  <2>. QED BY <2>1, <2>2, Progress
<1>. QED BY <1>4, <1>5, <1>6, <1>7, ControlCases

LEMMA NextJoinedInTime ==
  TypeOK /\ NotStarted /\ MainInBounds /\ JoinedInTime /\ [Next]_vars => JoinedInTime'
<1>. SUFFICES ASSUME TypeOK, NotStarted, MainInBounds, JoinedInTime, [Next]_vars, ~stop'
              PROVE  JoinedInTime'
  BY DEF JoinedInTime
<1>1. ~stop BY StopStays
<1>. DEFINE late == pc \in {"drain", "after", "shutdown", "finish", "close"} \/ rc = "0"
<1>2. /\ late \/ pc = "join" => proc # "running" /\ restarts <= MaxRestarts
      /\ ~timedOut => \A p \in Procs : p < Cur \/ (p = Cur /\ late) => reader[p] = "ended"
      /\ ~timedOut /\ (pc = "close" \/ rc = "0") => queue = <<>>
  BY <1>1 DEF JoinedInTime
<1>3. SUFFICES
        /\ late' \/ pc' = "join" => proc' # "running" /\ restarts' <= MaxRestarts
        /\ ~timedOut' => \A p \in Procs : p < Cur' \/ (p = Cur' /\ late') => reader'[p] = "ended"
        /\ ~timedOut' /\ (pc' = "close" \/ rc' = "0") => queue' = <<>>
  BY DEF JoinedInTime
<1>4. /\ rc = "none" <=> pc # "exited"
      /\ pc # "exited" => restarts <= MaxRestarts
  BY DEF MainInBounds
<1>5. restarts \in Nat /\ Cur \in Nat /\ \A p \in Procs : p \in Nat
  BY Bounds DEF TypeOK, Cur
<1>6. CASE ChildExits \/ Emit \/ Signal \/ UNCHANGED vars
  <2>1. UNCHANGED <<pc, rc, restarts, reader, queue, timedOut>> /\ Cur' = Cur
    BY <1>1, <1>6 DEF ChildExits, Emit, Signal, vars, readers, Cur
  <2>2. proc # "running" => proc' # "running"
    BY <1>6 DEF ChildExits, Emit, Signal, vars
  <2>. QED BY <1>2, <2>1, <2>2
<1>7. ASSUME NEW q \in Procs, Reader(q)
      PROVE  /\ late' \/ pc' = "join" => proc' # "running" /\ restarts' <= MaxRestarts
             /\ ~timedOut' => \A p \in Procs :
                  p < Cur' \/ (p = Cur' /\ late') => reader'[p] = "ended"
             /\ ~timedOut' /\ (pc' = "close" \/ rc' = "0") => queue' = <<>>
  <2>1. /\ reader[q] \notin {"none", "ended"} /\ pc # "exited"
        /\ UNCHANGED <<pc, rc, restarts, proc, timedOut>> /\ Cur' = Cur
        /\ \A p \in Procs \ {q} : reader'[p] = reader[p]
    BY <1>1, <1>7, ReaderStep DEF Cur
  <2>2. ~timedOut /\ (pc = "close" \/ rc = "0") => FALSE
    <3>1. ~(q > Cur) BY <2>1 DEF NotStarted
    <3>. QED BY <1>2, <1>5, <2>1, <3>1
  <2>. QED BY <1>2, <2>1, <2>2
<1>8. CASE StartChild
  <2>1. /\ pc = "start" /\ pc' \in {"consume", "exited"} /\ Cur' = Cur
        /\ rc' = rc \/ rc' = "1"
        /\ UNCHANGED timedOut /\ (reader' = reader \/ reader' = [reader EXCEPT ![Cur] = "reading"])
    BY <1>8 DEF StartChild, Exit, Cur
  <2>2. \A p \in Procs : p < Cur => reader'[p] = reader[p]
    BY <1>5, <2>1 DEF TypeOK
  <2>. QED BY <1>2, <1>4, <1>5, <2>1, <2>2
<1>9. CASE ConsumeEmpty \/ ConsumeLine
  <2>1. /\ pc = "consume" /\ UNCHANGED <<proc, restarts, reader, timedOut>> /\ Cur' = Cur
        /\ pc' \in {"check", "exited"} /\ (rc' = rc \/ rc' = "raised")
    BY <1>9 DEF ConsumeEmpty, ConsumeLine, TakeLine, Exit, MainUnchanged, readers, Cur
  <2>. QED BY <1>2, <1>4, <1>5, <2>1
<1>10. CASE Check
  <2>1. /\ pc = "check" /\ UNCHANGED <<rc, proc, restarts, reader, timedOut>> /\ Cur' = Cur
        /\ pc' = "consume" \/ (pc' = "join" /\ proc # "running")
    BY <1>10 DEF Check, MainUnchanged, readers, Cur
  <2>. QED BY <1>2, <1>4, <1>5, <2>1
<1>11. CASE FlushRaises
  <2>1. /\ pc' = "exited" /\ rc' = "raised" /\ UNCHANGED <<reader, timedOut>> /\ Cur' = Cur
    BY <1>11 DEF FlushRaises, Exit, MainUnchanged, readers, Cur
  <2>. QED BY <1>2, <1>5, <2>1
<1>12. CASE JoinReader
  <2>1. /\ pc = "join" /\ pc' = "drain" /\ UNCHANGED <<rc, proc, restarts, reader>> /\ Cur' = Cur
        /\ (reader[Cur] = "ended" /\ timedOut' = timedOut) \/ timedOut' = TRUE
    BY <1>12 DEF JoinReader, MainUnchanged, readers, Cur
  <2>. QED BY <1>2, <1>4, <2>1
<1>13. CASE Drain \/ FinalDrain
  <2>1. /\ pc \in {"drain", "finish"} /\ UNCHANGED <<proc, restarts, reader, timedOut>> /\ Cur' = Cur
        /\ \/ pc' \in {"drain", "after", "finish"} /\ UNCHANGED rc
           \/ pc' = "close" /\ UNCHANGED <<rc, queue>> /\ queue = <<>>
           \/ pc' = "exited" /\ rc' = "raised"
    BY <1>13 DEF Drain, FinalDrain, TakeLine, Exit, MainUnchanged, readers, counters, Cur
  <2>. QED BY <1>2, <1>4, <2>1
<1>14. CASE AfterLoop
  <2>1. pc = "after" /\ UNCHANGED <<proc, reader, timedOut>>
    BY <1>14 DEF AfterLoop, MainUnchanged, readers
  <2>2. CASE pc' = "shutdown" /\ UNCHANGED <<rc, restarts>>
    BY <1>2, <1>4, <2>1, <2>2 DEF Cur
  <2>3. CASE restarts' = restarts + 1 /\ pc' = "start" /\ UNCHANGED rc
    <3>1. Cur' = Cur + 1 BY <1>5, <2>3 DEF Cur
    <3>2. \A p \in Procs : p < Cur' => p < Cur \/ p = Cur BY <1>5, <3>1
    <3>. QED BY <1>2, <1>4, <1>5, <2>1, <2>3, <3>1, <3>2
  <2>. QED BY <1>1, <1>14, <2>2, <2>3 DEF AfterLoop, Exit
<1>15. CASE StopChild
  <2>1. /\ pc = "shutdown" /\ pc' = "finish" /\ UNCHANGED <<rc, restarts, reader, timedOut>>
        /\ Cur' = Cur /\ proc' # "running"
    BY <1>15 DEF StopChild, MainUnchanged, readers, Cur
  <2>. QED BY <1>2, <1>4, <2>1
<1>16. CASE Finish
  <2>1. /\ pc = "close" /\ pc' = "exited" /\ UNCHANGED <<proc, restarts, reader, timedOut, queue>>
        /\ Cur' = Cur
    BY <1>16 DEF Finish, Exit, MainUnchanged, readers, Cur
  <2>. QED BY <1>2, <1>4, <2>1
<1>17. CASE StartStopped \/ ConsumeStopped BY <1>1, <1>17 DEF StartStopped, ConsumeStopped
<1>. QED BY <1>6, <1>7, <1>8, <1>9, <1>10, <1>11, <1>12, <1>13, <1>14, <1>15, <1>16, <1>17
         DEF Next, Main

LEMMA NextIInv == IInv /\ [Next]_vars => IInv'
<1>. SUFFICES ASSUME IInv, [Next]_vars PROVE IInv' OBVIOUS
<1>. USE DEF IInv
<1>1. MainInBounds' BY NextMainInBounds
<1>2. TypeOK'
  <2>1. TypeControl' /\ TypeCounts' /\ TypeFlow'
    BY TypeParts, NextTypeControl, NextTypeCounts, NextTypeFlow
  <2>2. (TypeControl /\ TypeFlow /\ TypeCounts => TypeOK)' BY TypeParts, PTL
  <2>. QED BY <2>1, <2>2
<1>3. Order' BY NextOrder
<1>4. LinesConserved' BY <1>2, <1>3, NextConserved
<1>5. NotStarted' BY NextNotStarted
<1>6. EndedIsDrained' BY NextEndedIsDrained
<1>7. JoinedInTime' BY NextJoinedInTime
<1>. QED BY <1>1, <1>2, <1>3, <1>4, <1>5, <1>6, <1>7

LEMMA Invariance == Spec => []IInv
<1>1. Init => IInv BY InitIInv
<1>2. IInv /\ [Next]_vars => IInv' BY NextIInv
<1>. QED BY <1>1, <1>2, PTL DEF Spec

\* A clean exit without a stop or a late reader has emptied every place a line can be.
LEMMA EmptyAtExit == IInv => CompleteWhenJoined
<1>. SUFFICES ASSUME IInv, rc = "0", ~stop, ~timedOut
              PROVE  Cardinality(Emitted) = framesSeen + dropped
  BY DEF CompleteWhenJoined
<1>. USE DEF IInv
<1>1. TypeOK /\ Order /\ OnTheWayIs /\ queue = <<>> /\ discarded = 0
  BY OnTheWayMember DEF Order, JoinedInTime, EndedIsDrained
<1>2. Len(queue) = 0
  <2>1. Len(<<>>) = 0 OBVIOUS
  <2>. QED BY <1>1, <2>1
<1>3. Cur \in Nat /\ \A p \in Procs : p \in Nat BY Bounds DEF TypeOK, Cur
<1>4. ASSUME NEW p \in Procs, NEW n \in Lines PROVE ~OnWay(p, n)
  <2>1. ~Queued(p, n) BY <1>2 DEF Queued
  <2>2. ~Holding(p) /\ (pipe[p] = <<>> \/ emitted[p] = 0)
    <3>1. CASE p > Cur BY <3>1 DEF NotStarted, Holding
    <3>2. CASE p < Cur \/ p = Cur
      <4>1. reader[p] = "ended" BY <3>2 DEF JoinedInTime
      <4>2. pipe[p] = <<>> BY <4>1 DEF EndedIsDrained
      <4>. QED BY <4>1, <4>2 DEF Holding
    <3>. QED BY <1>3, <3>1, <3>2
  <2>3. ~InPipe(p, n)
    <3>1. /\ LastRead(p) \in Nat /\ Len(pipe[p]) \in Nat /\ n \in Nat \ {0}
          /\ emitted[p] = LastRead(p) + Len(pipe[p])
      BY <1>1, PipeLengths, Bounds DEF Order, Lines
    <3>2. Len(<<>>) = 0 OBVIOUS
    <3>3. emitted[p] = LastRead(p) \/ emitted[p] = 0 BY <2>2, <3>1, <3>2
    <3>. QED BY <3>1, <3>3 DEF InPipe
  <2>. QED BY <2>1, <2>2, <2>3 DEF OnWay, InHand
<1>5. OnTheWay = {} BY <1>1, <1>4 DEF OnTheWayIs
<1>6. Cardinality(OnTheWay) = 0 BY <1>5, FS_EmptySet
<1>. QED BY <1>1, <1>6, WayCounts DEF LinesConserved

-----------------------------------------------------------------------------
\* The types, for every number of restarts and every size of queue and pipe.
THEOREM TypeCorrect == Spec => []TypeOK
<1>1. IInv => TypeOK BY DEF IInv
<1>. QED BY <1>1, Invariance, PTL

\* The lines of one child reach the main thread in the order tshark printed them, each
\* once, while the readers of a dead child and of its successor feed the same queue
\* (run_capture.py 170-185, 200-205, 235-238).
THEOREM Ordered == Spec => []OrderPerChild
<1>1. IInv => OrderPerChild BY OrderedPlaces DEF IInv
<1>. QED BY <1>1, Invariance, PTL

\* Every emitted line is on its way or in exactly one of the counts, in every state
\* (run_capture.py 170-176).
THEOREM Conserved == Spec => []LinesConserved
<1>1. IInv => LinesConserved BY DEF IInv
<1>. QED BY <1>1, Invariance, PTL

\* A run that tshark ended and whose readers were joined in time has processed every
\* line or counted it as dropped (run_capture.py 235-250, 282-294).
THEOREM Complete == Spec => []CompleteWhenJoined
BY EmptyAtExit, Invariance, PTL
=============================================================================

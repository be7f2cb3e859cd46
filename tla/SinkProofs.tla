----------------------------- MODULE SinkProofs -----------------------------
(***************************************************************************)
(* Proofs about the sink, for every number of threads, every capacity and  *)
(* every bound: its inductive invariant and what follows from it, then     *)
(* what has to be counted, frames in the channel and buffers on their way, *)
(* and that the sink implements FrameChannel.                              *)
(***************************************************************************)
EXTENDS Sink, FiniteSetTheorems, SequenceTheorems, TLAPS

-----------------------------------------------------------------------------
(* Type correctness.                                                       *)

LEMMA TypeInit == Init => TypeOK
BY SinkAssumption, FS_EmptySet DEF Init, TypeOK, ThreadPc, WorkerPc, Outcome

(* A step of a logging thread keeps the types.                             *)
LEMMA TypeThread ==
  ASSUME TypeOK, NEW t \in Threads, Thread(t)
  PROVE  TypeOK'
<1> USE SinkAssumption DEF TypeOK, ThreadPc, Outcome, channel, buffers, counters, worker, output
<1>1. CASE Checkout(t) BY <1>1 DEF Checkout
<1>2. CASE Send(t) BY <1>2 DEF Send, QueueFull, Message, Frame
<1>3. CASE Reject(t) BY <1>3, SMTT(20) DEF Reject
<1>4. CASE CheckinRejected(t) BY <1>4 DEF CheckinRejected, PoolPut, Push, FreshForOversized
<1>5. CASE BeginFlush(t) BY <1>5 DEF BeginFlush
<1>6. CASE SendFlush(t) BY <1>6 DEF SendFlush, QueueFull, Message, Flush
<1>7. CASE FlushReturn(t) BY <1>7 DEF FlushReturn
<1>8. CASE DropSender(t) BY <1>8 DEF DropSender
<1> QED
  BY <1>1, <1>2, <1>3, <1>4, <1>5, <1>6, <1>7, <1>8 DEF Thread

(* The message at the head of the queue, and what is behind it.            *)
LEMMA HeadTail ==
  ASSUME TypeOK, queue # <<>>
  PROVE  /\ Head(queue) \in Message
         /\ Tail(queue) \in Seq(Message)
         /\ Len(Tail(queue)) = Len(queue) - 1
         /\ Head(queue) = queue[1]
         /\ \A i \in 1..Len(Tail(queue)) : Tail(queue)[i] = queue[i + 1]
BY DEF TypeOK

(* A step of the worker keeps the types.                                   *)
LEMMA TypeWorker ==
  ASSUME TypeOK, Worker
  PROVE  TypeOK'
<1> USE SinkAssumption
    DEF TypeOK, WorkerPc, Outcome, channel, buffers, counters, threads, worker, output
<1>1. CASE TakeFrame BY <1>1, HeadTail DEF TakeFrame, Receiving, Message
<1>2. CASE RecvFlush BY <1>2, HeadTail DEF RecvFlush, Receiving, Message
<1>3. CASE DrainFlush BY <1>3, HeadTail DEF DrainFlush, Receiving, Message, Superseded
<1>4. CASE DrainEmpty BY <1>4 DEF DrainEmpty
<1>5. CASE RecvClosed BY <1>5 DEF RecvClosed
<1>6. CASE DrainClosed BY <1>6 DEF DrainClosed, Superseded
<1>7. CASE WriteBuffered BY <1>7 DEF WriteBuffered, WriteOk
<1>8. CASE WriteSpill BY <1>8 DEF WriteSpill, WriteOk
<1>9. CASE WriteDirect BY <1>9 DEF WriteDirect, WriteOk
<1>10. CASE WriteFails
  <2>1. IsFiniteSet(failed \union {hand}) BY FS_AddElement
  <2>2. synced' \in 0..Len(log) BY <1>10 DEF WriteFails
  <2> QED BY <1>10, <2>1, <2>2 DEF WriteFails
<1>11. CASE CheckinWritten BY <1>11 DEF CheckinWritten, PoolPut, Push, FreshForOversized
<1>12. CASE Publish BY <1>12 DEF Publish, PublishWrittenFrames
<1>13. CASE FlushWriter
  <2>1. log' = log /\ failed' = failed /\ write_errors' \in Nat /\ synced' \in 0..Len(log)
    BY <1>13 DEF FlushWriter, WriterFlushOk, WriterFlushFails
  <2>2. result' \in {"ok", "err"} BY <1>13 DEF FlushWriter
  <2> QED BY <1>13, <2>1, <2>2 DEF FlushWriter
<1>14. CASE SendAck BY <1>14 DEF SendAck
<1>15. CASE ExitPublish BY <1>15 DEF ExitPublish, PublishWrittenFrames
<1>16. CASE ExitFlush
  <2>1. log' = log /\ failed' = failed /\ write_errors' \in Nat /\ synced' \in 0..Len(log)
    BY <1>16 DEF ExitFlush, WriterFlushOk, WriterFlushFails
  <2>2. result' \in {"ok", "err"} BY <1>16 DEF ExitFlush
  <2> QED BY <1>16, <2>1, <2>2 DEF ExitFlush
<1>17. CASE DropWriter BY <1>17 DEF DropWriter
<1> QED
  BY <1>1, <1>2, <1>3, <1>4, <1>5, <1>6, <1>7, <1>8, <1>9, <1>10, <1>11,
     <1>12, <1>13, <1>14, <1>15, <1>16, <1>17 DEF Worker

LEMMA TypeStep == TypeOK /\ [Next]_vars => TypeOK'
<1> SUFFICES ASSUME TypeOK, [Next]_vars PROVE TypeOK'
  OBVIOUS
<1>1. CASE UNCHANGED vars
  BY <1>1 DEF TypeOK, vars, channel, buffers, counters, threads, worker, output
<1>2. CASE \E t \in Threads : Thread(t) BY <1>2, TypeThread
<1>3. CASE Worker BY <1>3, TypeWorker
<1> QED BY <1>1, <1>2, <1>3 DEF Next, Terminated

(* Every variable keeps its type: no queue beyond its capacity, no pool    *)
(* beyond its size.                                                        *)
THEOREM TypeCorrect == Spec => []TypeOK
BY TypeInit, TypeStep, PTL DEF Spec

-----------------------------------------------------------------------------
(* The inductive invariant.                                                *)

(* Frame numbers run through the queue without a gap: a frame is one more  *)
(* than what precedes it, a flush carries what precedes it.                *)
Before(i) == IF i = 1 THEN taken ELSE queue[i - 1].n

QueueChain ==
  /\ accepted = IF Len(queue) = 0 THEN taken ELSE queue[Len(queue)].n
  /\ \A i \in 1..Len(queue) :
       queue[i].n = IF queue[i].kind = "frame" THEN Before(i) + 1 ELSE Before(i)

(* A flush on its way belongs to a thread that waits for it, and is the    *)
(* only one of that thread.                                                *)
QueuedFlush ==
  \A i \in 1..Len(queue) : queue[i].kind = "flush" =>
    /\ ack[queue[i].by] = "pending"
    /\ mark[queue[i].by] = queue[i].n
    /\ flushAck # queue[i].by

OneFlush ==
  \A i, j \in 1..Len(queue) :
    (queue[i].kind = "flush" /\ queue[j].kind = "flush" /\ queue[i].by = queue[j].by)
      => i = j

(* The flush the worker holds covers no more than what was taken.          *)
HeldFlush ==
  flushAck # NoThread => ack[flushAck] = "pending" /\ mark[flushAck] <= taken

PendingWaits == \A t \in Threads : ack[t] = "pending" => pc[t] = "waiting"

FlushPending ==
  QueuedFlush /\ OneFlush /\ HeldFlush /\ PendingWaits /\ FlushNotOrphaned

WorkerState ==
  /\ wpc = "write" => hand = taken /\ taken > 0
  /\ wpc = "recv" => flushAck = NoThread
  /\ wpc \in {"flush", "ack"} => flushAck # NoThread /\ unpublished = 0
  /\ wpc = "ack" /\ result = "ok" => synced = Len(log)
  /\ wpc \in {"exit", "exit_flush", "exit_drop", "done"} =>
       /\ queue = <<>>
       /\ flushAck = NoThread
       /\ \A t \in Threads : pc[t] = "gone"

(* Every frame the worker has taken is in the log, failed or in its hand,  *)
(* and in only one of these.                                               *)
Settled ==
  /\ \A i \in 1..Len(log) : log[i] <= taken
  /\ \A n \in failed : n <= taken
  /\ wpc = "write" => (\A i \in 1..Len(log) : log[i] < hand) /\ hand \notin failed
  /\ FramesInOrder
  /\ \A n \in 1..taken :
       \/ \E i \in 1..Len(log) : log[i] = n
       \/ n \in failed
       \/ wpc = "write" /\ n = hand

Counted ==
  /\ taken = Len(log) + Cardinality(failed) + (IF wpc = "write" THEN 1 ELSE 0)
  /\ Len(log) = written_frames + unpublished

IInv ==
  /\ TypeOK
  /\ QueueChain
  /\ FlushPending
  /\ WorkerState
  /\ Settled
  /\ Counted
  /\ FlushCoversQueue
  /\ FlushPublishesCounters

-----------------------------------------------------------------------------
(* Steps that leave a part of the state alone.                             *)

(* Whatever happens to the queue happens at one end of it.                 *)
LEMMA QueueSteps ==
  ASSUME TypeOK, [Next]_vars
  PROVE  \/ UNCHANGED channel
         \/ \E t \in Threads : Send(t) \/ SendFlush(t)
         \/ TakeFrame \/ RecvFlush \/ DrainFlush
<1>1. CASE UNCHANGED vars BY <1>1 DEF vars
<1>2. CASE \E t \in Threads : Thread(t)
  <2> PICK t \in Threads : Thread(t) BY <1>2
  <2> QED
    BY DEF Thread, Checkout, Reject, CheckinRejected, BeginFlush, FlushReturn,
           DropSender, channel
<1>3. CASE Worker
  BY <1>3 DEF Worker, DrainEmpty, RecvClosed, DrainClosed, WriteBuffered,
     WriteSpill, WriteDirect, WriteOk, WriteFails, CheckinWritten, Publish,
     FlushWriter, SendAck, ExitPublish, ExitFlush, DropWriter, channel
<1> QED BY <1>1, <1>2, <1>3 DEF Next, Terminated

LEMMA AppendMessage ==
  ASSUME TypeOK, NEW m \in Message
  PROVE  /\ Len(Append(queue, m)) = Len(queue) + 1
         /\ \A i \in 1..Len(queue) : Append(queue, m)[i] = queue[i]
         /\ Append(queue, m)[Len(queue) + 1] = m
BY AppendProperties DEF TypeOK

LEMMA MessageAppended ==
  ASSUME TypeOK, NEW m \in Message, queue' = Append(queue, m)
  PROVE  /\ Len(queue) \in Nat /\ Len(queue') = Len(queue) + 1
         /\ \A i \in 1..Len(queue) : i \in 1..Len(queue') /\ queue'[i] = queue[i]
         /\ queue'[Len(queue) + 1] = m
         /\ \A i \in 1..Len(queue') : i \in 1..Len(queue) \/ i = Len(queue) + 1
<1>1. PICK n \in Nat : n = Len(queue) BY DEF TypeOK
<1>2. Len(queue') = n + 1 /\ \A i \in 1..n : queue'[i] = queue[i] BY <1>1, AppendMessage
<1>3. queue'[n + 1] = m BY <1>1, AppendMessage
<1>4. \A i \in 1..n : i \in 1..(n + 1) BY <1>1
<1>5. \A i \in 1..(n + 1) : i \in 1..n \/ i = n + 1 BY <1>1
<1> QED BY <1>1, <1>2, <1>3, <1>4, <1>5

(* A message received: the next one takes its place.                       *)
LEMMA ReceivedMessage ==
  ASSUME TypeOK, NEW from, NEW kind, Receiving(from, kind)
  PROVE  /\ Len(queue) \in Nat /\ Len(queue) > 0
         /\ queue[1].kind = kind /\ Head(queue) = queue[1]
         /\ queue[1] \in Message
         /\ Len(queue') = Len(queue) - 1
         /\ \A i \in 1..Len(queue') : queue'[i] = queue[i + 1]
<1>1. queue # <<>> /\ Head(queue).kind = kind /\ queue' = Tail(queue)
  BY DEF Receiving
<1>2. Head(queue) = queue[1] /\ queue[1] \in Message
  BY <1>1, HeadTail
<1>3. Len(queue) \in Nat /\ Len(queue) > 0
  BY <1>1, EmptySeq DEF TypeOK
<1> QED BY <1>1, <1>2, <1>3, HeadTail

LEMMA ChainStep == TypeOK /\ QueueChain /\ [Next]_vars => QueueChain'
<1> SUFFICES ASSUME TypeOK, QueueChain, [Next]_vars PROVE QueueChain'
  OBVIOUS
<1> USE DEF QueueChain, Before
<1>1. CASE UNCHANGED channel BY <1>1 DEF channel
<1>2. ASSUME NEW t \in Threads, Send(t) PROVE QueueChain'
  <2> DEFINE m == Frame(accepted + 1)
  <2>1. m \in Message /\ m.kind = "frame" /\ m.n = accepted + 1
    BY DEF Message, Frame, TypeOK
  <2>2. queue' = Append(queue, m) /\ accepted' = accepted + 1 /\ taken' = taken
    BY <1>2 DEF Send
  <2>3. Len(queue) \in Nat BY DEF TypeOK
  <2> HIDE DEF m
  <2> QED BY <2>1, <2>2, <2>3, AppendMessage
<1>3. ASSUME NEW t \in Threads, SendFlush(t) PROVE QueueChain'
  <2> DEFINE m == Flush(t, accepted)
  <2>1. m \in Message /\ m.kind = "flush" /\ m.n = accepted
    BY DEF Message, Flush, TypeOK
  <2>2. queue' = Append(queue, m) /\ accepted' = accepted /\ taken' = taken
    BY <1>3 DEF SendFlush
  <2>3. Len(queue) \in Nat BY DEF TypeOK
  <2> HIDE DEF m
  <2> QED BY <2>1, <2>2, <2>3, AppendMessage
<1>4. ASSUME NEW from, NEW kind, Receiving(from, kind), accepted' = accepted,
             taken' = IF kind = "frame" THEN taken + 1 ELSE taken
      PROVE  QueueChain'
  <2>3. Len(queue) \in Nat /\ Len(queue) > 0 /\ queue[1].kind = kind
    BY <1>4, ReceivedMessage
  <2>4. Len(queue') = Len(queue) - 1 /\ \A i \in 1..Len(queue') : queue'[i] = queue[i + 1]
    BY <1>4, ReceivedMessage
  <2>5. queue[1].n = taken' BY <1>4, <2>3
  <2>6. accepted' = IF Len(queue') = 0 THEN taken' ELSE queue'[Len(queue')].n
    BY <1>4, <2>3, <2>4, <2>5
  <2>7. ASSUME NEW i \in 1..Len(queue')
        PROVE  queue'[i].n = IF queue'[i].kind = "frame" THEN Before(i)' + 1 ELSE Before(i)'
    <3>1. i \in Nat /\ i + 1 \in 1..Len(queue) /\ queue'[i] = queue[i + 1]
      BY <2>3, <2>4
    <3>2. queue[i + 1].n = IF queue[i + 1].kind = "frame" THEN Before(i + 1) + 1 ELSE Before(i + 1)
      BY <3>1 DEF QueueChain
    <3>3. Before(i + 1) = queue[i].n BY <3>1
    <3>4. CASE i = 1 BY <2>5, <3>1, <3>2, <3>3, <3>4
    <3>5. CASE i # 1
      <4>1. i - 1 \in 1..Len(queue') /\ (i - 1) + 1 = i BY <3>1, <3>5, <2>3, <2>4
      <4>2. queue'[i - 1] = queue[i] BY <4>1, <2>4
      <4> QED BY <3>1, <3>2, <3>3, <3>5, <4>2
    <3> QED BY <3>4, <3>5
  <2> QED BY <2>6, <2>7
<1>5. CASE TakeFrame BY <1>4, <1>5 DEF TakeFrame
<1>6. CASE RecvFlush BY <1>4, <1>6 DEF RecvFlush
<1>7. CASE DrainFlush BY <1>4, <1>7 DEF DrainFlush
<1> QED BY <1>1, <1>2, <1>3, <1>5, <1>6, <1>7, QueueSteps

-----------------------------------------------------------------------------
(* Flush requests and their acknowledgement channels.                      *)

LEMMA PendingSend ==
  ASSUME TypeOK, FlushPending, NEW t \in Threads, Send(t)
  PROVE  FlushPending'
<1>1. /\ \A i \in 1..Len(queue) : i \in 1..Len(queue') /\ queue'[i] = queue[i]
      /\ \A i \in 1..Len(queue') : queue'[i].kind = "flush" =>
           i \in 1..Len(queue) /\ queue'[i] = queue[i]
  <2>1. PICK m : m = Frame(accepted + 1) OBVIOUS
  <2>2. m \in Message /\ m.kind = "frame" BY <2>1 DEF Message, Frame, TypeOK
  <2>3. queue' = Append(queue, m) BY <2>1 DEF Send
  <2> QED BY <2>2, <2>3, MessageAppended
<1>2. UNCHANGED <<ack, mark, flushAck, taken>> BY DEF Send, worker
<1>3. QueuedFlush' BY <1>1, <1>2 DEF FlushPending, QueuedFlush
<1>4. OneFlush' BY <1>1 DEF FlushPending, OneFlush
<1>5. HeldFlush' BY <1>2 DEF FlushPending, HeldFlush
<1>6. PendingWaits'
  <2>1. pc[t] = "encoded" /\ pc' = [pc EXCEPT ![t] = "idle"] BY DEF Send
  <2>2. pc \in [Threads -> ThreadPc] BY DEF TypeOK
  <2> QED BY <1>2, <2>1, <2>2 DEF FlushPending, PendingWaits
<1>7. FlushNotOrphaned' BY <1>1, <1>2 DEF FlushPending, FlushNotOrphaned
<1> QED BY <1>3, <1>4, <1>5, <1>6, <1>7 DEF FlushPending

LEMMA PendingThread ==
  ASSUME TypeOK, FlushPending, NEW t \in Threads, Thread(t)
  PROVE  FlushPending'
<1> USE SinkAssumption DEF FlushPending, QueuedFlush, OneFlush, HeldFlush, PendingWaits,
    FlushNotOrphaned,
    TypeOK, channel, worker
<1>1. CASE Checkout(t) BY <1>1 DEF Checkout
<1>2. CASE Send(t) BY <1>2, PendingSend
<1>3. CASE Reject(t) BY <1>3 DEF Reject
<1>4. CASE CheckinRejected(t) BY <1>4 DEF CheckinRejected
<1>5. CASE BeginFlush(t) BY <1>5, ZenonT(30) DEF BeginFlush
<1>6. CASE SendFlush(t)
  <2> DEFINE m == Flush(t, accepted)
  <2>1. m \in Message /\ m.kind = "flush" /\ m.by = t /\ m.n = accepted
    BY DEF Message, Flush
  <2>2. queue' = Append(queue, m) BY <1>6 DEF SendFlush
  <2> HIDE DEF m
  <2>3. /\ Len(queue) \in Nat /\ Len(queue') = Len(queue) + 1
        /\ \A i \in 1..Len(queue) : queue'[i] = queue[i]
        /\ queue'[Len(queue) + 1] = m
    BY <2>1, <2>2, MessageAppended
  <2>4. ack[t] # "pending" BY <1>6 DEF SendFlush
  <2>5. flushAck # t
    BY <2>4
  <2>6. \A i \in 1..Len(queue) : queue[i].kind = "flush" => queue[i].by # t
    BY <2>4
  <2>7. /\ ack' = [ack EXCEPT ![t] = "pending"]
        /\ mark' = [mark EXCEPT ![t] = accepted]
        /\ pc' = [pc EXCEPT ![t] = "waiting"]
        /\ UNCHANGED <<flushAck, taken>>
    BY <1>6 DEF SendFlush
  <2> USE <2>1, <2>3, <2>7
  <2>13. \A i \in 1..Len(queue') :
          \/ i \in 1..Len(queue) /\ queue'[i] = queue[i]
          \/ i = Len(queue) + 1 /\ queue'[i] = m
    BY SMTT(20)
  <2>8. QueuedFlush'
    <3> SUFFICES ASSUME NEW i \in 1..Len(queue'), queue'[i].kind = "flush"
                 PROVE  /\ ack'[queue'[i].by] = "pending"
                        /\ mark'[queue'[i].by] = queue'[i].n
                        /\ flushAck' # queue'[i].by
      OBVIOUS
    <3>1. CASE i \in 1..Len(queue) /\ queue'[i] = queue[i]
      <4>1. queue[i].by \in Threads /\ queue[i].by # t
        BY <3>1, <2>6 DEF Message
      <4> QED BY <3>1, <4>1
    <3>2. CASE i = Len(queue) + 1 /\ queue'[i] = m
      BY <3>2, <2>5
    <3> QED BY <2>13, <3>1, <3>2
  <2>9. OneFlush'
    <3> SUFFICES ASSUME NEW i \in 1..Len(queue'), NEW j \in 1..Len(queue'),
                        queue'[i].kind = "flush", queue'[j].kind = "flush",
                        queue'[i].by = queue'[j].by
                 PROVE  i = j
      BY DEF OneFlush
    <3> DEFINE Old(k) == k \in 1..Len(queue) /\ queue'[k] = queue[k]
               Last(k) == k = Len(queue) + 1 /\ queue'[k] = m
    <3>1. CASE Old(i) /\ Old(j) BY <3>1, SMTT(20) DEF OneFlush
    <3>2. CASE Old(i) /\ Last(j) BY <3>2, <2>6
    <3>3. CASE Last(i) /\ Old(j) BY <3>3, <2>6
    <3>4. CASE Last(i) /\ Last(j) BY <3>4
    <3> QED BY <2>13, <3>1, <3>2, <3>3, <3>4
  <2>10. HeldFlush' BY <2>5
  <2>11. PendingWaits' OBVIOUS
  <2>12. FlushNotOrphaned'
    <3> SUFFICES ASSUME NEW u \in Threads, ack'[u] = "pending", flushAck' # u
                 PROVE  \E i \in 1..Len(queue') : queue'[i].kind = "flush" /\ queue'[i].by = u
      OBVIOUS
    <3>1. CASE u = t
      <4>1. Len(queue) + 1 \in 1..Len(queue') OBVIOUS
      <4> QED BY <3>1, <4>1
    <3>2. CASE u # t
      <4>1. PICK i \in 1..Len(queue) : queue[i].kind = "flush" /\ queue[i].by = u
        BY <3>2
      <4>2. i \in 1..Len(queue') /\ queue'[i] = queue[i] OBVIOUS
      <4> QED BY <4>1, <4>2
    <3> QED BY <3>1, <3>2
  <2> QED BY <2>8, <2>9, <2>10, <2>11, <2>12
<1>7. CASE FlushReturn(t) BY <1>7 DEF FlushReturn
<1>8. CASE DropSender(t) BY <1>8 DEF DropSender
<1> QED
  BY <1>1, <1>2, <1>3, <1>4, <1>5, <1>6, <1>7, <1>8 DEF Thread

(* The flushes behind a received message are as they were.                 *)
LEMMA FlushesBehind ==
  ASSUME TypeOK, FlushPending, NEW from, NEW kind, Receiving(from, kind)
  PROVE  /\ \A i \in 1..Len(queue') : queue'[i].kind = "flush" =>
              /\ ack[queue'[i].by] = "pending"
              /\ mark[queue'[i].by] = queue'[i].n
              /\ flushAck # queue'[i].by
         /\ \A i, j \in 1..Len(queue') :
              (queue'[i].kind = "flush" /\ queue'[j].kind = "flush" /\ queue'[i].by = queue'[j].by)
                => i = j
         /\ \A t \in Threads :
              (\E i \in 1..Len(queue) : queue[i].kind = "flush" /\ queue[i].by = t) =>
                \/ queue[1].kind = "flush" /\ queue[1].by = t
                \/ \E i \in 1..Len(queue') : queue'[i].kind = "flush" /\ queue'[i].by = t
<1>1. /\ Len(queue) \in Nat /\ Len(queue) > 0 /\ Len(queue') = Len(queue) - 1
      /\ \A i \in 1..Len(queue') : queue'[i] = queue[i + 1]
  BY ReceivedMessage
<1>2. \A i \in 1..Len(queue') : i + 1 \in 1..Len(queue) /\ queue'[i] = queue[i + 1]
  BY <1>1
<1>3. ASSUME NEW i \in 1..Len(queue'), NEW j \in 1..Len(queue'),
             queue'[i].kind = "flush", queue'[j].kind = "flush", queue'[i].by = queue'[j].by
      PROVE  i = j
  <2>1. i + 1 = j + 1 BY <1>2, <1>3 DEF FlushPending, OneFlush
  <2> QED BY <1>1, <2>1
<1>4. ASSUME NEW t \in Threads, NEW i \in 1..Len(queue),
             queue[i].kind = "flush", queue[i].by = t
      PROVE  \/ queue[1].kind = "flush" /\ queue[1].by = t
             \/ \E j \in 1..Len(queue') : queue'[j].kind = "flush" /\ queue'[j].by = t
  <2>1. CASE i = 1 BY <1>4, <2>1
  <2>2. CASE i # 1
    <3>1. i - 1 \in 1..Len(queue') /\ (i - 1) + 1 = i BY <1>1, <2>2
    <3>2. queue'[i - 1] = queue[i] BY <1>1, <3>1
    <3> QED BY <1>4, <3>1, <3>2
  <2> QED BY <2>1, <2>2
<1> QED BY <1>2, <1>3, <1>4 DEF FlushPending, QueuedFlush

(* A received flush was the only one of its thread; it covers what was     *)
(* taken.                                                                  *)
LEMMA ReceivedFlush ==
  ASSUME TypeOK, QueueChain, FlushPending, NEW from, Receiving(from, "flush")
  PROVE  LET t == Head(queue).by
         IN /\ t \in Threads /\ ack[t] = "pending" /\ mark[t] = taken /\ flushAck # t
            /\ \A i \in 1..Len(queue') : queue'[i].kind = "flush" => queue'[i].by # t
<1> DEFINE t == Head(queue).by
<1>1. /\ Len(queue) \in Nat /\ Len(queue) > 0 /\ queue[1] \in Message
      /\ queue[1].kind = "flush" /\ Head(queue) = queue[1]
      /\ Len(queue') = Len(queue) - 1
      /\ \A i \in 1..Len(queue') : queue'[i] = queue[i + 1]
  BY ReceivedMessage
<1>2. t \in Threads BY <1>1 DEF Message
<1>3. 1 \in 1..Len(queue) BY <1>1
<1>4. ack[t] = "pending" /\ mark[t] = queue[1].n /\ flushAck # t
  BY <1>1, <1>3 DEF FlushPending, QueuedFlush
<1>5. queue[1].n = taken BY <1>1, <1>3 DEF QueueChain, Before
<1>6. ASSUME NEW i \in 1..Len(queue'), queue'[i].kind = "flush"
      PROVE  queue'[i].by # t
  <2>1. i + 1 \in 1..Len(queue) /\ i + 1 # 1 /\ queue'[i] = queue[i + 1]
    BY <1>1
  <2> QED BY <1>1, <1>3, <1>6, <2>1 DEF FlushPending, OneFlush
<1> QED BY <1>2, <1>4, <1>5, <1>6

LEMMA PendingWorker ==
  ASSUME TypeOK, QueueChain, WorkerState, FlushPending, Worker
  PROVE  FlushPending'
<1>1. ASSUME UNCHANGED <<queue, taken, ack, mark, flushAck, pc>> PROVE FlushPending'
  BY <1>1 DEF FlushPending, QueuedFlush, OneFlush, HeldFlush, PendingWaits, FlushNotOrphaned
<1>2. CASE TakeFrame
  <2>1. PICK from \in {"recv", "drain"} : Receiving(from, "frame")
    BY <1>2 DEF TakeFrame
  <2>2. queue[1].kind = "frame" BY <2>1, ReceivedMessage
  <2>3. taken' = taken + 1 /\ UNCHANGED <<ack, mark, flushAck, pc>>
    BY <1>2 DEF TakeFrame, threads
  <2>4. flushAck # NoThread => mark[flushAck] \in Nat
    BY DEF TypeOK
  <2>5. QueuedFlush' /\ OneFlush'
    BY <2>1, <2>3, FlushesBehind DEF QueuedFlush, OneFlush
  <2>6. HeldFlush' /\ PendingWaits'
    BY <2>3, <2>4 DEF FlushPending, HeldFlush, PendingWaits, TypeOK
  <2>7. FlushNotOrphaned'
    BY <2>1, <2>2, <2>3, FlushesBehind DEF FlushPending, FlushNotOrphaned
  <2> QED BY <2>5, <2>6, <2>7 DEF FlushPending
<1>3. CASE RecvFlush
  <2>1. Receiving("recv", "flush") /\ flushAck = NoThread
    BY <1>3 DEF RecvFlush, Receiving, WorkerState
  <2>2. flushAck' = Head(queue).by /\ UNCHANGED <<taken, ack, mark, pc>>
    BY <1>3 DEF RecvFlush, threads
  <2>3. Head(queue) = queue[1] BY <2>1, ReceivedMessage
  <2> DEFINE t == Head(queue).by
  <2>4. /\ t \in Threads /\ ack[t] = "pending" /\ mark[t] = taken
        /\ \A i \in 1..Len(queue') : queue'[i].kind = "flush" => queue'[i].by # t
    BY <2>1, ReceivedFlush
  <2>5. QueuedFlush' /\ OneFlush'
    BY <2>1, <2>2, <2>4, FlushesBehind DEF QueuedFlush, OneFlush
  <2>6. HeldFlush' /\ PendingWaits'
    BY <2>2, <2>4 DEF FlushPending, HeldFlush, PendingWaits, TypeOK
  <2>7. FlushNotOrphaned'
    <3> SUFFICES ASSUME NEW u \in Threads, ack[u] = "pending", t # u
                 PROVE  \E i \in 1..Len(queue') : queue'[i].kind = "flush" /\ queue'[i].by = u
      BY <2>2 DEF FlushNotOrphaned
    <3>1. \E i \in 1..Len(queue) : queue[i].kind = "flush" /\ queue[i].by = u
      BY <2>1, SinkAssumption DEF FlushPending, FlushNotOrphaned
    <3> QED BY <2>1, <2>3, <3>1, FlushesBehind
  <2> QED BY <2>5, <2>6, <2>7 DEF FlushPending
<1>4. CASE DrainFlush
  <2>1. Receiving("drain", "flush") BY <1>4 DEF DrainFlush
  <2>2. flushAck' = Head(queue).by /\ ack' = Superseded /\ UNCHANGED <<taken, mark, pc>>
    BY <1>4 DEF DrainFlush
  <2>3. Head(queue) = queue[1] BY <2>1, ReceivedMessage
  <2>4. \A t \in Threads : ack'[t] = IF t = flushAck THEN "closed" ELSE ack[t]
    BY <2>2 DEF Superseded
  <2>5. \A i \in 1..Len(queue') : queue'[i].kind = "flush" => queue'[i].by \in Threads
    <3>1. queue' \in Seq(Message) BY <2>1, HeadTail DEF Receiving
    <3> QED BY <3>1 DEF Message
  <2> DEFINE t == Head(queue).by
  <2>6. /\ t \in Threads /\ ack[t] = "pending" /\ mark[t] = taken /\ t # flushAck
        /\ \A i \in 1..Len(queue') : queue'[i].kind = "flush" => queue'[i].by # t
    BY <2>1, ReceivedFlush
  <2>7. QueuedFlush' /\ OneFlush'
    BY <2>1, <2>2, <2>4, <2>5, <2>6, FlushesBehind DEF QueuedFlush, OneFlush
  <2>8. HeldFlush' /\ PendingWaits'
    BY <2>2, <2>4, <2>6 DEF FlushPending, HeldFlush, PendingWaits, TypeOK
  <2>9. FlushNotOrphaned'
    <3> SUFFICES ASSUME NEW u \in Threads, ack'[u] = "pending", t # u
                 PROVE  \E i \in 1..Len(queue') : queue'[i].kind = "flush" /\ queue'[i].by = u
      BY <2>2 DEF FlushNotOrphaned
    <3>1. \E i \in 1..Len(queue) : queue[i].kind = "flush" /\ queue[i].by = u
      BY <2>4 DEF FlushPending, FlushNotOrphaned
    <3> QED BY <2>1, <2>3, <3>1, FlushesBehind
  <2> QED BY <2>7, <2>8, <2>9 DEF FlushPending
<1>5. CASE DrainClosed
  <2>1. /\ queue = <<>> /\ ack' = Superseded /\ flushAck' = NoThread
        /\ UNCHANGED <<queue, taken, mark, pc>>
    BY <1>5 DEF DrainClosed, channel
  <2>2. Len(queue) = 0 BY <2>1, EmptySeq
  <2>3. \A t \in Threads : ack'[t] = IF t = flushAck THEN "closed" ELSE ack[t]
    BY <2>1 DEF Superseded
  <2> QED
    BY <2>1, <2>2, <2>3
    DEF FlushPending, QueuedFlush, OneFlush, HeldFlush, PendingWaits, FlushNotOrphaned
<1>6. CASE SendAck
  <2>1. flushAck \in Threads BY <1>6 DEF SendAck, WorkerState, TypeOK
  <2>2. /\ ack' = [ack EXCEPT ![flushAck] = result] /\ flushAck' = NoThread
        /\ UNCHANGED <<queue, taken, mark, pc>>
    BY <1>6 DEF SendAck, channel
  <2>3. result # "pending" BY DEF TypeOK
  <2>4. \A i \in 1..Len(queue) : queue[i].kind = "flush" => queue[i].by \in Threads
    BY DEF TypeOK, Message
  <2> QED
    BY <2>1, <2>2, <2>3, <2>4, SinkAssumption
    DEF FlushPending, QueuedFlush, OneFlush, HeldFlush, PendingWaits, FlushNotOrphaned, TypeOK
<1>7. CASE WriteBuffered \/ WriteSpill \/ WriteDirect \/ WriteFails \/ CheckinWritten
  BY <1>1, <1>7 DEF WriteBuffered, WriteSpill, WriteDirect, WriteOk, WriteFails,
     CheckinWritten, channel, threads
<1>8. CASE DrainEmpty \/ RecvClosed \/ Publish \/ FlushWriter
  BY <1>1, <1>8 DEF DrainEmpty, RecvClosed, Publish, FlushWriter, channel, threads
<1>9. CASE ExitPublish \/ ExitFlush \/ DropWriter
  BY <1>1, <1>9 DEF ExitPublish, ExitFlush, DropWriter, channel, threads
<1> QED
  BY <1>2, <1>3, <1>4, <1>5, <1>6, <1>7, <1>8, <1>9 DEF Worker

-----------------------------------------------------------------------------
(* The worker's locals.                                                    *)

(* A thread whose sender is dropped does nothing more; one that acts is    *)
(* not gone, so the worker has not left its loop.                          *)
LEMMA WorkerStateThread ==
  ASSUME TypeOK, WorkerState, NEW t \in Threads, Thread(t)
  PROVE  WorkerState'
<1>1. UNCHANGED <<wpc, hand, flushAck, result, unpublished, log, synced, taken>>
  BY DEF Thread, Checkout, Send, Reject, CheckinRejected, BeginFlush, SendFlush,
     FlushReturn, DropSender, channel, worker, output
<1>2. pc[t] # "gone"
  BY DEF Thread, Checkout, Send, Reject, CheckinRejected, BeginFlush, SendFlush,
     FlushReturn, DropSender
<1>3. wpc \notin {"exit", "exit_flush", "exit_drop", "done"}
  BY <1>2 DEF WorkerState
<1> QED BY <1>1, <1>3 DEF WorkerState

LEMMA WorkerStateWorker ==
  ASSUME TypeOK, QueueChain, FlushPending, WorkerState, Worker
  PROVE  WorkerState'
<1> USE DEF WorkerState, TypeOK
<1>1. CASE TakeFrame
  <2>1. PICK from \in {"recv", "drain"} : Receiving(from, "frame")
    BY <1>1 DEF TakeFrame
  <2>2. queue[1].kind = "frame" /\ Head(queue) = queue[1] /\ Len(queue) \in Nat /\ Len(queue) > 0
    BY <2>1, ReceivedMessage
  <2>3. 1 \in 1..Len(queue) BY <2>2
  <2>4. Head(queue).n = taken + 1 BY <2>2, <2>3 DEF QueueChain, Before
  <2> QED BY <1>1, <2>4 DEF TakeFrame
<1>2. CASE RecvFlush BY <1>2 DEF RecvFlush
<1>3. CASE DrainFlush BY <1>3 DEF DrainFlush
<1>4. CASE DrainEmpty BY <1>4 DEF DrainEmpty
<1>5. CASE RecvClosed BY <1>5 DEF RecvClosed, Disconnected, channel, threads
<1>6. CASE DrainClosed BY <1>6 DEF DrainClosed, Disconnected, channel
<1>7. CASE WriteBuffered \/ WriteSpill \/ WriteDirect
  BY <1>7 DEF WriteBuffered, WriteSpill, WriteDirect, WriteOk
<1>8. CASE WriteFails BY <1>8 DEF WriteFails
<1>9. CASE CheckinWritten BY <1>9 DEF CheckinWritten
<1>10. CASE Publish BY <1>10 DEF Publish, PublishWrittenFrames
<1>11. CASE FlushWriter
  BY <1>11 DEF FlushWriter, WriterFlushOk, WriterFlushFails
<1>12. CASE SendAck BY <1>12 DEF SendAck
<1>13. CASE ExitPublish \/ ExitFlush \/ DropWriter
  BY <1>13 DEF ExitPublish, ExitFlush, DropWriter, channel, threads
<1> QED
  BY <1>1, <1>2, <1>3, <1>4, <1>5, <1>6, <1>7, <1>8, <1>9, <1>10, <1>11, <1>12,
     <1>13 DEF Worker

-----------------------------------------------------------------------------
(* What became of the frames.                                              *)

(* Frames are moved by TakeFrame and by the writes only.                   *)
LEMMA FrameSteps ==
  ASSUME TypeOK, [Next]_vars
  PROVE  \/ TakeFrame \/ WriteFails
         \/ \E k : WriteOk(k) /\ k >= synced /\ UNCHANGED <<threads, counters>>
         \/ /\ UNCHANGED <<log, failed, taken>>
            /\ synced' >= synced
            /\ written_frames' + unpublished' = written_frames + unpublished
            /\ written_frames' >= written_frames
            /\ UNCHANGED <<wpc, hand>> \/ (wpc # "write" /\ wpc' # "write")
<1> USE DEF TypeOK, channel, counters, threads, worker, output
<1>1. CASE UNCHANGED vars BY <1>1 DEF vars
<1>2. CASE \E t \in Threads : Thread(t)
  BY <1>2 DEF Thread, Checkout, Send, Reject, CheckinRejected, BeginFlush,
     SendFlush, FlushReturn, DropSender
<1>3. CASE RecvFlush \/ DrainFlush \/ DrainEmpty \/ RecvClosed \/ DrainClosed
  BY <1>3, SMTT(30) DEF RecvFlush, DrainFlush, DrainEmpty, RecvClosed, DrainClosed, Receiving
<1>4. CASE WriteBuffered \/ WriteSpill \/ WriteDirect
  <2>1. PICK k \in Nat : WriteOk(k) /\ k >= synced
    BY <1>4 DEF WriteBuffered, WriteSpill, WriteDirect
  <2>2. UNCHANGED <<threads, counters>> BY <2>1 DEF WriteOk
  <2> QED BY <2>1, <2>2
<1>5. CASE CheckinWritten \/ SendAck
  BY <1>5, SMTT(20) DEF CheckinWritten, SendAck
<1>6. CASE Publish \/ ExitPublish
  BY <1>6 DEF Publish, ExitPublish, PublishWrittenFrames
<1>7. CASE FlushWriter \/ ExitFlush
  BY <1>7, SMTT(20) DEF FlushWriter, ExitFlush, WriterFlushOk, WriterFlushFails
<1>8. CASE DropWriter BY <1>8 DEF DropWriter
<1> QED
  BY <1>1, <1>2, <1>3, <1>4, <1>5, <1>6, <1>7, <1>8 DEF Next, Worker, Terminated

LEMMA WrittenLog ==
  ASSUME TypeOK, NEW k, WriteOk(k)
  PROVE  /\ Len(log') = Len(log) + 1
         /\ \A i \in 1..Len(log) : log'[i] = log[i]
         /\ log'[Len(log) + 1] = hand
BY AppendProperties DEF TypeOK, WriteOk

LEMMA SettledStep ==
  ASSUME TypeOK, QueueChain, WorkerState, Settled, [Next]_vars
  PROVE  Settled'
<1> USE DEF TypeOK, Settled, FramesInOrder
<1>1. CASE TakeFrame
  <2>1. PICK from \in {"recv", "drain"} : Receiving(from, "frame")
    BY <1>1 DEF TakeFrame
  <2>2. /\ queue[1].kind = "frame" /\ Head(queue) = queue[1]
        /\ Len(queue) \in Nat /\ 1 \in 1..Len(queue)
    BY <2>1, ReceivedMessage
  <2>3. Head(queue).n = taken + 1 BY <2>2 DEF QueueChain, Before
  <2>4. /\ taken' = taken + 1 /\ hand' = taken + 1 /\ wpc # "write" /\ wpc' = "write"
        /\ UNCHANGED <<log, failed>>
    BY <1>1, <2>1, <2>3 DEF TakeFrame, Receiving, output
  <2> QED BY <2>4, SMTT(20)
<1>2. CASE \E k : WriteOk(k)
  <2>1. PICK k : WriteOk(k) BY <1>2
  <2>2. /\ wpc = "write" /\ wpc' = "checkin" /\ hand = taken
        /\ UNCHANGED <<failed, taken, hand>>
    BY <2>1 DEF WriteOk, WorkerState, channel
  <2>3. /\ Len(log') = Len(log) + 1 /\ \A i \in 1..Len(log) : log'[i] = log[i]
        /\ log'[Len(log) + 1] = hand
    BY <2>1, WrittenLog
  <2>4. Len(log) \in Nat OBVIOUS
  <2>5. \A i \in 1..Len(log') : i \in 1..Len(log) \/ i = Len(log) + 1
    BY <2>3, <2>4
  <2>6. \A i \in 1..Len(log) : log[i] \in Nat /\ log[i] < hand /\ log[i] \notin failed
    BY <2>2
  <2>7. hand \in Nat /\ hand <= taken /\ hand \notin failed BY <2>2
  <2>8. ASSUME NEW i \in 1..Len(log') PROVE log'[i] <= taken' /\ log'[i] \notin failed'
    <3>1. CASE i \in 1..Len(log) BY <2>2, <2>3, <2>6, <2>7, <3>1
    <3>2. CASE i = Len(log) + 1 BY <2>2, <2>3, <2>7, <3>2
    <3> QED BY <2>5, <3>1, <3>2
  <2>9. ASSUME NEW i \in 1..Len(log'), NEW j \in 1..Len(log'), i < j
        PROVE  log'[i] < log'[j]
    <3>1. i \in 1..Len(log) BY <2>3, <2>4, <2>9
    <3>2. CASE j \in 1..Len(log) BY <2>3, <2>9, <3>1, <3>2
    <3>3. CASE j = Len(log) + 1 BY <2>3, <2>6, <3>1, <3>3
    <3> QED BY <2>5, <3>2, <3>3
  <2>10. ASSUME NEW n \in 1..taken', n \notin failed'
        PROVE  \E i \in 1..Len(log') : log'[i] = n
    <3>1. CASE n = hand
      <4>1. Len(log) + 1 \in 1..Len(log') BY <2>3, <2>4
      <4> QED BY <3>1, <4>1, <2>3
    <3>2. CASE n # hand
      <4>1. PICK i \in 1..Len(log) : log[i] = n BY <2>2, <2>10, <3>2
      <4>2. i \in 1..Len(log') BY <2>3, <2>4
      <4> QED BY <2>3, <4>1, <4>2
    <3> QED BY <3>1, <3>2
  <2> QED BY <2>2, <2>8, <2>9, <2>10
<1>3. CASE WriteFails
  <2>1. /\ wpc = "write" /\ wpc' = "checkin" /\ hand = taken
        /\ failed' = failed \union {hand} /\ UNCHANGED <<log, taken, hand>>
    BY <1>3 DEF WriteFails, WorkerState, channel
  <2> QED BY <2>1
<1>4. CASE /\ UNCHANGED <<log, failed, taken>>
           /\ UNCHANGED <<wpc, hand>> \/ (wpc # "write" /\ wpc' # "write")
  BY <1>4
<1> QED BY <1>1, <1>2, <1>3, <1>4, FrameSteps

LEMMA CountedStep ==
  ASSUME TypeOK, WorkerState, Settled, Counted, [Next]_vars
  PROVE  Counted'
<1> USE DEF TypeOK, Counted
<1>1. Cardinality(failed) \in Nat BY FS_CardinalityType
<1>2. CASE TakeFrame
  <2>1. /\ taken' = taken + 1 /\ wpc # "write" /\ wpc' = "write"
        /\ UNCHANGED <<log, failed, written_frames, unpublished>>
    BY <1>2 DEF TakeFrame, Receiving, output, counters
  <2> QED BY <1>1, <2>1
<1>3. CASE \E k : WriteOk(k) /\ UNCHANGED counters
  <2>1. PICK k : WriteOk(k) /\ UNCHANGED counters BY <1>3
  <2>2. /\ wpc = "write" /\ wpc' = "checkin" /\ unpublished' = unpublished + 1
        /\ UNCHANGED <<failed, taken, written_frames>>
    BY <2>1 DEF WriteOk, channel, counters
  <2>3. Len(log') = Len(log) + 1 BY <2>1, WrittenLog
  <2>4. Len(log) \in Nat /\ Cardinality(failed') = Cardinality(failed) BY <2>2
  <2>5. taken' = Len(log') + Cardinality(failed') BY <1>1, <2>2, <2>3, <2>4
  <2>6. Len(log') = written_frames' + unpublished' BY <2>2, <2>3, <2>4
  <2>7. taken' = Len(log') + Cardinality(failed') + 0 BY <1>1, <2>3, <2>4, <2>5
  <2> QED BY <2>2, <2>6, <2>7
<1>4. CASE WriteFails
  <2>1. /\ wpc = "write" /\ wpc' = "checkin" /\ failed' = failed \union {hand}
        /\ UNCHANGED <<log, taken, written_frames, unpublished>>
    BY <1>4 DEF WriteFails, channel
  <2>2. hand \notin failed BY <2>1 DEF Settled
  <2>3. Cardinality(failed') = Cardinality(failed) + 1
    BY <2>1, <2>2, FS_AddElement
  <2>4. Len(log) \in Nat OBVIOUS
  <2> QED BY <1>1, <2>1, <2>3, <2>4
<1>5. CASE /\ UNCHANGED <<log, failed, taken>>
           /\ written_frames' + unpublished' = written_frames + unpublished
           /\ UNCHANGED <<wpc, hand>> \/ (wpc # "write" /\ wpc' # "write")
  BY <1>5
<1> QED BY <1>2, <1>3, <1>4, <1>5, FrameSteps

-----------------------------------------------------------------------------
(* Acknowledgements.                                                       *)

(* The outcome of a flush changes when it is sent, when its channel is     *)
(* dropped and when the worker answers it.                                 *)
LEMMA AckSteps ==
  ASSUME TypeOK, WorkerState, [Next]_vars, NEW u \in Threads
  PROVE  \/ ack'[u] = ack[u] /\ mark'[u] = mark[u]
         \/ ack'[u] \in {"pending", "closed"}
         \/ SendAck /\ u = flushAck /\ ack'[u] = result /\ mark'[u] = mark[u]
<1> USE DEF TypeOK, channel, threads
<1>1. CASE UNCHANGED vars BY <1>1 DEF vars
<1>2. CASE \E t \in Threads : Thread(t)
  <2>1. PICK t \in Threads : Thread(t) BY <1>2
  <2>2. CASE SendFlush(t) BY <2>2 DEF SendFlush
  <2>3. CASE ~SendFlush(t)
    BY <2>1, <2>3 DEF Thread, Checkout, Send, Reject, CheckinRejected, BeginFlush,
       FlushReturn, DropSender
  <2> QED BY <2>2, <2>3
<1>3. CASE DrainFlush \/ DrainClosed
  <2>1. ack'[u] = (IF u = flushAck THEN "closed" ELSE ack[u]) /\ mark' = mark
    BY <1>3 DEF DrainFlush, DrainClosed, Superseded
  <2> QED BY <2>1
<1>4. CASE SendAck BY <1>4 DEF SendAck
<1>5. CASE TakeFrame \/ RecvFlush \/ DrainEmpty \/ RecvClosed
  BY <1>5 DEF TakeFrame, RecvFlush, DrainEmpty, RecvClosed
<1>6. CASE WriteBuffered \/ WriteSpill \/ WriteDirect \/ WriteFails \/ CheckinWritten
  BY <1>6 DEF WriteBuffered, WriteSpill, WriteDirect, WriteOk, WriteFails, CheckinWritten
<1>7. CASE Publish \/ FlushWriter \/ ExitPublish \/ ExitFlush \/ DropWriter
  BY <1>7 DEF Publish, FlushWriter, ExitPublish, ExitFlush, DropWriter
<1> QED
  BY <1>1, <1>2, <1>3, <1>4, <1>5, <1>6, <1>7 DEF Next, Worker, Terminated

(* What was delivered stays delivered, what was counted stays counted.     *)
LEMMA OnlyMore ==
  ASSUME TypeOK, WorkerState, Settled, [Next]_vars
  PROVE  /\ Delivered \subseteq Delivered' /\ failed \subseteq failed'
         /\ written_frames + Cardinality(failed) \in Nat
         /\ written_frames' + Cardinality(failed') \in Nat
         /\ written_frames + Cardinality(failed) <= written_frames' + Cardinality(failed')
<1> USE DEF TypeOK
<1>1. Cardinality(failed) \in Nat BY FS_CardinalityType
<1>2. CASE TakeFrame
  <2>1. UNCHANGED <<log, synced, failed, written_frames>>
    BY <1>2 DEF TakeFrame, output, counters
  <2>2. Delivered' = Delivered BY <2>1 DEF Delivered
  <2>3. written_frames \in Nat OBVIOUS
  <2> QED BY <1>1, <2>1, <2>2, <2>3
<1>3. CASE \E k : WriteOk(k) /\ k >= synced /\ UNCHANGED <<threads, counters>>
  <2>1. PICK k : WriteOk(k) /\ k >= synced /\ UNCHANGED <<threads, counters>> BY <1>3
  <2>2. synced' >= synced /\ failed' = failed /\ written_frames' = written_frames
    BY <2>1 DEF WriteOk, counters
  <2>3. \A i \in 1..Len(log) : log'[i] = log[i] BY <2>1, WrittenLog
  <2>4. synced' \in Nat /\ synced \in Nat /\ synced <= Len(log) /\ Len(log) \in Nat
    BY TypeStep
  <2>5. \A i \in 1..synced : i \in 1..synced' /\ log'[i] = log[i]
    <3>1. PICK n, l, k2 : n = synced /\ l = Len(log) /\ k2 = synced' OBVIOUS
    <3>2. \A i \in 1..n : i \in 1..l /\ i \in 1..k2
      <4>1. n \in Nat /\ l \in Nat /\ k2 \in Nat /\ n <= l /\ n <= k2
        BY <2>2, <2>4, <3>1
      <4> HIDE <3>1
      <4> QED BY <4>1
    <3> QED BY <2>3, <3>1, <3>2
  <2>6. Delivered \subseteq Delivered'
    <3> SUFFICES ASSUME NEW i \in 1..synced PROVE log[i] \in Delivered'
      BY DEF Delivered
    <3>1. i \in 1..synced' /\ log'[i] = log[i] BY <2>5
    <3> QED BY <3>1 DEF Delivered
  <2> QED BY <1>1, <2>2, <2>6
<1>4. CASE WriteFails
  <2>1. /\ synced' \in synced..Len(log) /\ log' = log /\ failed' = failed \union {hand}
        /\ written_frames' = written_frames /\ wpc = "write"
    BY <1>4 DEF WriteFails
  <2>2. Cardinality(failed') = Cardinality(failed) + 1
    BY <2>1, FS_AddElement DEF Settled
  <2>3. Delivered \subseteq Delivered' BY <2>1 DEF Delivered
  <2> QED BY <1>1, <2>1, <2>2, <2>3
<1>5. CASE /\ UNCHANGED <<log, failed, taken>> /\ synced' >= synced
           /\ written_frames' >= written_frames
  <2>1. synced' \in Nat /\ written_frames' \in Nat BY TypeStep
  <2>2. Delivered \subseteq Delivered' BY <1>5, <2>1 DEF Delivered
  <2> QED BY <1>1, <1>5, <2>1, <2>2
<1> QED BY <1>2, <1>3, <1>4, <1>5, FrameSteps

LEMMA CoverStep ==
  ASSUME TypeOK, FlushPending, WorkerState, Settled, FlushCoversQueue, [Next]_vars
  PROVE  FlushCoversQueue'
<1> SUFFICES ASSUME NEW u \in Threads, ack'[u] = "ok",
                    NEW n \in 1..mark'[u]
             PROVE  n \in Delivered' \union failed'
  BY DEF FlushCoversQueue
<1>1. CASE ack'[u] = ack[u] /\ mark'[u] = mark[u]
  <2>1. n \in Delivered \union failed BY <1>1 DEF FlushCoversQueue
  <2> QED BY <2>1, OnlyMore
<1>2. CASE SendAck /\ u = flushAck /\ ack'[u] = result /\ mark'[u] = mark[u]
  <2>1. wpc = "ack" /\ synced = Len(log) BY <1>2 DEF SendAck, WorkerState
  <2>2. mark[u] <= taken BY <1>2, SinkAssumption DEF FlushPending, HeldFlush
  <2>3. n \in 1..taken BY <1>2, <2>2 DEF TypeOK
  <2>4. n \in Delivered \union failed
    BY <2>1, <2>3 DEF Settled, Delivered
  <2> QED BY <2>4, OnlyMore
<1> QED BY <1>1, <1>2, AckSteps

LEMMA PublishStep ==
  ASSUME TypeOK, FlushPending, WorkerState, Settled, Counted,
         FlushPublishesCounters, [Next]_vars
  PROVE  FlushPublishesCounters'
<1> SUFFICES ASSUME NEW u \in Threads, ack'[u] \in {"ok", "err"}
             PROVE  mark'[u] <= written_frames' + Cardinality(failed')
  BY DEF FlushPublishesCounters
<1>1. mark[u] \in Nat BY DEF TypeOK
<1>2. CASE ack'[u] = ack[u] /\ mark'[u] = mark[u]
  <2>1. mark[u] <= written_frames + Cardinality(failed)
    BY <1>2 DEF FlushPublishesCounters
  <2> QED BY <1>1, <1>2, <2>1, OnlyMore
<1>3. CASE SendAck /\ u = flushAck /\ ack'[u] = result /\ mark'[u] = mark[u]
  <2>1. wpc = "ack" /\ unpublished = 0 BY <1>3 DEF SendAck, WorkerState
  <2>2. mark[u] <= taken BY <1>3, SinkAssumption DEF FlushPending, HeldFlush
  <2>3. Cardinality(failed) \in Nat BY FS_CardinalityType DEF TypeOK
  <2>4. Len(log) = written_frames BY <2>1 DEF Counted, TypeOK
  <2>5. taken = written_frames + Cardinality(failed)
    BY <2>1, <2>3, <2>4 DEF Counted, TypeOK
  <2> QED BY <1>1, <1>3, <2>2, <2>5, OnlyMore
<1> QED BY <1>2, <1>3, AckSteps

-----------------------------------------------------------------------------
(* The invariant and what it gives.                                        *)

LEMMA InitIInv == Init => IInv
<1> SUFFICES ASSUME Init PROVE IInv
  OBVIOUS
<1>1. TypeOK BY TypeInit
<1>2. Len(queue) = 0 /\ Len(log) = 0 /\ Cardinality(failed) = 0
  BY FS_EmptySet DEF Init
<1>3. QueueChain BY <1>2 DEF Init, QueueChain
<1>4. FlushPending
  BY <1>2 DEF Init, FlushPending, QueuedFlush, OneFlush, HeldFlush, PendingWaits,
     FlushNotOrphaned
<1>5. WorkerState BY DEF Init, WorkerState
<1>6. Settled BY <1>2 DEF Init, Settled, FramesInOrder
<1>7. Counted BY <1>2 DEF Init, Counted
<1>8. FlushCoversQueue /\ FlushPublishesCounters
  BY DEF Init, FlushCoversQueue, FlushPublishesCounters
<1> QED BY <1>1, <1>3, <1>4, <1>5, <1>6, <1>7, <1>8 DEF IInv

LEMMA PendingStep ==
  ASSUME TypeOK, QueueChain, WorkerState, FlushPending, [Next]_vars
  PROVE  FlushPending'
<1>1. CASE UNCHANGED vars
  BY <1>1 DEF vars, channel, threads, worker, FlushPending, QueuedFlush, OneFlush,
     HeldFlush, PendingWaits, FlushNotOrphaned
<1> QED BY <1>1, PendingThread, PendingWorker DEF Next, Terminated

LEMMA WorkerStateStep ==
  ASSUME TypeOK, QueueChain, FlushPending, WorkerState, [Next]_vars
  PROVE  WorkerState'
<1>1. CASE UNCHANGED vars
  BY <1>1 DEF vars, channel, threads, worker, output, WorkerState
<1> QED BY <1>1, WorkerStateThread, WorkerStateWorker DEF Next, Terminated

LEMMA IInvStep == IInv /\ [Next]_vars => IInv'
<1> SUFFICES ASSUME IInv, [Next]_vars PROVE IInv'
  OBVIOUS
<1> USE DEF IInv
<1>1. TypeOK' BY TypeStep
<1>2. QueueChain' BY ChainStep
<1>3. FlushPending' BY PendingStep
<1>4. WorkerState' BY WorkerStateStep
<1>5. Settled' BY SettledStep
<1>6. Counted' BY CountedStep
<1>7. FlushCoversQueue' BY CoverStep
<1>8. FlushPublishesCounters' BY PublishStep
<1> QED BY <1>1, <1>2, <1>3, <1>4, <1>5, <1>6, <1>7, <1>8

LEMMA Invariance == Spec => []IInv
BY InitIInv, IInvStep, PTL DEF Spec

(* A flush answered Ok covers every frame accepted before it, by whatever  *)
(* thread (Handle::flush against the drain loop of run_worker).            *)
THEOREM FlushCovers == Spec => []FlushCoversQueue
<1>1. IInv => FlushCoversQueue BY DEF IInv
<1> QED BY <1>1, Invariance, PTL

(* An answered flush finds the counters published (run_worker publishes    *)
(* before it flushes and answers).                                         *)
THEOREM FlushPublishes == Spec => []FlushPublishesCounters
<1>1. IInv => FlushPublishesCounters BY DEF IInv
<1> QED BY <1>1, Invariance, PTL

(* The output holds accepted frames in acceptance order, none twice and    *)
(* none whose write failed (process_frame).                                *)
THEOREM OutputInOrder == Spec => []FramesInOrder
<1>1. IInv => FramesInOrder BY DEF IInv, Settled
<1> QED BY <1>1, Invariance, PTL

(* A thread blocked in Handle::flush is never forgotten: its channel is in *)
(* the queue or in the worker's hands.                                     *)
THEOREM FlushKept == Spec => []FlushNotOrphaned
<1>1. IInv => FlushNotOrphaned BY DEF IInv, FlushPending
<1> QED BY <1>1, Invariance, PTL

(* The worker leaves its loop only when every sender is gone, the channel  *)
(* is empty and nobody waits for an answer.                                *)
THEOREM WorkerLast == Spec => []WorkerExitsLast
<1>1. IInv => WorkerExitsLast
  BY DEF IInv, WorkerState, FlushPending, PendingWaits, WorkerExitsLast
<1> QED BY <1>1, Invariance, PTL

-----------------------------------------------------------------------------
(* The frames among some messages.                                         *)

FramesOf(messages) == {i \in 1..Len(messages) : messages[i].kind = "frame"}
QueuedFrames == Cardinality(FramesOf(queue))

LEMMA QueuedFramesNat ==
  ASSUME TypeOK
  PROVE  IsFiniteSet(FramesOf(queue)) /\ QueuedFrames \in Nat
<1>1. Len(queue) \in Nat BY DEF TypeOK
<1>2. IsFiniteSet(1..Len(queue)) BY <1>1, FS_Interval
<1>3. FramesOf(queue) \in SUBSET (1..Len(queue)) BY DEF FramesOf
<1>4. IsFiniteSet(FramesOf(queue)) BY <1>2, <1>3, FS_Subset
<1> QED BY <1>4, FS_CardinalityType DEF QueuedFrames

LEMMA OneMore ==
  ASSUME TypeOK, NEW m \in Message, queue' = Append(queue, m)
  PROVE  QueuedFrames' = QueuedFrames + (IF m.kind = "frame" THEN 1 ELSE 0)
<1> DEFINE n == Len(queue) + 1
<1>1. Len(queue) \in Nat BY DEF TypeOK
<1>2. /\ Len(queue') = n
      /\ \A i \in 1..Len(queue) : queue'[i] = queue[i]
      /\ queue'[n] = m
  BY AppendMessage
<1>3. FramesOf(queue') = FramesOf(queue) \union (IF m.kind = "frame" THEN {n} ELSE {})
  BY <1>1, <1>2 DEF FramesOf
<1>4. n \notin FramesOf(queue) BY <1>1 DEF FramesOf
<1>5. IsFiniteSet(FramesOf(queue)) /\ QueuedFrames \in Nat BY QueuedFramesNat
<1>6. CASE m.kind = "frame"
  <2>1. QueuedFrames' = Cardinality(FramesOf(queue) \union {n})
    BY <1>3, <1>6 DEF QueuedFrames
  <2> HIDE DEF n
  <2>2. Cardinality(FramesOf(queue) \union {n}) = QueuedFrames + 1
    BY <1>4, <1>5, FS_AddElement DEF QueuedFrames
  <2> QED BY <1>6, <2>1, <2>2
<1>7. CASE m.kind # "frame"
  <2>1. FramesOf(queue') = FramesOf(queue) BY <1>3, <1>7
  <2> QED BY <1>5, <1>7, <2>1 DEF QueuedFrames
<1> QED BY <1>6, <1>7

LEMMA OneLess ==
  ASSUME TypeOK, NEW from, NEW kind, Receiving(from, kind)
  PROVE  QueuedFrames' = QueuedFrames - (IF kind = "frame" THEN 1 ELSE 0)
<1> DEFINE S == FramesOf(queue) \ {1}
           T == FramesOf(queue')
           f == [i \in S |-> i - 1]
<1>1. /\ Len(queue) \in Nat /\ Len(queue) > 0
      /\ queue[1].kind = kind
      /\ Len(queue') = Len(queue) - 1
      /\ \A i \in 1..Len(queue') : queue'[i] = queue[i + 1]
  BY ReceivedMessage
<1>2. \A i \in S : i \in Int /\ i - 1 \in T
  <2> TAKE i \in S
  <2>1. i \in 2..Len(queue) /\ queue[i].kind = "frame" BY <1>1 DEF FramesOf
  <2>2. i - 1 \in 1..Len(queue') /\ (i - 1) + 1 = i BY <1>1, <2>1
  <2>3. queue'[i - 1] = queue[i] BY <1>1, <2>2
  <2> QED BY <2>1, <2>2, <2>3 DEF FramesOf
<1>3. f \in [S -> T] BY <1>2
<1>4. \A i, j \in S : f[i] = f[j] => i = j BY <1>2
<1>5. \A k \in T : \E i \in S : f[i] = k
  <2> TAKE k \in T
  <2>1. k \in 1..Len(queue') /\ queue'[k].kind = "frame" BY DEF FramesOf
  <2>2. k + 1 \in S BY <1>1, <2>1 DEF FramesOf
  <2>3. f[k + 1] = k BY <2>1, <2>2
  <2> QED BY <2>2, <2>3
<1>6. IsFiniteSet(FramesOf(queue)) /\ QueuedFrames \in Nat BY QueuedFramesNat
<1>7. IsFiniteSet(S) BY <1>6, FS_RemoveElement
<1>8. Cardinality(S) = IF 1 \in FramesOf(queue) THEN QueuedFrames - 1 ELSE QueuedFrames
  BY <1>6, FS_RemoveElement DEF QueuedFrames
<1>9. f \in Bijection(S, T)
  <2> HIDE DEF f, S, T
  <2>1. f \in Injection(S, T)
    BY <1>3, <1>4 DEF Injection, IsInjective
  <2>2. f \in Surjection(S, T) BY <1>3, <1>5 DEF Surjection
  <2> QED BY <2>1, <2>2 DEF Bijection
<1>10. Cardinality(T) = Cardinality(S)
  <2> HIDE DEF f, S, T
  <2> QED BY <1>7, <1>9, FS_Bijection DEF ExistsBijection
<1>11. 1 \in FramesOf(queue) <=> kind = "frame" BY <1>1 DEF FramesOf
<1> QED BY <1>6, <1>8, <1>10, <1>11 DEF QueuedFrames

-----------------------------------------------------------------------------
(* Frames are conserved.                                                   *)

(* What was accepted and not yet taken is in the channel.                  *)
QueueCount == accepted = taken + QueuedFrames

LEMMA QueueCountStep == TypeOK /\ QueueCount /\ [Next]_vars => QueueCount'
<1> SUFFICES ASSUME TypeOK, QueueCount, [Next]_vars PROVE QueueCount'
  OBVIOUS
<1> USE DEF QueueCount
<1>1. QueuedFrames \in Nat /\ accepted \in Nat /\ taken \in Nat
  BY QueuedFramesNat DEF TypeOK
<1>2. CASE UNCHANGED channel BY <1>2 DEF channel, QueuedFrames
<1>3. ASSUME NEW t \in Threads, Send(t) PROVE QueueCount'
  <2> DEFINE m == Frame(accepted + 1)
  <2>1. m \in Message /\ m.kind = "frame" BY DEF Message, Frame, TypeOK
  <2>2. queue' = Append(queue, m) /\ accepted' = accepted + 1 /\ taken' = taken
    BY <1>3 DEF Send
  <2> HIDE DEF m
  <2>3. QueuedFrames' = QueuedFrames + 1 BY <2>1, <2>2, OneMore
  <2> QED BY <1>1, <2>2, <2>3
<1>4. ASSUME NEW t \in Threads, SendFlush(t) PROVE QueueCount'
  <2> DEFINE m == Flush(t, accepted)
  <2>1. m \in Message /\ m.kind = "flush" BY DEF Message, Flush, TypeOK
  <2>2. queue' = Append(queue, m) /\ accepted' = accepted /\ taken' = taken
    BY <1>4 DEF SendFlush
  <2> HIDE DEF m
  <2>3. QueuedFrames' = QueuedFrames + 0 BY <2>1, <2>2, OneMore
  <2> QED BY <1>1, <2>2, <2>3
<1>5. ASSUME NEW from, NEW kind, Receiving(from, kind), accepted' = accepted,
             taken' = IF kind = "frame" THEN taken + 1 ELSE taken
      PROVE  QueueCount'
  <2>1. QueuedFrames' = QueuedFrames - (IF kind = "frame" THEN 1 ELSE 0)
    BY <1>5, OneLess
  <2> QED BY <1>1, <1>5, <2>1
<1>6. CASE TakeFrame BY <1>5, <1>6 DEF TakeFrame
<1>7. CASE RecvFlush BY <1>5, <1>7 DEF RecvFlush
<1>8. CASE DrainFlush BY <1>5, <1>8 DEF DrainFlush
<1> QED BY <1>2, <1>3, <1>4, <1>6, <1>7, <1>8, QueueSteps

(* Every frame the channel accepted is still in it, in the worker's hand,  *)
(* counted or about to be counted as written, or was reported as failed:   *)
(* no interleaving of senders and run_worker loses one silently.           *)
THEOREM NoFrameLost == Spec => []FramesConserved
<1>1. Init => QueueCount
  <2> SUFFICES ASSUME Init PROVE QueueCount
    OBVIOUS
  <2>1. FramesOf(queue) = {} BY DEF Init, FramesOf
  <2> QED BY <2>1, FS_EmptySet DEF Init, QueueCount, QueuedFrames
<1>2. IInv /\ QueueCount /\ [Next]_vars => QueueCount'
  BY QueueCountStep DEF IInv
<1>3. IInv /\ QueueCount => FramesConserved
  <2> SUFFICES ASSUME IInv, QueueCount PROVE FramesConserved
    OBVIOUS
  <2>1. TypeOK /\ Counted BY DEF IInv
  <2>2. QueuedFrames \in Nat BY <2>1, QueuedFramesNat
  <2>3. Cardinality(failed) \in Nat BY <2>1, FS_CardinalityType DEF TypeOK
  <2>4. /\ taken \in Nat /\ accepted \in Nat /\ unpublished \in Nat
        /\ written_frames \in Nat /\ Len(log) \in Nat
    BY <2>1 DEF TypeOK
  <2>5. QueuedFrames = Cardinality({i \in 1..Len(queue) : queue[i].kind = "frame"})
    BY DEF QueuedFrames, FramesOf
  <2> QED BY <2>1, <2>2, <2>3, <2>4, <2>5, SMTT(20) DEF Counted, QueueCount, FramesConserved
<1> QED BY <1>1, <1>2, <1>3, Invariance, PTL DEF Spec

-----------------------------------------------------------------------------
(* Buffers are recycled.                                                   *)

Holding == {"encoded", "rejected"}
Holders == {t \in Threads : pc[t] \in Holding}
HeldBuffers == Cardinality(Holders)
WorkerBuffers == IF wpc \in {"write", "checkin"} THEN 1 ELSE 0

LEMMA HeldBuffersNat ==
  ASSUME TypeOK
  PROVE  IsFiniteSet(Holders) /\ HeldBuffers \in Nat
<1>1. Holders \in SUBSET Threads BY DEF Holders
<1>2. IsFiniteSet(Holders) BY <1>1, SinkAssumption, FS_Subset
<1> QED BY <1>2, FS_CardinalityType DEF HeldBuffers

(* What a thread that moves does to the number of threads with a buffer.   *)
LEMMA ThreadMoves ==
  ASSUME TypeOK, NEW t \in Threads, NEW at, pc' = [pc EXCEPT ![t] = at]
  PROVE  /\ pc[t] \notin Holding /\ at \in Holding => HeldBuffers' = HeldBuffers + 1
         /\ pc[t] \in Holding /\ at \notin Holding => HeldBuffers' = HeldBuffers - 1
         /\ (pc[t] \in Holding <=> at \in Holding) => HeldBuffers' = HeldBuffers
<1>1. IsFiniteSet(Holders) BY HeldBuffersNat
<1>2. \A s \in Threads : pc'[s] = IF s = t THEN at ELSE pc[s] BY DEF TypeOK
<1>3. t \in Holders <=> pc[t] \in Holding BY DEF Holders
<1>4. Holders' = IF at \in Holding THEN Holders \union {t} ELSE Holders \ {t}
  BY <1>2 DEF Holders
<1> USE DEF HeldBuffers
<1>5. CASE pc[t] \notin Holding /\ at \in Holding
  BY <1>1, <1>3, <1>4, <1>5, FS_AddElement
<1>6. CASE pc[t] \in Holding /\ at \notin Holding
  BY <1>1, <1>3, <1>4, <1>6, FS_RemoveElement
<1>7. CASE pc[t] \in Holding <=> at \in Holding
  <2>1. Holders' = Holders BY <1>3, <1>4, <1>7
  <2> QED BY <1>7, <2>1
<1> QED BY <1>5, <1>6, <1>7

(* Buffers that change hands are neither replaced nor given up.            *)
LEMMA HandsOver ==
  ASSUME TypeOK, replaced' = replaced,
         Allocated' - pool' - (HeldBuffers' + QueuedFrames' + WorkerBuffers')
           = Allocated - pool - (HeldBuffers + QueuedFrames + WorkerBuffers)
  PROVE  Recycled
<1>1. /\ InUse = HeldBuffers + QueuedFrames + WorkerBuffers
      /\ InUse' = HeldBuffers' + QueuedFrames' + WorkerBuffers'
  BY DEF InUse, HeldBuffers, Holders, Holding, QueuedFrames, FramesOf, WorkerBuffers
<1>2. HeldBuffers \in Nat /\ QueuedFrames \in Nat /\ WorkerBuffers \in Nat
  BY HeldBuffersNat, QueuedFramesNat DEF WorkerBuffers
<1>3. GivenUp' = GivenUp /\ GivenUp \in Int
  BY <1>1, <1>2, SinkAssumption DEF GivenUp, Allocated, TypeOK
<1> QED BY <1>3 DEF Recycled, TypeOK

(* A buffer that comes back, or the fresh one that replaces it, is in the  *)
(* pool, or the pool was full.                                             *)
LEMMA ComesBack ==
  ASSUME TypeOK, PoolPut, heap_fallbacks' = heap_fallbacks,
         HeldBuffers' + QueuedFrames' + WorkerBuffers'
           = HeldBuffers + QueuedFrames + WorkerBuffers - 1
  PROVE  Recycled
<1>1. /\ InUse = HeldBuffers + QueuedFrames + WorkerBuffers
      /\ InUse' = HeldBuffers' + QueuedFrames' + WorkerBuffers'
  BY DEF InUse, HeldBuffers, Holders, Holding, QueuedFrames, FramesOf, WorkerBuffers
<1>2. HeldBuffers \in Nat /\ QueuedFrames \in Nat /\ WorkerBuffers \in Nat
  BY HeldBuffersNat, QueuedFramesNat DEF WorkerBuffers
<1>3. InUse \in Nat /\ InUse' = InUse - 1 BY <1>1, <1>2
<1>4. /\ pool \in 0..FrameBufferCount /\ FrameBufferCount \in Nat
      /\ heap_fallbacks \in Nat /\ replaced \in Nat
  BY SinkAssumption DEF TypeOK
<1>5. replaced' = replaced \/ replaced' = replaced + 1
  BY DEF PoolPut, FreshForOversized
<1> QED BY <1>3, <1>4, <1>5 DEF Recycled, GivenUp, Allocated, PoolPut, Push

LEMMA ThreadRecycles ==
  ASSUME TypeOK, NEW t \in Threads, Thread(t)
  PROVE  Recycled
<1>1. /\ HeldBuffers \in Nat /\ QueuedFrames \in Nat
      /\ pool \in Nat /\ heap_fallbacks \in Nat /\ replaced \in Nat /\ WorkerBuffers \in Nat
  BY SinkAssumption, HeldBuffersNat, QueuedFramesNat DEF TypeOK, WorkerBuffers
<1>2. TypeOK' BY TypeThread
<1>3. WorkerBuffers' = WorkerBuffers
  BY DEF Thread, Checkout, Send, Reject, CheckinRejected, BeginFlush, SendFlush,
         FlushReturn, DropSender, worker, WorkerBuffers
<1>4. UNCHANGED channel => QueuedFrames' = QueuedFrames
  BY DEF channel, QueuedFrames, FramesOf
<1>5. CASE Checkout(t)
  <2>1. HeldBuffers' = HeldBuffers + 1 BY <1>5, ThreadMoves DEF Checkout, Holding
  <2>2. /\ replaced' = replaced
        /\ \/ pool' = pool - 1 /\ heap_fallbacks' = heap_fallbacks
           \/ pool' = pool /\ heap_fallbacks' = heap_fallbacks + 1
    BY <1>5 DEF Checkout
  <2>3. QueuedFrames' = QueuedFrames BY <1>4, <1>5 DEF Checkout
  <2> QED BY <1>1, <1>2, <1>3, <2>1, <2>2, <2>3, HandsOver DEF buffers, Allocated
<1>6. CASE Send(t)
  <2>1. HeldBuffers' = HeldBuffers - 1
    <3>1. pc[t] = "encoded" /\ pc' = [pc EXCEPT ![t] = "idle"] BY <1>6 DEF Send
    <3>2. "encoded" \in Holding /\ "idle" \notin Holding BY DEF Holding
    <3> QED BY <3>1, <3>2, ThreadMoves
  <2> DEFINE m == Frame(accepted + 1)
  <2>2. m \in Message /\ m.kind = "frame" BY DEF Message, Frame, TypeOK
  <2>3. queue' = Append(queue, m) BY <1>6 DEF Send
  <2> HIDE DEF m
  <2>4. QueuedFrames' = QueuedFrames + 1 BY <2>2, <2>3, OneMore
  <2>5. UNCHANGED buffers /\ heap_fallbacks' = heap_fallbacks BY <1>6 DEF Send, counters
  <2> QED BY <1>1, <1>2, <1>3, <2>1, <2>4, <2>5, HandsOver DEF buffers, Allocated
<1>7. CASE CheckinRejected(t)
  <2>1. HeldBuffers' = HeldBuffers - 1
    <3>1. pc[t] = "rejected" /\ pc' = [pc EXCEPT ![t] = "idle"] BY <1>7 DEF CheckinRejected
    <3>2. "rejected" \in Holding /\ "idle" \notin Holding BY DEF Holding
    <3> QED BY <3>1, <3>2, ThreadMoves
  <2>2. QueuedFrames' = QueuedFrames BY <1>4, <1>7 DEF CheckinRejected
  <2>3. PoolPut /\ heap_fallbacks' = heap_fallbacks
    BY <1>7 DEF CheckinRejected, counters
  <2> QED BY <1>1, <1>3, <2>1, <2>2, <2>3, ComesBack
<1>8. CASE SendFlush(t)
  <2>1. HeldBuffers' = HeldBuffers
    <3>1. pc[t] = "sending" /\ pc' = [pc EXCEPT ![t] = "waiting"] BY <1>8 DEF SendFlush
    <3>2. "sending" \notin Holding /\ "waiting" \notin Holding BY DEF Holding
    <3> QED BY <3>1, <3>2, ThreadMoves
  <2> DEFINE m == Flush(t, accepted)
  <2>2. m \in Message /\ m.kind = "flush" BY DEF Message, Flush, TypeOK
  <2>3. queue' = Append(queue, m) BY <1>8 DEF SendFlush
  <2> HIDE DEF m
  <2>4. QueuedFrames' = QueuedFrames + 0 BY <2>2, <2>3, OneMore
  <2>5. UNCHANGED buffers /\ heap_fallbacks' = heap_fallbacks BY <1>8 DEF SendFlush, counters
  <2> QED BY <1>1, <1>2, <1>3, <2>1, <2>4, <2>5, HandsOver DEF buffers, Allocated
<1>9. CASE Reject(t) \/ BeginFlush(t) \/ FlushReturn(t) \/ DropSender(t)
  <2>1. HeldBuffers' = HeldBuffers
    BY <1>9, ThreadMoves DEF Reject, BeginFlush, FlushReturn, DropSender, Holding
  <2>2. /\ QueuedFrames' = QueuedFrames
        /\ UNCHANGED buffers /\ heap_fallbacks' = heap_fallbacks
    BY <1>4, <1>9 DEF Reject, BeginFlush, FlushReturn, DropSender, counters
  <2> QED BY <1>1, <1>2, <1>3, <2>1, <2>2, HandsOver DEF buffers, Allocated
<1> QED BY <1>5, <1>6, <1>7, <1>8, <1>9 DEF Thread

LEMMA WorkerRecycles ==
  ASSUME TypeOK, Worker
  PROVE  Recycled
<1>1. /\ HeldBuffers \in Nat /\ QueuedFrames \in Nat
      /\ pool \in Nat /\ heap_fallbacks \in Nat /\ replaced \in Nat
  BY SinkAssumption, HeldBuffersNat, QueuedFramesNat DEF TypeOK
<1>2. TypeOK' BY TypeWorker
<1>3. heap_fallbacks' = heap_fallbacks /\ HeldBuffers' = HeldBuffers
  BY DEF Worker, TakeFrame, RecvFlush, DrainFlush, DrainEmpty, RecvClosed,
     DrainClosed, WriteBuffered, WriteSpill, WriteDirect, WriteOk, WriteFails,
     CheckinWritten, Publish, FlushWriter, WriterFlushOk, WriterFlushFails,
     SendAck, ExitPublish, ExitFlush, DropWriter, counters, threads,
     HeldBuffers, Holders
<1>4. UNCHANGED channel => QueuedFrames' = QueuedFrames
  BY DEF channel, QueuedFrames, FramesOf
<1>5. ASSUME NEW from, Receiving(from, "frame"), from \in {"recv", "drain"}, TakeFrame
      PROVE  Recycled
  <2>1. QueuedFrames' = QueuedFrames - 1 BY <1>5, OneLess
  <2>2. WorkerBuffers = 0 /\ WorkerBuffers' = 1 /\ UNCHANGED buffers
    BY <1>5 DEF TakeFrame, Receiving, WorkerBuffers
  <2> QED BY <1>1, <1>2, <1>3, <2>1, <2>2, HandsOver DEF buffers, Allocated
<1>6. ASSUME NEW from, Receiving(from, "flush"), from \in {"recv", "drain"},
             RecvFlush \/ DrainFlush
      PROVE  Recycled
  <2>1. QueuedFrames' = QueuedFrames - 0 BY <1>6, OneLess
  <2>2. WorkerBuffers = 0 /\ WorkerBuffers' = 0 /\ UNCHANGED buffers
    BY <1>6 DEF RecvFlush, DrainFlush, Receiving, WorkerBuffers
  <2> QED BY <1>1, <1>2, <1>3, <2>1, <2>2, HandsOver DEF buffers, Allocated
<1>7. CASE CheckinWritten
  <2>1. WorkerBuffers = 1 /\ WorkerBuffers' = 0 /\ PoolPut
    BY <1>7 DEF CheckinWritten, WorkerBuffers
  <2>2. QueuedFrames' = QueuedFrames BY <1>4, <1>7 DEF CheckinWritten
  <2> QED BY <1>1, <1>3, <2>1, <2>2, ComesBack
<1>8. CASE WriteBuffered \/ WriteSpill \/ WriteDirect \/ WriteFails
  <2>1. UNCHANGED channel /\ UNCHANGED buffers
    BY <1>8 DEF WriteBuffered, WriteSpill, WriteDirect, WriteOk, WriteFails
  <2>2. WorkerBuffers = 1 /\ WorkerBuffers' = 1
    BY <1>8 DEF WriteBuffered, WriteSpill, WriteDirect, WriteOk, WriteFails,
       WorkerBuffers
  <2> QED BY <1>1, <1>2, <1>3, <1>4, <2>1, <2>2, HandsOver DEF buffers, Allocated
<1>9. CASE \/ DrainEmpty \/ RecvClosed \/ DrainClosed \/ Publish \/ FlushWriter
           \/ SendAck \/ ExitPublish \/ ExitFlush \/ DropWriter
  <2>1. UNCHANGED channel /\ UNCHANGED buffers
    BY <1>9 DEF DrainEmpty, RecvClosed, DrainClosed, Publish, FlushWriter,
       SendAck, ExitPublish, ExitFlush, DropWriter
  <2>2. WorkerBuffers = 0 /\ WorkerBuffers' = 0
    BY <1>9 DEF DrainEmpty, RecvClosed, DrainClosed, Publish, FlushWriter,
       SendAck, ExitPublish, ExitFlush, DropWriter, WorkerBuffers
  <2> QED BY <1>1, <1>2, <1>3, <1>4, <2>1, <2>2, HandsOver DEF buffers, Allocated
<1>10. CASE TakeFrame BY <1>5, <1>10 DEF TakeFrame
<1>11. CASE RecvFlush BY <1>6, <1>11 DEF RecvFlush
<1>12. CASE DrainFlush BY <1>6, <1>12 DEF DrainFlush
<1> QED BY <1>7, <1>8, <1>9, <1>10, <1>11, <1>12 DEF Worker

(* A buffer leaves circulation only when it comes back oversized, and then *)
(* a fresh one takes its place, or when what comes back meets a full pool: *)
(* no path of the logging threads or of run_worker forgets the buffer of   *)
(* its frame, for every size of the pool and of the channel.               *)
THEOREM NoBufferForgotten == Spec => BuffersRecycled
<1>1. TypeOK /\ Next => Recycled
  <2> SUFFICES ASSUME TypeOK, Next PROVE Recycled
    OBVIOUS
  <2>1. CASE Terminated
    <3>1. UNCHANGED vars BY <2>1 DEF Terminated
    <3>2. GivenUp' = GivenUp /\ replaced' = replaced
      BY <3>1 DEF vars, channel, buffers, counters, threads, worker, GivenUp, Allocated, InUse
    <3>3. GivenUp \in Int
      BY HeldBuffersNat, QueuedFramesNat
      DEF GivenUp, Allocated, InUse, HeldBuffers, Holders, Holding, QueuedFrames,
          FramesOf, TypeOK
    <3> QED BY <3>2, <3>3 DEF Recycled, TypeOK
  <2> QED BY <2>1, ThreadRecycles, WorkerRecycles DEF Next
<1>2. TypeOK /\ [Next]_vars => [Recycled]_vars
  BY <1>1
<1> QED BY <1>2, TypeCorrect, PTL DEF Spec, BuffersRecycled

-----------------------------------------------------------------------------
(* The sink implements FrameChannel.  What the inductive invariant leaves  *)
(* to be said: the worker never runs ahead of what was accepted.           *)
QueueOrdered ==
  /\ taken <= accepted
  /\ \A i \in 1..Len(queue) : taken <= queue[i].n /\ queue[i].n <= accepted
  /\ \A i, j \in 1..Len(queue) : i < j => queue[i].n <= queue[j].n

Positive ==
  /\ \A i \in 1..Len(log) : 1 <= log[i]
  /\ \A n \in failed : 1 <= n

RInv == IInv /\ QueueOrdered /\ Positive

-----------------------------------------------------------------------------
LEMMA OrderedStep == TypeOK /\ QueueChain /\ QueueOrdered /\ [Next]_vars => QueueOrdered'
<1> SUFFICES ASSUME TypeOK, QueueChain, QueueOrdered, [Next]_vars PROVE QueueOrdered'
  OBVIOUS
<1> USE DEF QueueOrdered
<1>1. CASE UNCHANGED channel BY <1>1 DEF channel
<1>2. ASSUME NEW m \in Message, queue' = Append(queue, m), taken' = taken,
             accepted' \in Nat, accepted <= accepted', m.n = accepted'
      PROVE  QueueOrdered'
  <2>1. /\ Len(queue) \in Nat /\ Len(queue') = Len(queue) + 1
        /\ \A i \in 1..Len(queue) : queue'[i] = queue[i]
        /\ queue'[Len(queue) + 1] = m
    BY <1>2, AppendMessage DEF TypeOK
  <2>2. \A i \in 1..Len(queue') :
          \/ i \in 1..Len(queue) /\ queue'[i] = queue[i]
          \/ i = Len(queue) + 1 /\ queue'[i] = m
    BY <2>1
  <2>3. taken \in Nat /\ accepted \in Nat BY DEF TypeOK
  <2>4. \A i \in 1..Len(queue) : queue[i].n \in Nat BY DEF TypeOK, Message
  <2>5. \A i \in 1..Len(queue') : taken <= queue'[i].n /\ queue'[i].n <= accepted'
    BY <1>2, <2>2, <2>3, <2>4
  <2>6. ASSUME NEW i \in 1..Len(queue'), NEW j \in 1..Len(queue'), i < j
        PROVE  queue'[i].n <= queue'[j].n
    <3>1. i \in 1..Len(queue) /\ queue'[i] = queue[i] BY <2>1, <2>6
    <3>2. CASE j \in 1..Len(queue) BY <2>1, <2>6, <3>1, <3>2
    <3>3. CASE j = Len(queue) + 1 BY <1>2, <2>1, <2>5, <3>3
    <3> QED BY <2>2, <3>2, <3>3
  <2> QED BY <1>2, <2>3, <2>5, <2>6
<1>3. ASSUME NEW t \in Threads, Send(t) PROVE QueueOrdered'
  <2>1. Frame(accepted + 1) \in Message /\ Frame(accepted + 1).n = accepted + 1
    BY DEF Message, Frame, TypeOK
  <2>2. /\ queue' = Append(queue, Frame(accepted + 1)) /\ accepted' = accepted + 1
        /\ taken' = taken
    BY <1>3 DEF Send
  <2>3. accepted' \in Nat /\ accepted <= accepted' BY <2>2 DEF TypeOK
  <2> QED BY <1>2, <2>1, <2>2, <2>3
<1>4. ASSUME NEW t \in Threads, SendFlush(t) PROVE QueueOrdered'
  <2>1. Flush(t, accepted) \in Message /\ Flush(t, accepted).n = accepted
    BY DEF Message, Flush, TypeOK
  <2> QED BY <1>2, <1>4, <2>1, SMTT(20) DEF SendFlush, TypeOK
<1>5. ASSUME NEW from, NEW kind, Receiving(from, kind), accepted' = accepted,
             taken' = IF kind = "frame" THEN taken + 1 ELSE taken
      PROVE  QueueOrdered'
  <2>1. /\ Len(queue) \in Nat /\ Len(queue) > 0 /\ queue[1].kind = kind
        /\ Len(queue') = Len(queue) - 1
        /\ \A i \in 1..Len(queue') : queue'[i] = queue[i + 1]
    BY <1>5, ReceivedMessage
  <2>2. queue[1].n = taken' BY <1>5, <2>1 DEF QueueChain, Before
  <2>3. \A i \in 1..Len(queue') : i + 1 \in 1..Len(queue) /\ 1 < i + 1
    BY <2>1
  <2>4. 1 \in 1..Len(queue) BY <2>1
  <2>5. \A i \in 1..Len(queue') : taken' <= queue'[i].n /\ queue'[i].n <= accepted
    BY <2>1, <2>2, <2>3, <2>4
  <2>6. taken' <= accepted BY <2>2, <2>4
  <2>7. ASSUME NEW i \in 1..Len(queue'), NEW j \in 1..Len(queue'), i < j
        PROVE  queue'[i].n <= queue'[j].n
    <3>1. i + 1 < j + 1 BY <2>7
    <3> QED BY <2>1, <2>3, <3>1
  <2> QED BY <1>5, <2>5, <2>6, <2>7
<1>6. CASE TakeFrame BY <1>5, <1>6 DEF TakeFrame
<1>7. CASE RecvFlush BY <1>5, <1>7 DEF RecvFlush
<1>8. CASE DrainFlush BY <1>5, <1>8 DEF DrainFlush
<1> QED BY <1>1, <1>3, <1>4, <1>6, <1>7, <1>8, QueueSteps

(* The log only grows at its end.                                          *)
LEMMA LogPrefix ==
  ASSUME TypeOK, [Next]_vars
  PROVE  /\ Len(log) \in Nat /\ Len(log') \in Nat /\ Len(log) <= Len(log')
         /\ synced \in Nat /\ synced <= Len(log) /\ synced' \in Nat /\ synced' <= Len(log')
         /\ \A i \in 1..Len(log) : log'[i] = log[i]
<1>1. TypeOK' BY TypeStep
<1>2. /\ Len(log) \in Nat /\ Len(log') \in Nat
      /\ synced \in Nat /\ synced <= Len(log) /\ synced' \in Nat /\ synced' <= Len(log')
  <2>1. Len(log) \in Nat BY DEF TypeOK
  <2>2. Len(log') \in Nat BY <1>1 DEF TypeOK
  <2>3. synced \in 0..Len(log) BY DEF TypeOK
  <2>4. synced' \in 0..Len(log') BY <1>1 DEF TypeOK
  <2> QED BY <2>1, <2>2, <2>3, <2>4
<1>3. CASE \E k : WriteOk(k) BY <1>2, <1>3, WrittenLog
<1>4. CASE UNCHANGED log BY <1>2, <1>4
<1> QED BY <1>2, <1>3, <1>4, FrameSteps DEF TakeFrame, WriteFails, output

LEMMA PositiveStep ==
  ASSUME TypeOK, WorkerState, Positive, [Next]_vars
  PROVE  Positive'
<1> USE DEF Positive
<1>1. CASE TakeFrame BY <1>1 DEF TakeFrame, output
<1>2. CASE \E k : WriteOk(k)
  <2>1. PICK k : WriteOk(k) BY <1>2
  <2>2. /\ Len(log') = Len(log) + 1 /\ \A i \in 1..Len(log) : log'[i] = log[i]
        /\ log'[Len(log) + 1] = hand
    BY <2>1, WrittenLog
  <2>3. 1 <= hand /\ failed' = failed BY <2>1 DEF WriteOk, WorkerState, TypeOK
  <2>4. \A i \in 1..Len(log') : i \in 1..Len(log) \/ i = Len(log) + 1
    BY <2>2 DEF TypeOK
  <2> QED BY <2>2, <2>3, <2>4
<1>3. CASE WriteFails
  <2>1. log' = log /\ failed' = failed \union {hand} /\ 1 <= hand
    BY <1>3 DEF WriteFails, WorkerState, TypeOK
  <2> QED BY <2>1
<1>4. CASE UNCHANGED <<log, failed>> BY <1>4
<1> QED BY <1>1, <1>2, <1>3, <1>4, FrameSteps

LEMMA RInvInvariant == Spec => []RInv
<1>1. Init => RInv
  <2> SUFFICES ASSUME Init PROVE RInv
    OBVIOUS
  <2>1. IInv BY InitIInv
  <2>2. Len(queue) = 0 /\ Len(log) = 0 BY DEF Init
  <2> QED BY <2>1, <2>2 DEF Init, RInv, QueueOrdered, Positive
<1>2. RInv /\ [Next]_vars => RInv'
  BY IInvStep, OrderedStep, PositiveStep DEF RInv, IInv
<1> QED BY <1>1, <1>2, PTL DEF Spec

-----------------------------------------------------------------------------
(* Steps of the sink as steps of the contract.                             *)

LEMMA SettledFrames ==
  RInv => /\ Delivered \subseteq 1..accepted /\ failed \subseteq 1..accepted
          /\ Delivered \intersect failed = {}
<1> SUFFICES ASSUME RInv
             PROVE  /\ Delivered \subseteq 1..accepted /\ failed \subseteq 1..accepted
                    /\ Delivered \intersect failed = {}
  OBVIOUS
<1>1. \A i \in 1..synced : i \in 1..Len(log) BY DEF RInv, IInv, TypeOK
<1>2. accepted \in Nat /\ taken \in Nat /\ taken <= accepted
  BY DEF RInv, IInv, TypeOK, QueueOrdered
<1>3. \A i \in 1..Len(log) : log[i] \in Nat /\ log[i] \in 1..accepted /\ log[i] \notin failed
  BY <1>2, SMTT(20) DEF RInv, IInv, TypeOK, Settled, FramesInOrder, Positive
<1>4. \A n \in failed : n \in 1..accepted
  BY <1>2 DEF RInv, IInv, TypeOK, Settled, Positive
<1> QED BY <1>1, <1>3, <1>4 DEF Delivered

(* Whatever reaches the output or fails was in flight, and comes behind    *)
(* what was delivered before.                                              *)
LEMMA StepSettles ==
  ASSUME RInv, [Next]_vars, UNCHANGED <<accepted, ack, mark>>
  PROVE  Contract!Settle
<1>1. RInv' BY IInvStep, OrderedStep, PositiveStep DEF RInv, IInv
<1>2. /\ Delivered \subseteq 1..accepted /\ failed \subseteq 1..accepted
      /\ Delivered' \subseteq 1..accepted /\ failed' \subseteq 1..accepted
      /\ Delivered' \intersect failed' = {}
  <2>1. /\ Delivered' \subseteq 1..accepted' /\ failed' \subseteq 1..accepted'
        /\ Delivered' \intersect failed' = {}
    <3>1. RInv' => (/\ Delivered \subseteq 1..accepted /\ failed \subseteq 1..accepted
                    /\ Delivered \intersect failed = {})'
      BY SettledFrames, PTL
    <3> QED BY <1>1, <3>1
  <2> QED BY <2>1, SettledFrames
<1>3. Delivered \subseteq Delivered' /\ failed \subseteq failed'
  BY OnlyMore DEF RInv, IInv
<1>4. ASSUME NEW n \in Delivered' \ Delivered, NEW m \in Delivered PROVE m < n
  <2>1. PICK i \in 1..synced' : n = log'[i] BY <1>4 DEF Delivered
  <2>2. PICK j \in 1..synced : m = log[j] BY <1>4 DEF Delivered
  <2>3. /\ Len(log) \in Nat /\ Len(log') \in Nat /\ Len(log) <= Len(log')
        /\ synced \in Nat /\ synced <= Len(log) /\ synced' \in Nat /\ synced' <= Len(log')
        /\ \A k \in 1..Len(log) : log'[k] = log[k]
    BY LogPrefix DEF RInv, IInv
  <2>4. i \notin 1..synced BY <1>4, <2>1, <2>3 DEF Delivered
  <2>5. j < i /\ j \in 1..Len(log) /\ j \in 1..Len(log') /\ i \in 1..Len(log')
    BY <2>2, <2>3, <2>4
  <2>6. log'[j] < log'[i] BY <1>1, <2>5 DEF RInv, IInv, Settled, FramesInOrder
  <2> QED BY <2>1, <2>2, <2>3, <2>5, <2>6
<1> QED
  BY <1>2, <1>3, <1>4
  DEF Contract!Settle, Contract!Deliver, Contract!Lose, Contract!InFlight

(* A dropped acknowledgement channel ends the flush it belonged to.        *)
LEMMA SupersededCompletes ==
  ASSUME RInv, [Next]_vars, ack' = Superseded, UNCHANGED <<accepted, mark, Delivered, failed>>
  PROVE  [Contract!Next]_(Contract!vars)
<1>1. CASE flushAck = NoThread
  <2>1. ack' = ack BY <1>1, SinkAssumption DEF Superseded, RInv, IInv, TypeOK
  <2> QED BY <2>1 DEF Contract!vars
<1>2. CASE flushAck # NoThread
  <2>1. flushAck \in Threads /\ ack[flushAck] = "pending"
    BY <1>2 DEF RInv, IInv, TypeOK, FlushPending, HeldFlush
  <2>2. ack' = [ack EXCEPT ![flushAck] = "closed"]
    BY DEF Superseded, RInv, IInv, TypeOK
  <2>3. Contract!Complete(flushAck, "closed")
    BY <2>1, <2>2 DEF Contract!Complete
  <2> QED BY <2>1, <2>3 DEF Contract!Next
<1> QED BY <1>1, <1>2

LEMMA StepImplements ==
  ASSUME RInv, [Next]_vars
  PROVE  [Contract!Next]_(Contract!vars)
<1>1. CASE UNCHANGED <<accepted, ack, mark>>
  BY <1>1, StepSettles DEF Contract!Next
<1>2. ASSUME NEW t \in Threads, Send(t) PROVE Contract!Accept
  BY <1>2 DEF Send, output, Delivered, Contract!Accept
<1>3. ASSUME NEW t \in Threads, SendFlush(t) PROVE Contract!Request(t)
  <2>1. ack[t] # "pending"
    BY <1>3 DEF SendFlush, RInv, IInv, FlushPending, PendingWaits
  <2> QED BY <1>3, <2>1 DEF SendFlush, output, Delivered, Contract!Request
<1>4. CASE DrainFlush \/ DrainClosed
  BY <1>4, SupersededCompletes DEF DrainFlush, DrainClosed, channel, output, Delivered
<1>5. CASE SendAck
  <2>1. flushAck \in Threads /\ ack[flushAck] = "pending"
    BY <1>5 DEF SendAck, RInv, IInv, TypeOK, WorkerState, FlushPending, HeldFlush
  <2>2. /\ ack' = [ack EXCEPT ![flushAck] = result] /\ result \in {"ok", "err"}
        /\ UNCHANGED <<accepted, mark, failed, Delivered>>
    BY <1>5 DEF SendAck, RInv, IInv, TypeOK, channel, output, Delivered
  <2>3. FlushCoversQueue' BY IInvStep DEF RInv, IInv
  <2>4. result = "ok" => Contract!Covered(flushAck)
    BY <2>1, <2>2, <2>3 DEF FlushCoversQueue, Contract!Covered, RInv, IInv, TypeOK
  <2>5. Contract!Complete(flushAck, result)
    BY <2>1, <2>2, <2>4 DEF Contract!Complete
  <2> QED BY <2>1, <2>2, <2>5 DEF Contract!Next
<1>6. \/ UNCHANGED <<accepted, ack, mark>>
      \/ \E t \in Threads : Send(t) \/ SendFlush(t)
      \/ DrainFlush \/ DrainClosed \/ SendAck
  <2> USE DEF channel, threads
  <2>1. CASE UNCHANGED vars BY <2>1 DEF vars
  <2>2. CASE \E t \in Threads : Thread(t)
    BY <2>2 DEF Thread, Checkout, Reject, CheckinRejected, BeginFlush, FlushReturn, DropSender
  <2>3. CASE Worker
    BY <2>3 DEF Worker, TakeFrame, RecvFlush, DrainEmpty, RecvClosed, WriteBuffered,
       WriteSpill, WriteDirect, WriteOk, WriteFails, CheckinWritten, Publish,
       FlushWriter, ExitPublish, ExitFlush, DropWriter
  <2> QED BY <2>1, <2>2, <2>3 DEF Next, Terminated
<1> QED BY <1>1, <1>2, <1>3, <1>4, <1>5, <1>6 DEF Contract!Next

(* The sink does what FrameChannel promises: frames are delivered in the   *)
(* order of acceptance or lost to a write error, and a flush succeeds only *)
(* when every frame accepted before it is settled.                         *)
THEOREM SinkImplementsContract == Spec => ImplementsFrameChannel
<1>1. Init => Contract!Init
  BY DEF Init, Delivered, Contract!Init
<1>2. RInv /\ [Next]_vars => [Contract!Next]_(Contract!vars)
  BY StepImplements
<1> QED BY <1>1, <1>2, RInvInvariant, PTL DEF Spec, ImplementsFrameChannel, Contract!Spec

=============================================================================

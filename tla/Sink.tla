-------------------------------- MODULE Sink --------------------------------
(***************************************************************************)
(* The sink of redline: the bounded channel between the logging threads    *)
(* and the worker thread (redline/src/sink.rs), the pool of frame buffers, *)
(* the counters of SharedStats and Handle::flush (redline/src/config.rs).  *)
(*                                                                         *)
(* A frame is the number of its acceptance: the n-th frame for which       *)
(* try_send returned Ok is frame n.  Its bytes are not modelled, so which  *)
(* of the paths of BufWriter::write_all it takes is nondeterministic.      *)
(***************************************************************************)
EXTENDS Naturals, Sequences, FiniteSets, Functions

CONSTANTS
  Threads,           \* threads that hold a clone of the sender
  NoThread,          \* not a thread: "no acknowledgement channel held"
  QueueCapacity,     \* Builder::queue_capacity
  FrameBufferCount,  \* Builder::frame_buffer_count
  WriterFrames,      \* frames the BufWriter holds before it must write
  MaxFrames,         \* bound: frames offered to the channel
  MaxFlushes,        \* bound: calls of Handle::flush
  MaxOversized,      \* bound: buffers that grow beyond 4 * buffer_size
  MaxErrors          \* bound: failures of the output

ASSUME SinkAssumption ==
  /\ IsFiniteSet(Threads)
  /\ NoThread \notin Threads
  /\ QueueCapacity \in Nat \ {0}      \* Builder clamps with .max(1)
  /\ FrameBufferCount \in Nat \ {0}   \* so does FramePool::new
  /\ WriterFrames \in Nat \ {0}
  /\ MaxFrames \in Nat /\ MaxFlushes \in Nat
  /\ MaxOversized \in Nat /\ MaxErrors \in Nat

VARIABLES
  \* The channel.
  queue,           \* messages sent and not yet received
  accepted,        \* ghost: frames accepted by try_send so far
  taken,           \* ghost: frames received by the worker so far
  \* FramePool and SharedStats.
  pool,            \* buffers in the pool
  replaced,        \* ghost: oversized buffers that checkin put a fresh one for
  written_frames, dropped_frames, write_errors, heap_fallbacks,
  \* The logging threads.
  pc,              \* what each thread is doing
  ack,             \* outcome of its latest flush
  mark,            \* ghost: frames accepted before its latest flush
  flushes,         \* calls of flush so far, for the bound
  \* The worker's locals.
  wpc,             \* where run_worker is
  hand,            \* the frame process_frame works on
  flushAck,        \* flush_ack: whose acknowledgement channel it holds
  result,          \* result of writer.flush()
  unpublished,     \* written_frames of run_worker, not yet added to Stats
  \* The BufWriter and the output behind it.
  log,             \* frames BufWriter::write_all returned Ok for, in order
  synced,          \* how many of them reached the output
  failed           \* frames BufWriter::write_all returned an error for

channel  == <<queue, accepted, taken>>
buffers  == <<pool, replaced>>
counters == <<written_frames, dropped_frames, write_errors, heap_fallbacks>>
threads  == <<pc, ack, mark, flushes>>
worker   == <<wpc, hand, flushAck, result, unpublished>>
output   == <<log, synced, failed>>
vars     == <<channel, buffers, counters, threads, worker, output>>

Frame(n)    == [kind |-> "frame", n |-> n, by |-> NoThread]
Flush(t, n) == [kind |-> "flush", n |-> n, by |-> t]

Message ==
  [kind : {"frame"}, n : Nat, by : {NoThread}]
    \union [kind : {"flush"}, n : Nat, by : Threads]

ThreadPc == {"idle", "encoded", "rejected", "sending", "waiting", "gone"}
WorkerPc == {"recv", "write", "checkin", "drain", "publish", "flush", "ack",
             "exit", "exit_flush", "exit_drop", "done"}
Outcome  == {"none", "pending", "ok", "err", "closed"}

(* The type invariant.                                                     *)
TypeOK ==
  /\ queue \in Seq(Message) /\ Len(queue) <= QueueCapacity
  /\ accepted \in Nat /\ taken \in Nat
  /\ pool \in 0..FrameBufferCount /\ replaced \in Nat
  /\ written_frames \in Nat /\ dropped_frames \in Nat
  /\ write_errors \in Nat /\ heap_fallbacks \in Nat
  /\ pc \in [Threads -> ThreadPc]
  /\ ack \in [Threads -> Outcome]
  /\ mark \in [Threads -> Nat]
  /\ flushes \in Nat
  /\ wpc \in WorkerPc
  /\ hand \in Nat
  /\ flushAck \in Threads \union {NoThread}
  /\ result \in {"ok", "err"}
  /\ unpublished \in Nat
  /\ log \in Seq(Nat)
  /\ synced \in 0..Len(log)
  /\ failed \in SUBSET Nat /\ IsFiniteSet(failed)

Init ==
  /\ queue = <<>> /\ accepted = 0 /\ taken = 0
  /\ pool = 0 /\ replaced = 0      \* FramePool::new leaves the pool empty
  /\ written_frames = 0 /\ dropped_frames = 0
  /\ write_errors = 0 /\ heap_fallbacks = 0
  /\ pc = [t \in Threads |-> "idle"]
  /\ ack = [t \in Threads |-> "none"]
  /\ mark = [t \in Threads |-> 0]
  /\ flushes = 0
  /\ wpc = "recv" /\ hand = 0 /\ flushAck = NoThread
  /\ result = "ok" /\ unpublished = 0
  /\ log = <<>> /\ synced = 0 /\ failed = {}

-----------------------------------------------------------------------------
(* Logging threads: one emit_record or emit_metadata_frame is Checkout,    *)
(* then Send or Reject followed by CheckinRejected.                        *)

QueueFull    == Len(queue) >= QueueCapacity
Disconnected_AnySender == \E t \in Threads : pc[t] = "gone"
Disconnected == \A t \in Threads : pc[t] = "gone"

(* FramePool::checkin.  A buffer that its frame made larger than 4 times   *)
(* buffer_size is freed and a fresh one takes its place, which no counter  *)
(* shows; whichever it is goes to the pool, or is freed if that is full.   *)
Push == pool' = IF pool < FrameBufferCount THEN pool + 1 ELSE pool

FreshForOversized ==
  /\ replaced < MaxOversized
  /\ replaced' = replaced + 1

PoolPut_NoCapacity == pool' = pool + 1 /\ UNCHANGED replaced
PoolPut_DropsOversized == \/ Push /\ UNCHANGED replaced
                          \/ UNCHANGED buffers
PoolPut == Push /\ (UNCHANGED replaced \/ FreshForOversized)

Offered == accepted + dropped_frames + Cardinality({t \in Threads : pc[t] = "encoded"})

Checkout(t) ==
  /\ pc[t] = "idle"
  /\ Offered < MaxFrames
  /\ IF pool > 0
     THEN pool' = pool - 1 /\ UNCHANGED heap_fallbacks
     ELSE heap_fallbacks' = heap_fallbacks + 1 /\ UNCHANGED pool
  /\ UNCHANGED replaced
  /\ pc' = [pc EXCEPT ![t] = "encoded"]
  /\ UNCHANGED <<channel, written_frames, dropped_frames, write_errors,
                 ack, mark, flushes, worker, output>>

Send(t) ==
  /\ pc[t] = "encoded"
  /\ ~QueueFull
  /\ queue' = Append(queue, Frame(accepted + 1))
  /\ accepted' = accepted + 1
  /\ pc' = [pc EXCEPT ![t] = "idle"]
  /\ UNCHANGED <<taken, buffers, counters, ack, mark, flushes, worker, output>>

Reject(t) ==
  /\ pc[t] = "encoded"
  /\ QueueFull
  /\ dropped_frames' = dropped_frames + 1
  /\ pc' = [pc EXCEPT ![t] = "rejected"]
  /\ UNCHANGED <<channel, buffers, written_frames, write_errors, heap_fallbacks,
                 ack, mark, flushes, worker, output>>

CheckinRejected(t) ==
  /\ pc[t] = "rejected"
  /\ PoolPut
  /\ pc' = [pc EXCEPT ![t] = "idle"]
  /\ UNCHANGED <<channel, counters, ack, mark, flushes, worker, output>>

(* Handle::flush: create the acknowledgement channel, block until the      *)
(* message fits, block until the worker answers or drops the channel.      *)
BeginFlush(t) ==
  /\ pc[t] = "idle"
  /\ flushes < MaxFlushes
  /\ flushes' = flushes + 1
  /\ pc' = [pc EXCEPT ![t] = "sending"]
  /\ UNCHANGED <<channel, buffers, counters, ack, mark, worker, output>>

SendFlush(t) ==
  /\ pc[t] = "sending"
  /\ ~QueueFull
  /\ queue' = Append(queue, Flush(t, accepted))
  /\ ack' = [ack EXCEPT ![t] = "pending"]
  /\ mark' = [mark EXCEPT ![t] = accepted]
  /\ pc' = [pc EXCEPT ![t] = "waiting"]
  /\ UNCHANGED <<accepted, taken, buffers, counters, flushes, worker, output>>

FlushReturn(t) ==
  /\ pc[t] = "waiting"
  /\ ack[t] # "pending"
  /\ pc' = [pc EXCEPT ![t] = "idle"]
  /\ UNCHANGED <<channel, buffers, counters, ack, mark, flushes, worker, output>>

(* The thread drops its subscriber and handle, and with them its sender.   *)
DropSender(t) ==
  /\ pc[t] = "idle"
  /\ pc' = [pc EXCEPT ![t] = "gone"]
  /\ UNCHANGED <<channel, buffers, counters, ack, mark, flushes, worker, output>>

-----------------------------------------------------------------------------
(* The worker.  "recv" is the head of the outer loop, "drain" of the inner *)
(* one; process_frame is "write" and "checkin".                            *)

Receiving(from, kind) ==
  /\ wpc = from
  /\ queue # <<>>
  /\ Head(queue).kind = kind
  /\ queue' = Tail(queue)

TakeFrame ==
  /\ \E from \in {"recv", "drain"} : Receiving(from, "frame")
  /\ taken' = taken + 1
  /\ hand' = Head(queue).n
  /\ wpc' = "write"
  /\ UNCHANGED <<accepted, buffers, counters, threads, flushAck, result,
                 unpublished, output>>

RecvFlush ==
  /\ Receiving("recv", "flush")
  /\ flushAck' = Head(queue).by
  /\ wpc' = "drain"
  /\ UNCHANGED <<accepted, taken, buffers, counters, threads, hand, result,
                 unpublished, output>>

(* The acknowledgement channel held in flush_ack is overwritten: if it was *)
(* another thread's, that one is dropped and its receiver gets an error.   *)
Superseded_KeptAside == ack
Superseded == [t \in Threads |-> IF t = flushAck THEN "closed" ELSE ack[t]]

DrainFlush ==
  /\ Receiving("drain", "flush")
  /\ ack' = Superseded
  /\ flushAck' = Head(queue).by
  /\ wpc' = "publish"
  /\ UNCHANGED <<accepted, taken, buffers, counters, pc, mark, flushes, hand,
                 result, unpublished, output>>

DrainEmpty ==
  /\ wpc = "drain"
  /\ queue = <<>>
  /\ ~Disconnected
  /\ wpc' = "publish"
  /\ UNCHANGED <<channel, buffers, counters, threads, hand, flushAck, result,
                 unpublished, output>>

RecvClosed ==
  /\ wpc = "recv"
  /\ queue = <<>>
  /\ Disconnected
  /\ wpc' = "exit"
  /\ UNCHANGED <<channel, buffers, counters, threads, hand, flushAck, result,
                 unpublished, output>>

(* break 'outer also drops the flush_ack of this iteration.                *)
DrainClosed_Spins ==
  /\ wpc = "drain"
  /\ queue = <<>>
  /\ Disconnected
  /\ UNCHANGED vars

DrainClosed ==
  /\ wpc = "drain"
  /\ queue = <<>>
  /\ Disconnected
  /\ ack' = Superseded
  /\ flushAck' = NoThread
  /\ wpc' = "exit"
  /\ UNCHANGED <<channel, buffers, counters, pc, mark, flushes, hand, result,
                 unpublished, output>>

(* BufWriter::write_all succeeds: the frame joins the log.                 *)
WriteOk(through) ==
  /\ wpc = "write"
  /\ log' = Append(log, hand)
  /\ synced' = through
  /\ unpublished' = unpublished + 1
  /\ wpc' = "checkin"
  /\ UNCHANGED <<channel, buffers, counters, threads, hand, flushAck, result,
                 failed>>

Buffered == Len(log) - synced

WriteBuffered == Buffered < WriterFrames /\ WriteOk(synced)

(* The frame does not fit: the buffer is written out first.                *)
WriteSpill == Buffered > 0 /\ WriteOk(Len(log))

(* The frame is larger than the BufWriter and is written straight out.     *)
WriteDirect_Bypass ==
  /\ wpc = "write"
  /\ log' = SubSeq(log, 1, synced) \o <<hand>> \o SubSeq(log, synced + 1, Len(log))
  /\ synced' = synced + 1
  /\ unpublished' = unpublished + 1
  /\ wpc' = "checkin"
  /\ UNCHANGED <<channel, buffers, counters, threads, hand, flushAck, result,
                 failed>>

WriteDirect == WriteOk(Len(log) + 1)

(* Writing out the buffer stops at some frame, or the direct write fails.  *)
(* What is still buffered stays buffered; the frame in hand is lost.       *)
WriteFails ==
  /\ wpc = "write"
  /\ write_errors < MaxErrors
  /\ synced' \in synced..Len(log)
  /\ failed' = failed \union {hand}
  /\ write_errors' = write_errors + 1
  /\ wpc' = "checkin"
  /\ UNCHANGED <<channel, buffers, written_frames, dropped_frames, heap_fallbacks,
                 threads, hand, flushAck, result, unpublished, log>>

CheckinWritten ==
  /\ wpc = "checkin"
  /\ PoolPut
  /\ wpc' = "drain"
  /\ UNCHANGED <<channel, counters, threads, hand, flushAck, result,
                 unpublished, output>>

PublishWrittenFrames_NoReset ==
  /\ written_frames' = written_frames + unpublished
  /\ UNCHANGED unpublished

PublishWrittenFrames ==
  /\ written_frames' = written_frames + unpublished
  /\ unpublished' = 0

Publish_Skipped ==
  /\ wpc = "publish"
  /\ wpc' = IF flushAck = NoThread THEN "recv" ELSE "flush"
  /\ UNCHANGED <<channel, buffers, counters, threads, hand, flushAck, result,
                 unpublished, output>>

Publish ==
  /\ wpc = "publish"
  /\ PublishWrittenFrames
  /\ wpc' = IF flushAck = NoThread THEN "recv" ELSE "flush"
  /\ UNCHANGED <<channel, buffers, dropped_frames, write_errors, heap_fallbacks,
                 threads, hand, flushAck, result, output>>

(* writer.flush(): all that is buffered reaches the output.                *)
WriterFlushOk_Nothing == UNCHANGED <<log, synced, failed, write_errors>>

WriterFlushOk ==
  /\ synced' = Len(log)
  /\ UNCHANGED <<log, failed, write_errors>>

(* writer.flush() writes out some of the buffer, then fails; the rest      *)
(* stays buffered for the next attempt.                                    *)
WriterFlushFails ==
  /\ write_errors < MaxErrors
  /\ synced' \in synced..Len(log)
  /\ write_errors' = write_errors + 1
  /\ UNCHANGED <<log, failed>>

FlushWriter_IgnoresError ==
  /\ wpc = "flush"
  /\ WriterFlushOk \/ WriterFlushFails
  /\ result' = "ok"
  /\ wpc' = "ack"
  /\ UNCHANGED <<channel, buffers, written_frames, dropped_frames, heap_fallbacks,
                 threads, hand, flushAck, unpublished>>

FlushWriter ==
  /\ wpc = "flush"
  /\ \/ WriterFlushOk /\ result' = "ok"
     \/ WriterFlushFails /\ result' = "err"
  /\ wpc' = "ack"
  /\ UNCHANGED <<channel, buffers, written_frames, dropped_frames, heap_fallbacks,
                 threads, hand, flushAck, unpublished>>

SendAck ==
  /\ wpc = "ack"
  /\ ack' = [ack EXCEPT ![flushAck] = result]
  /\ flushAck' = NoThread
  /\ wpc' = "recv"
  /\ UNCHANGED <<channel, buffers, counters, pc, mark, flushes, hand, result,
                 unpublished, output>>

ExitPublish ==
  /\ wpc = "exit"
  /\ PublishWrittenFrames
  /\ wpc' = "exit_flush"
  /\ UNCHANGED <<channel, buffers, dropped_frames, write_errors, heap_fallbacks,
                 threads, hand, flushAck, result, output>>

ExitFlush ==
  /\ wpc = "exit_flush"
  /\ WriterFlushOk \/ WriterFlushFails
  /\ wpc' = "exit_drop"
  /\ UNCHANGED <<channel, buffers, written_frames, dropped_frames, heap_fallbacks,
                 threads, hand, flushAck, result, unpublished>>

(* Dropping the BufWriter writes out what is left and ignores errors.      *)
DropWriter ==
  /\ wpc = "exit_drop"
  /\ synced' \in synced..Len(log)
  /\ wpc' = "done"
  /\ UNCHANGED <<channel, buffers, counters, threads, hand, flushAck, result,
                 unpublished, log, failed>>

(* Every sender is gone and the worker has returned.                       *)
Terminated == wpc = "done" /\ UNCHANGED vars

-----------------------------------------------------------------------------
Thread(t) ==
  \/ Checkout(t)
  \/ Send(t)
  \/ Reject(t)
  \/ CheckinRejected(t)
  \/ BeginFlush(t)
  \/ SendFlush(t)
  \/ FlushReturn(t)
  \/ DropSender(t)

Worker ==
  \/ TakeFrame
  \/ RecvFlush
  \/ DrainFlush
  \/ DrainEmpty
  \/ RecvClosed
  \/ DrainClosed
  \/ WriteBuffered
  \/ WriteSpill
  \/ WriteDirect
  \/ WriteFails
  \/ CheckinWritten
  \/ Publish
  \/ FlushWriter
  \/ SendAck
  \/ ExitPublish
  \/ ExitFlush
  \/ DropWriter

Next == (\E t \in Threads : Thread(t)) \/ Worker \/ Terminated

Spec == Init /\ [][Next]_vars

(* A thread inside a call finishes it, the worker runs while it can; no    *)
(* thread has to log, to flush or to leave.                                *)
Fairness ==
  /\ WF_vars(Worker)
  /\ \A t \in Threads :
       WF_vars(Send(t) \/ Reject(t) \/ CheckinRejected(t)
                 \/ SendFlush(t) \/ FlushReturn(t))

FairSpec == Spec /\ Fairness

-----------------------------------------------------------------------------
(* Properties.                                                             *)

Delivered == {log[i] : i \in 1..synced}

(* A flush that returned Ok means that every frame accepted before it was  *)
(* requested, by any thread, reached the output or was lost to a write     *)
(* error (Handle::flush against the drain loop of run_worker).             *)
FlushCoversQueue ==
  \A t \in Threads : ack[t] = "ok" => 1..mark[t] \subseteq Delivered \union failed

(* Whatever an acknowledged flush returned, Handle::stats then accounts    *)
(* for every frame accepted before it: run_worker publishes its local      *)
(* count before it answers.                                                *)
FlushPublishesCounters ==
  \A t \in Threads :
    ack[t] \in {"ok", "err"} => mark[t] <= written_frames + Cardinality(failed)

(* Frames enter the output in the order in which try_send accepted them,   *)
(* none twice, and none whose write reported an error, however buffered    *)
(* and direct writes and failed flushes alternate (process_frame).         *)
FramesInOrder ==
  /\ \A i, j \in 1..Len(log) : i < j => log[i] < log[j]
  /\ \A i \in 1..Len(log) : log[i] \notin failed

(* An accounting identity: each accepted frame is counted exactly once, in *)
(* the channel, in the worker's hand, in its unpublished count, in         *)
(* Stats::written_frames or among the failed.  A frame counted as written  *)
(* may still be lost from the BufWriter, which LossIsVisible is about.     *)
FramesConserved ==
  accepted = Cardinality({i \in 1..Len(queue) : queue[i].kind = "frame"})
               + (IF wpc = "write" THEN 1 ELSE 0)
               + unpublished + written_frames + Cardinality(failed)

(* Buffers that hold a frame: with a thread, in the channel, or in         *)
(* process_frame.                                                          *)
InUse ==
  Cardinality({t \in Threads : pc[t] \in {"encoded", "rejected"}})
    + Cardinality({i \in 1..Len(queue) : queue[i].kind = "frame"})
    + (IF wpc \in {"write", "checkin"} THEN 1 ELSE 0)

Allocated == heap_fallbacks + replaced

GivenUp == Allocated - pool - InUse

(* Buffers circulate: of those that were ever allocated, one is given up   *)
(* only when it comes back oversized, and then a fresh one takes its       *)
(* place, or when what comes back meets a full pool, whatever became of    *)
(* its frame (sent, refused, written, failed).  A path that forgets its    *)
(* buffer would turn the pool into an allocation per record.               *)
Recycled ==
  LET oversized == replaced' - replaced
  IN \/ GivenUp' = GivenUp + oversized
     \/ pool = FrameBufferCount /\ GivenUp' = GivenUp + oversized + 1

BuffersRecycled == [][Recycled]_vars

(* A thread blocked in Handle::flush is never forgotten: its request is    *)
(* in the channel, or the worker holds its acknowledgement channel.        *)
FlushNotOrphaned ==
  \A t \in Threads :
    ack[t] = "pending" =>
      \/ flushAck = t
      \/ \E i \in 1..Len(queue) : queue[i].kind = "flush" /\ queue[i].by = t

(* run_worker leaves its loop only when nobody can send any more, nothing  *)
(* is left in the channel and nobody waits for an acknowledgement.         *)
WorkerExitsLast ==
  wpc \in {"exit", "exit_flush", "exit_drop", "done"} =>
    /\ queue = <<>>
    /\ flushAck = NoThread
    /\ \A t \in Threads : pc[t] = "gone" /\ ack[t] # "pending"

(* The sink implements the contract of FrameChannel.                       *)
Contract == INSTANCE FrameChannel WITH
  delivered <- Delivered, lost <- failed, flush <- ack

ImplementsFrameChannel == Contract!Spec

(* Handle::flush returns.                                                  *)
FlushReturns == \A t \in Threads : pc[t] = "sending" ~> pc[t] = "idle"

(* When the last sender is dropped the worker drains the channel and       *)
(* returns.                                                                *)
ShutdownDrains ==
  Disconnected ~> wpc = "done" /\ \A t \in Threads : pc[t] = "gone"

(* Stats catches up with what was accepted without anybody flushing.       *)
StatsCatchUp ==
  \A n \in 1..MaxFrames :
    accepted >= n ~> written_frames + Cardinality(failed) >= n

(* Claimed by the documentation of Handle::flush ("Flushes queued frames   *)
(* to the sink.", an error only when the sink thread is gone): a live      *)
(* worker answers every flush.  Two flushes met by the same drain loop     *)
(* refute it: the first acknowledgement channel is dropped.                *)
FlushAcknowledged == \A t \in Threads : ack[t] # "closed"

(* Claimed by the README ("visible loss/error counters"): once the worker  *)
(* has returned, the frames that were accepted and are not in the output   *)
(* are accounted for by write_errors.  A final flush that fails with       *)
(* several frames in the BufWriter counts one error for all of them.       *)
LossIsVisible == wpc = "done" => accepted - synced <= write_errors

=============================================================================

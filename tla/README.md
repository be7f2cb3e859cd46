# A verification of redline-log

TLA+ models of redline, the `tracing` subscriber and layer in this repository,
with the TLC configurations that check them on small instances and the proofs
TLAPS checks for every value of the constants.

Paths below are relative to the repository's root.

## The system

Threads log through `tracing`. A **subscriber** or a **layer** turns each event
into a record; a **pipeline** gives its callsite an id, encodes it into a pooled
buffer and offers the frame to a bounded **channel**; one **worker** thread
writes the frames to the output. `Handle::flush` sends a message through the
same channel and waits for the worker's answer.

| Component | State | Operations | Interacts through |
|---|---|---|---|
| Sink, `redline/src/sink.rs` | bounded mpsc channel, pool of buffers, atomic counters, the worker's locals (`written_frames`, `flush_ack`), `BufWriter` | checkout, try_send, checkin, run_worker (outer and drain loop), process_frame, publish | channel, pool, counters |
| Handle and Builder, `redline/src/config.rs` | clones of sender and counters | flush, stats, build | channel, acknowledgement channel |
| Pipeline, `redline/src/pipeline.rs` | registry (`next_id`, entries, `emitted`) behind a mutex, thread-local `LAST_CALLSITE` and `CALLSITE_CACHE` | register_callsite, metadata_id, ensure_callsite, emit_metadata_frame, mark_callsite_emitted, emit_record | registry lock, statics, channel |
| Subscriber, `redline/src/subscriber.rs` | span store behind a read-write lock, thread-local `CURRENT_SPANS` | new_span, clone_span, try_close, current_span, record, enter, exit, event | span store lock, statics, pipeline |
| Layer, `redline-layer/src/lib.rs` | span fields (`SpanState`) in the extensions of tracing-subscriber's registry | on_new_span, on_record, on_event | registry, pipeline |
| Filter, `redline-core/src/filter.rs` | none (sorted directives) | parse, enabled | pure |
| Records, `redline-core/src/record.rs` | none | capture, merge_fields | pure |
| Encoding and decoding, `redline-core/src/{encode,decode}.rs` | none | NDJSON, binary frames | pure |
| redline-decode, `redline-decode/src/main.rs` | metadata met so far | decode a log to NDJSON | the log |

What is hard here:

- **concurrency**: many threads and the worker share the channel, the pool and
  the counters; two flushes may meet in one drain loop; threads race to announce
  a callsite; span handles travel between threads while others walk the store;
- **thread-local statics** that outlive and cross pipelines and subscribers;
- **partial failure**: a full channel refuses one frame of two that belong
  together; a write fails with frames in the `BufWriter`; the last flush fails;
- **termination**: senders go away while the worker holds a flush;
- **user code under locks**: `Debug` implementations run inside `record()`.

What makes each component correct: *Sink*: a successful flush covers everything
accepted before it, each frame is counted once, nothing is reordered, buffers
circulate, nobody is left waiting, the worker drains before it leaves. *Pipeline*: ids are unique and
stable, and an id in a binary log can be resolved by the decoder. *Subscriber*:
a span lives exactly as long as its handles, an event names the span its thread
is in, its context is one moment's and complete as far as its spans are open, no
call gets stuck. *Layer*: an event names
exactly the spans its filter shows, with whole and current fields, though several
layers write to one slot. *Filter*: the most
specific target decides. *Codec*: what is encoded decodes to itself, and a
truncated log gives an error, never a wrong record; each record is one line of
JSON in either format.

## Modules

| Module | What it is |
|---|---|
| `FrameChannel` | the contract of the sink: accept, settle in order, a flush succeeds only when what precedes it is settled |
| `Sink` | the sink, one action per step another thread can observe; `Contract` is the refinement mapping to `FrameChannel` |
| `SinkProofs` | type correctness and the inductive invariant of `Sink`, the safety theorems, what has to be counted, and that `Sink` implements `FrameChannel` |
| `Pipeline` | callsite ids, thread-local caches and metadata frames, for several pipelines at once |
| `Spans` | the span store, the span stack and the span context of events |
| `SpanAncestry` | `Spans` with a history variable, the ancestors of every span, closed ones included; what an event's list must and need not hold |
| `Layer` | span fields in the registry, filtered scopes and events, for several layers over one registry |
| `PipelineProofs` | every property of `Pipeline` the runs check, with the invariants it takes |
| `SpansProofs` | type correctness, span contexts and the order of parents in `Spans`; then handles, guards and stacks: references, what an event names, what its list leaves out |
| `LayerProofs` | `Layer`'s tree of spans, its filtered scopes, `merge_fields`, the types of calls; then its inductive invariant and its three theorems |
| `Filter` | filter specifications: parsing, ordering, and what they enable |
| `FilterProofs` | every property of `Filter` the run checks: texts and paths, sorting, `parse` |
| `Codec` | binary frames, their decoder, and the lines both output formats amount to; operators only |
| `BinaryLog` | a binary log over two runs of the program, torn writes, and redline-decode; built on `Codec` |
| `CodecProofs` | what the decoder makes of what the encoder wrote, from integers up to frames; what it makes of a cut frame, and of any bytes |
| `LineProofs` | the two writers of JSON agree on strings, timestamps and whole lines |
| `LogProofs` | the inductive invariant of `BinaryLog` and every safety property of the run: types, unbroken lines, complete, torn and damaged logs |
| `MCSink`, `MCPipeline`, `MCSpans`, `MCLayer`, `MCFilter`, `MCBinaryLog` | the same for TLC: symmetry sets, targets, callsites and events |

Operators with a suffix (`WriteDirect_Bypass`, `Closed_AtZero`) are variants of the
definition that follows them with one plausible bug. No specification uses them;
substituted for that definition they show that a property can fail.

### Sink

A frame is the number of its acceptance; its bytes are not modelled.
`Checkout`, `Send`, `Reject`, `CheckinRejected` are one emit of a record or of a
metadata frame (`try_send_frame`), split where another thread can come between:
the pool's lock, the channel, the counter, the pool again. `BeginFlush`,
`SendFlush`, `FlushReturn` are `Handle::flush`. `DropSender` is a thread that
gives up its last clone of the sender.

The worker's `wpc` follows `run_worker`: `recv` is the blocking receive at the head
of the outer loop, `drain` the `try_recv` loop, `write` and `checkin` are
`process_frame`, `publish`, `flush` and `ack` what follows the drain loop, `exit`,
`exit_flush` and `exit_drop` what follows the outer one. `Superseded` is the
assignment to `flush_ack` that drops the channel it held.

`BufWriter` is std's. Without sizes, each `write_all` may fit the buffer
(`WriteBuffered`), force it out first (`WriteSpill`), bypass it (`WriteDirect`) or
fail (`WriteFails`) after any part of the buffer has gone out. What is still in
the buffer stays there. A frame that fails may have reached the output in part;
that is below this model.

`PoolPut` is `checkin`. A frame may have made its buffer larger than four times
`buffer_size`; then the buffer is freed and a fresh one goes to the pool in its place
(`FreshForOversized`), which no counter shows. Without sizes any buffer may be oversized.

Ghosts: `replaced` counts those fresh buffers, `accepted` and `taken` count frames into and out of the channel, `mark` is
the value of `accepted` when a flush was sent, `failed` the frames whose write
reported an error.

### Pipeline

`metadata_id` is `ResolveCached` or `Ensure`, and when metadata is due
`SendMetadata` or `DropMetadata`, then `MarkEmitted`; the registry's mutex makes
`Ensure` and `MarkEmitted` single steps, the send happens between them. A
reference carries, next to the id that is encoded, the callsite that was meant, the
thread that resolved it and whether this very call had its metadata refused: ghosts that
the properties need. Spans of a subscriber keep the id resolved at creation, in a store that all
threads share (`stored`, filled by `StoreSpan`, emptied by `CloseSpan`): the event of one thread
carries ids that another has resolved. Which of the stored spans make up the chain of an event is
left open (`SpanContexts`); that is what `Spans` is about. A layer resolves the
spans of an event's scope anew for each event, whoever created them. `register_callsite` is a step of its own
because tracing calls it for each subscriber, in no fixed order. The caches
hang on the thread, not on the pipeline, as in the code.

`DecodesTo` is what `redline-decode` does with an event's own id: the last metadata frame before
it that carries the id. For the ids of spans it is a claim about the log and not about the tool:
`redline-decode` prints them as numbers, and what they mean is in the same metadata frames.
`EventsDecode` excepts ids resolved by a thread that logs through several pipelines (`Loyal`), which
finding 4 is about; such an id may be stored with a span and reach the events of a thread
that does not.

### Spans

`AllocateId` and `InsertSpan` are `new_span`, on either side of the lock; the
parent is known before the call, from the caller or from the thread's own stack.
`CloneSpan` (the clone may go to another thread), `TryClose`, `Enter` and `Exit` are a
step each, because each is one critical section or touches only the
thread's own stack. `BeginEvent`, `ReadLock`, `Walk`, `ReadUnlock`, `Emit` are `event`: the
walk is step by step under the read lock, so that a chain without an end shows.

`BeginRecord` to `EndRecord` is `record()`, which visits the values with the store
write-locked. A value's `Debug` may log through the same subscriber (`DebugLogs`); when
that event needs the store (`NeedsStore`) its thread waits for the lock it holds
(`WaitsForItself`), and for as long as anybody waits so, others may wait too.
`CallsReturn` excepts these states and no others. `CurrentSpan` and `CloneCurrent` are
`Span::current()`: the id is looked up under the read lock and counted under the
write lock, in two critical sections.

A span does not keep its parent open. `SpanAncestry` remembers the ancestors of every span
past their closing, which the program does not, to say what the list of an event leaves out.
`ListedUnlessClosed`: an ancestor only if it, or a span between it and the event's, has no
handles left. `EnteredChainListed` is what the documentation says, and finding 6.

### Layer

The registry is tracing-subscriber's: ids, parents, and children that keep their
parents open are modelled from its interface, and which span a thread is in only
decides which id a call gets. Every call runs through the layers in turn in its
own thread (`GoThrough`); a layer whose filter does not let the callsite through
returns at once. `calls` is a stack per thread, because a value whose `Debug` logs
starts an event in the middle of another call (`MayLog`). In `on_new_span` and
`on_record` values are captured at stage `visit`, then the span's extensions are
locked (`Lock`), written and unlocked (`Store`). In `on_event`, `SnapshotSpan` copies the fields
of one span of the scope under its read lock, the root first; other threads may
record in between, so the context of a layer's event is not one moment's, and
`FieldsFresh` says what it is instead.

A write is a `new_span` or a `record` call, and a field's value is the number of its
write. `writes[w].before` holds the writes that had returned when `w` began, which is
the real-time order that stale values are measured against.

### Filter

A specification is the sequence of its pieces; `SkipBlank`, `BareLevel`, `Directive`,
`RejectTarget`, `RejectLevel` are one turn of `parse`'s loop each, `Finish` is
`TargetFilter::new`. Levels are numbers, OFF is 0. A target is a module path; the
code sees only `Text(path)`, on which `TargetMatches` and the sort work, and `Documented`
says on paths what the comment on `parse` says. Repeated rules for one target: the
first counts. Repeated bare levels: the last counts.

### Codec and BinaryLog

`Codec` has one operator for each push and each take. A take yields an error, or
a value and the rest of the input; `OrError` is the `?` operator and `Then` a take
after others. Widths of integers are constants. A line of JSON is a record of
what it says, so that the direct line (`NdjsonRecord`) and the one made from decoded
frames (`DecodedLine`) can be compared. They differ in one thing, which `Expected`
states: an empty span list is `"spans":[]` in the one and absent in the other. Strings
are sequences of characters, raw or escaped: `JsonString` copies the runs between two
escapes as encode.rs does, `DecodedString` goes byte by byte as redline-decode does.
`Text(writer, ...)` picks the one that writes the line.

`BinaryLog`: ids are positions in `announced`, counted from 0. `Announce` and `Log` append a frame, or once in a behaviour the beginning
of one (a direct write that fails half-way, or the end of the process); `Restart`
forgets the ids; `BeginDecode`, `ReadFrame` and `DecodeEnd` are redline-decode. A tear is
followed by nothing, by frames of the same run, or of the next. An event with more
fields or spans than a count can hold is written whole, with a count that wrapped
(`Measured`, which asks the same of the length in the header); `damage` tells the two apart:
`torn` as long as the tear is the end of the file, `inside` otherwise. `Output` is what `run()` lets out, which is nothing unless the log decodes to its
end.

## Runs

| Run | Constants | What it shows |
|---|---|---|
| `sink` | 2 threads, queue 2, pool 1, BufWriter of 2 frames, 2 frames, 2 flushes, 1 oversized buffer, 2 errors, no symmetry | the safety properties of the sink, that buffers circulate, that it implements `FrameChannel`, that flushes return, shutdown drains and the counters catch up |
| `sink_lost_ack` | queue 2, pool 2, 4 frames, 2 flushes, 1 error | **finding**: a flush fails although the worker is alive |
| `sink_loss_visible` | the same | **finding**: lost frames that no counter shows |
| `pipeline` | 2 threads, a subscriber and a layer with shared statics, 2 callsites, scopes of 1 span, queue 2, cache 1, 3 calls, 1 failed write; the subscriber's output is binary | races for metadata, refusals, evictions, spans entered by a thread that did not create them; ids resolved by threads that stay with one pipeline decode |
| `pipeline_meta_refused` | 1 pipeline, queue 1 | **finding**: an event whose metadata was refused |
| `pipeline_cross_cache` | as `pipeline`, both outputs binary, queue 1 | **finding**: an event whose metadata was never sent |
| `spans` | 2 threads, 1 subscriber, 2 spans, 2 handles each, 2 guards, 1 event, 1 update, 1 value that logs | reference counts, stacks, span contexts and what they leave out, calls that return |
| `spans_listed_twice` | 1 thread, 2 subscribers | **finding**: a span that is its own parent |
| `spans_chain_cut` | 1 thread, 1 subscriber, 3 spans, 1 handle each, 2 guards, 1 event | **finding**: an entered span is not listed, because a span in between is closed |
| `filter` | paths a, ab, a::a, a::ab; levels OFF, WARN, DEBUG; 3 pieces | the documented rule, the level hint, errors |
| `binary_log` | 16 byte values, integers of 1 to 3 bytes, 2 callsites, 3 events (one with as many fields as a count can hold and one more), texts with every kind of escape, 4 configurations, 4 frames, 2 runs, 1 tear at any byte | complete logs expand, torn ones are reported, the decoder ends |
| `layer` | 2 threads, 2 layers with different filters and configurations, 2 spans, 3 writes of the fields {a} or {a, b}, 1 event | filtered scopes, shared slots, races of updates, values that log |

Why these bounds are enough to be of use. A queue of 2 with 2 threads and the
worker lets a frame and a flush, or two flushes, be queued together, be full and be
refused. Two frames reach every path of the writer: the second meets the first in the
`BufWriter`, out of it, or lost, and two errors let a failing flush follow a failing write and meet
its leftovers. With a pool of one the second buffer that comes back meets a full pool. The two runs
of the sink's findings have four frames; the proofs have any number of everything. Two flushes by two threads are what the drain loop's overwrite needs;
a third is only another overwrite. The cache of one entry makes every second
callsite evict (the code's 8 entries only delay that). In `pipeline` the layer writes NDJSON: it shares
the caches and so fills them with ids of its own, and its log has no metadata to be checked; with
both outputs binary there are seven times as many states, and the theorems hold for any choice. Two spans give parent and
child (a closed span between two others takes three, in `spans_chain_cut`), two handles give a race of the last two references, and two guards every order of exits
that is not in order. A third piece in a filter specification is needed for a rule
between two others; "ab" has "a" as a prefix of its text and not as a parent. Sixteen
byte values hold every tag of the format, integers of two bytes can be cut in
their middle, and four frames are metadata and an event in each of two runs. With
2 spans a hidden parent has a visible child and the other way round; with 3 writes
two updates of a span race through both layers, and the event may come from a third
call's `Debug` or from a thread of its own. The counters of calls, frames, errors, spans, handles,
guards, records and events are bounds of the models and appear in their guards;
`Walk` has one more, the length of a chain, which no chain reaches that ends.

Every action fires in a passing run. `CHECK_DEADLOCK` is on everywhere: `Terminated`
and `Quiescent` allow the system to stop only where nobody is inside a call.

### Fairness

`Sink`: the worker is weakly fair (an OS thread that is never blocked for good), and
so is each thread for the steps that finish a call. Nothing makes a thread log,
flush or leave; so `ShutdownDrains` starts where the senders are gone. The
model's load is bounded. With load that never pauses the drain loop never ends,
counters are not published and a flush is not answered: `FlushReturns` and
`StatsCatchUp` are claims about load that pauses.
`Spans`: each thread is weakly fair for the steps that finish a call. A writer of
the store waits for the readers of the moment; the lock (parking_lot's) lets no
reader overtake a waiting writer for ever, which the bound on events stands for.
`Layer`: each thread is weakly fair for the steps of the calls it is in; a value logs only as
long as the bound on events lasts, so that nested calls end.
`Pipeline` has no liveness property: none of its steps waits for another thread.
`BinaryLog`: the decoder, a sequential program, is weakly fair; `DecoderEnds` is then
a claim about its loop.

## Findings

1. `Handle::flush` fails on a healthy sink when two flushes meet (`sink.rs:159`).
   The drain loop replaces `flush_ack`, which drops the first caller's channel.
2. `Stats` counts frames as written when the `BufWriter` takes them; a failing final
   flush loses them with one write error for all (`sink.rs:178-179`).
3. A full channel refuses a metadata frame, yet the event that needs it is sent
   (`pipeline.rs:183`): the decoder stops at an unknown id. The next call of the
   callsite sends the metadata again.
4. The caches of `pipeline.rs:22-23` are keyed by callsite only: a second pipeline
   on the same thread sends ids its log does not define, or defines otherwise.
5. `CURRENT_SPANS` holds ids without their subscriber (`subscriber.rs:23`): a span
   can become its own parent, and with `include_span_list` the next event never
   returns and its list grows without bound.
6. A child keeps no reference to its parent, and `build_span_context` stops at the first parent
   that is closed (`subscriber.rs:90`). A span that is still entered is missing from the list
   of its grandchild's events, though `encode.rs:21` and `config.rs:157` promise the full
   entered span chain.

One divergence has no run of its own: `encode.rs:41` says that metadata is sent once per
callsite, and threads that race for a callsite each send it (`pipeline.rs:174`). The decoder
takes the last frame and they agree, which `EventsDecode` and `IdsStable` cover; what holds
instead of the comment is `MetadataOncePerThread`.

## Proofs

| Theorem | Module | States |
|---|---|---|
| `TypeCorrect` | `SinkProofs` | `Spec => []TypeOK` |
| `FlushCovers` | `SinkProofs` | `Spec => []FlushCoversQueue` |
| `FlushPublishes` | `SinkProofs` | `Spec => []FlushPublishesCounters` |
| `OutputInOrder` | `SinkProofs` | `Spec => []FramesInOrder` |
| `FlushKept` | `SinkProofs` | `Spec => []FlushNotOrphaned` |
| `WorkerLast` | `SinkProofs` | `Spec => []WorkerExitsLast` |
| `NoFrameLost` | `SinkProofs` | `Spec => []FramesConserved` |
| `NoBufferForgotten` | `SinkProofs` | `Spec => BuffersRecycled` |
| `SinkImplementsContract` | `SinkProofs` | `Spec => Contract!Spec` |
| `PipelineTypeCorrect` | `PipelineProofs` | `Spec => []TypeOK` |
| `IdsNeverChange` | `PipelineProofs` | `Spec => IdsStable` |
| `IdsNeverShared` | `PipelineProofs` | `Spec => []IdsDistinct` |
| `CachesNeverAhead` | `PipelineProofs` | `Spec => []TrustedMeansAccepted` |
| `EventsAlwaysDecode` | `PipelineProofs` | `Spec => []EventsDecode` |
| `AnnouncedOncePerThread` | `PipelineProofs` | `Spec => []MetadataOncePerThread` |
| `SpansTypeCorrect` | `SpansProofs` | `Spec => []TypeOK` |
| `ContextOfOneMoment` | `SpansProofs` | `Spec => []ContextIsConsistent` |
| `ParentsComeFirst` | `SpansProofs` | `Spec => []ParentsOlder` |
| `StackHoldsTheGuards` | `SpansProofs` | `Spec => []StackMatchesGuards` |
| `ReferencesAreExact` | `SpansProofs` | `Spec => []StoredWhileReferenced` |
| `OnlyClosedSpansCutTheList` | `SpansProofs` | `SpecAncestry => []ListedUnlessClosed` |
| `EventsNameAnEnteredSpan` | `SpansProofs` | `Spec => []EventsNameTheirSpan` |
| `LayerTypeCorrect` | `LayerProofs` | `Spec => []TypeOK` |
| `SlotsNeverGoStale` | `LayerProofs` | `Spec => []FieldsFresh` |
| `ContextIsComplete` | `LayerProofs` | `Spec => []ContextComplete` |
| `FilterTypeCorrect` | `FilterProofs` | `Spec => []TypeOK` |
| `FirstErrorWins` | `FilterProofs` | `Spec => []FirstErrorReported` |
| `SortedByTextIsByPath` | `FilterProofs` | `Spec => []MostSpecificWins` |
| `HintIsSafe` | `FilterProofs` | `Spec => []HintLosesNothing` |
| `MetadataBack` | `CodecProofs` | a metadata payload decodes to its metadata and leaves nothing over |
| `EventBack` | `CodecProofs` | so does the payload of an event, for each configuration |
| `FrameBack` | `CodecProofs` | a frame followed by anything is read as it was written, up to its end |
| `FrameTorn` | `CodecProofs` | every proper beginning of a frame decodes to `UnexpectedEof` |
| `FrameSound` | `CodecProofs` | any bytes give a frame or one of the errors, and a frame that is read is not empty |
| `SameLine` | `LineProofs` | the line of a decoded event is that of the record, an empty span list aside |
| `WritersAgree` | `LineProofs` | `JsonString(bytes) = DecodedString(bytes)` for every sequence of bytes |
| `LinesNeverBreak` | `LogProofs` | `Spec => []TextsEscaped` |
| `LogTypes` | `LogProofs` | `Spec => []TypeOK` |
| `CompleteLogs` | `LogProofs` | `Spec => []CompleteLogExpands` |
| `TornTails` | `LogProofs` | `Spec => []TornTailReported` |
| `IntactPrefixes` | `LogProofs` | `Spec => []IntactPrefixDecodes` |

They rest on the assumptions of the modules and on nothing else. `SinkAssumption`: finitely
many threads, capacities of at least one (`Builder` and `FramePool::new` clamp them).
`PipelineAssumption`: finitely many threads and callsites, at least one pipeline, capacities of
at least one, and no more callsites than a `u32` has values, which `IdsDistinct` needs.
`SpansAssumption`: finitely many threads and subscribers, at least one of these.
`LayerAssumption`: finitely many threads, callsites and sets of names, at least one layer.
`FilterAssumption`: no name has a colon in it, which Rust's grammar of paths gives, and levels are
those there are. `CodecAssumption`: widths of at least one byte, a byte has room for the codes of the
format and is two hexadecimal digits, and the nanoseconds of a second fit a `u32`. `LogAssumption`: integers fit their
types, an optional value is one at most, strings are text, there are fewer callsites than a `u32` has values, the
nanoseconds are less than a second, and the clock shows at least one second after 1970. The last
is what the code relies on: `timestamp_now` (`pipeline.rs:130`) puts zero for a clock before the
epoch, and for zero seconds the two writers of timestamps print different digits. How many
fields, spans and bytes an event has is not assumed. The
bounds (`MaxFrames`, `MaxCalls`, `MaxEvents` and the like) are arbitrary naturals, so the
theorems hold for runs of any length.

### The sink

None of the properties is inductive: they speak of what was accepted when a
flush was requested and what is in the output when it is answered, and say
nothing of the queue in between. `IInv` closes the gap. `QueueChain`: the numbers of
frames and the marks of flushes run through the queue without a gap, from `taken`
to `accepted`, so that a received flush carries exactly `taken`. `FlushPending`: a
pending flush is in one place only, its thread waits, and the flush the worker
holds covers no more than `taken`. `WorkerState`: what each `wpc` implies, above all
that an answer `ok` finds the buffer empty and the counter published. `Settled`: each
frame taken is in the log, failed or in hand. `Counted`: the counters add up to
`taken`. A flush answered at `ack` then covers `1..taken`, all of it settled and
published. Each conjunct is preserved action by action; `QueueSteps`, `FrameSteps`
and `AckSteps` say which actions can disturb it.

The refinement needs two facts more: the worker is never ahead of `accepted`
(`QueueOrdered`), and frame numbers start at one (`Positive`). Steps that leave
`accepted`, `ack` and `mark` alone are `Settle` steps of the contract (`StepSettles`); the
others are its `Accept`, `Request` and `Complete`.

`NoFrameLost` counts the frames in the channel: one more when a frame is appended
(`OneMore`), one less when a frame is received (`OneLess`: the queue without its head, moved
down by one, is a bijection). With `QueueCount`, that what was accepted and not taken is
in the channel, and `Counted`, `FramesConserved` follows. It is an identity of counts: a frame that is counted as written can
still be lost from the `BufWriter`, which is finding 2. `BuffersRecycled` needs no more than the types: a step
hands a buffer over (`HandsOver`), which leaves the sum alone, or brings one back to the
pool (`ComesBack`), and if it is oversized one is allocated and one given up.

### The pipeline

`CallOK` ties the stage of a call to what it holds: metadata is sent and marked only for
a registered callsite of a binary pipeline. `Numbered`: `next_id` is the number of
entries, so ids are below it, differ, and never saturate. `Trust` is what `EventsDecode`
takes. `Announced`: a metadata frame carries the id registered for its callsite. `Marked`:
a mark comes after an accepted frame. `InCall`: so does the stage `mark`, and a thread is in a call
of a pipeline it has used. An id is `Reliable` when it is `Trusted` (registered and announced), or refused in
the very call that resolved it, if the thread that resolved it is loyal to the pipeline. `CachesTrusted`, `GotTrusted`,
`StoredTrusted` and `ContextTrusted` say so of the ids in a thread's caches, in its call, in the shared store of
spans and in what a call has copied from there; `ReturnsTrusted` shows it for each of
the four ways out of `metadata_id`. It does not matter who stores, closes or enters a span, since what is
relied on never ceases to hold, except that a thread may cease to be loyal. `Backed` carries this to the events in the channel. An
event is then preceded by a metadata frame of its callsite; if that was written, the last
frame with the same id (`LastOf`) has the same callsite, as ids are not shared
(`BackedDecodes`). Nothing in it depends on which thread wins a race. Without loyalty
the argument breaks where finding 4 is: a cached id is trusted for another pipeline.
`AnnouncedOncePerThread` has an invariant of its own: what a thread has sent is marked, or it is about
to mark it (`SentThenMarked`), and what it is about to send it has not sent (`NotSentYet`).

### Spans

`ContextOfOneMoment`: `Locked` says that readers and `record()` exclude each other, and
that a thread in the walk holds the read lock; so no step of another thread changes an
entry under a walk (`StoreKept`), and each step of the walk extends a chain that agrees with
the store (`ChainFollows`). `ParentsComeFirst`: every id in the store, in a guard or in a handle
was handed out by the counter (`Numbered`), and so was every id on a stack (`Rooted`), so a
parent was there before its child was named. It is stated for one subscriber; with two,
finding 5 refutes it.

The others extend the invariant (`GuardInv`). `Enter` adds one id to a stack and to the thread's
guards; `Exit` takes the last of that id from the one (`rposition`) and one guard from the other,
wherever it is (`StackMatchesGuards`, by counting). A guard borrows a handle (`Guarding`), so what is
on the stack is held, and a span that `current_span` has found is still held when its count
goes up (`FoundIsHeld`), though the two lie in different critical sections. `Issuance` says that a
stored id was given out and inserted, so that a new id is nobody's. With these, each action
changes the number of handles of all threads as it changes the count (`StoredWhileReferenced`): the
handles are a set, `HandlesOf`, that gains or loses one element when a thread's number changes by one
(`HandleAdded`, `HandleDropped`).
A walk ends early only at an id that was given out (`Named`) and is not stored, which nobody holds
then and, since ids are not given out twice, from then on (`Ended`). `OnlyClosedSpansCutTheList` is about
`SpanAncestry`, whose history agrees with the store on every stored span (`Descends`): what a walk has
copied and the line of what it has ahead are together the line of the event's span (`Followed`), so that at the
end only the line of a closed span is missing. For `EventsNameTheirSpan`,
`Ordered` says that the stack of a thread that is in no span twice is its guards in their
order (`twice` is a history variable for just that), and `Contextual` that the stack stands still
while its thread is in an event.

### Layers

What `FieldsFresh` says of an emitted event holds of the slots themselves, as of now:
`SlotsFresh` says of each open span that some layer sees that its slot has every name the
returned writes gave it, with a value not older than the last of them began. An update takes the
slot's lock, merges over what is there and unlocks in one step, so a value that a
returned write has put there is only replaced by a call that had not returned when that
write began (`Dated`, `Alone`). A span that is being created is nobody else's yet (`Writing`). An event
reads the spans of its scope one after the other, each slot at least as fresh
as when the event began (`Walking`, `Reporting`). `ContextComplete` follows from the walk: what
a layer has read and what it has still to read are the visible spans of the scope in order, and the tree
only grows (`Grown`), so a scope does not change while it is read. For the tree, `Older` (a
parent was created first) is what makes scopes finite and lets `Ancestors` and `InContext`, which are
recursive functions, be unfolded.

### Filters

`MostSpecificWins` compares two languages, texts and paths, and the proof translates. The line of a path
(its text and a separator behind every segment) begins the line of another exactly if the path does
(`LineBegins`): a separator cannot lie inside a name, so the first segments that differ show in the
text. This is the only place where names without colons matter. Hence a directive
matches what its path is a parent of (`MatchesPrefix`), and of the parents of one path
the longer text is the deeper path (`LongerIsDeeper`); for paths that are not parents of one
target that is false, and not needed. Sorting is stated by its result, a bijection in which
earlier directives are longer or as long and given first; `Ranked` shows that it exists, by counting
what comes before each element. The invariant says what `parse` has collected: the
rules read, in their order (`RulesRead`), the last bare level (`BareRead`), nothing malformed so far
(`WellFormed`). The first match is then deeper than the others or as deep and earlier
(`AheadIsDeeper`), which is what `Documented` asks for.

### The binary format

A take gives back what its push was given and leaves the bytes behind it: proved for integers of
any width (`LittleEndian` and `FromLittleEndian`, by induction over the width), then strings,
optional parts, field values, lists, fields, spans, and from these for both payloads (`MetadataBack`,
`EventBack`) and for frames (`FrameBack`). A list is read back as long as its count fits a `u16`, a
string as long as its length fits a `u32`; a frame whose length fits has no longer string
in it. `RECURSIVE` is not used: the recursive functions (digits, folds, `Repeat`) are met through
their equations, and a function that satisfies the equations of another step by step is that one
(`Iteration`, `Agree`). For a cut frame (`FrameTorn`) the header is too short, or whole and promises
more than there is. For arbitrary bytes (`FrameSound`) each take yields one of the errors or a
rest that is part of its input; so each round of redline-decode's loop shortens what is left, which
is the measure behind `DecoderEnds`.

### Logs

The properties of `BinaryLog` speak of the end of decoding, long after the frames were written. The
invariant `WholeLog` carries what is needed in between: the file is a part that parses and a tail.
There is a sequence of cursors `c[0..k]` (`Parse`), each one whole frame behind the one before
(`Follows`), with the table of metadata and the lines the decoder has at that point. `FileIs`: the
last cursor is the end of that part, its lines are those owed, and as long as nothing is damaged
its table gives each callsite announced in this run its id of this run (`Known`), whatever it held from
an earlier run. A tail that is torn begins a frame and ends inside it (`Broken`). A frame that is
written whole extends the sequence by one cursor (`FrameBack`, `SameLine`); one that is cut becomes the
tail (`FrameTorn`); one whose counts or length wrapped ends the part that parses. `ReadIs`: while
redline-decode runs it stands at one of the cursors with exactly its table and lines, or beyond all
of them in a log that is damaged inside, and then the lines owed are a beginning of its own. The sequence
is under an unbounded quantifier, which TLC cannot evaluate: the run checks what follows from it.

### Lines

`SameLine` puts a line together from its parts: `Digits` of the seconds followed by the padded
`Fraction` are the digits of the nanoseconds since the epoch (`SameTimestamp`), and texts are equal by
`WritersAgree`. `WritersAgree`: after each byte, what `push_json_string` of encode.rs has copied is the escaped text up
to the last byte that needed an escape, and the rest of the run copies as it is
(`CopiedRun`). redline-decode's writer escapes each byte by itself. `LinesNeverBreak` then needs no more than
that either writer escapes every text of a line, also one decoded from garbage.

### Only model-checked

All liveness, which is out of the prover's reach under fairness: `FlushReturns`, `ShutdownDrains`,
`StatsCatchUp`, `CallsReturn` and `DecoderEnds`. Every invariant and every action property of
a passing run is also a theorem.

## Not modelled

The text of numbers other than the timestamp (itoa's and ryu's; a float that is not
finite is no JSON), a clock before the epoch (whose seconds of 0 give the direct
timestamp leading zeros, which JSON does not allow in a number), the spelling of
levels, opening files, stdout and stderr, the arguments of redline-decode, the setters of
the two builders (their clamps are assumptions on constants), installing the
dispatcher, the clock, and the detached worker at process exit (which is why
only a successful flush promises anything). In `Spans` and `Layer` a value logs an event
and makes no other call. The span's own tree and its closing in `Layer` are the
registry's. `redline-core/src/lib.rs` has only re-exports, and the examples have no
logic of their own.

## Plan

1. Done: all the modules above, with a theorem for each safety property that a run checks.
2. Next: what the liveness properties rest on, as far as it is safety. That a thread in a call or the
   worker always has a step it can take, unless it waits for one that has; that each
   pass of the worker's drain loop takes a message; that the walk over parents gets older.
3. Next: how a decoded frame may differ from the written one when a count wraps, and a
   contract of the whole path (an accepted event is a line of the expanded log), composed of the
   theorems about `Sink`, `Pipeline` and `BinaryLog`.

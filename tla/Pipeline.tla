------------------------------ MODULE Pipeline ------------------------------
(***************************************************************************)
(* Callsite metadata in redline (redline/src/pipeline.rs) and its use by   *)
(* the subscriber and by the layer: the registry of callsite ids behind a  *)
(* mutex, the thread-local caches in front of it, the metadata frame sent  *)
(* before the first event of a callsite in binary mode, and the bounded    *)
(* channel that may refuse a frame.                                        *)
(*                                                                         *)
(* The thread-local caches are statics: one per thread, shared by every    *)
(* pipeline that logs on that thread, and keyed by the callsite alone.     *)
(* The subscriber's spans, on the other hand, are shared by all threads:   *)
(* an event carries the metadata ids its spans were created with, by       *)
(* whichever thread created them.                                          *)
(***************************************************************************)
EXTENDS Naturals, Sequences, FiniteSets, Functions

CONSTANTS
  Threads,
  Pipelines,       \* RedlineSubscriber and RedlineLayer instances
  Layers,          \* the pipelines that belong to a RedlineLayer
  Binary,          \* the pipelines built with OutputFormat::Binary
  EventSites,      \* enabled event callsites
  SpanSites,       \* enabled span callsites
  QueueCapacity,   \* Builder::queue_capacity
  CacheCapacity,   \* inline capacity of CALLSITE_CACHE (8 in the code)
  MaxId,           \* largest metadata id (u32::MAX in the code)
  MaxCalls,        \* bound: spans and events per run
  MaxScope,        \* bound: spans in the scope of an event of a layer
  MaxLost          \* bound: failed writes per run

Callsites == EventSites \union SpanSites

ASSUME PipelineAssumption ==
  /\ IsFiniteSet(Callsites) /\ IsFiniteSet(Threads)
  /\ Pipelines # {}
  /\ Layers \subseteq Pipelines
  /\ Binary \subseteq Pipelines
  /\ QueueCapacity \in Nat \ {0}
  /\ CacheCapacity \in Nat \ {0}
  /\ MaxId \in Nat /\ Cardinality(Callsites) <= MaxId
  /\ MaxCalls \in Nat /\ MaxScope \in Nat /\ MaxLost \in Nat

VARIABLES
  \* CallsiteRegistry, per pipeline.
  nextId,      \* next_id
  idOf,        \* entries: the ids assigned so far
  emitted,     \* callsites whose entry has emitted = true
  \* The channel and the output, per pipeline.
  stream,      \* frames accepted by try_send, in order
  received,    \* how many of them the worker has received
  lost,        \* those received whose write failed
  dropped,     \* dropped_frames: how many try_send refused
  stored,      \* the metadata_id of every span in the SpanStore, per pipeline
  \* Thread-local statics.
  last,        \* LAST_CALLSITE
  cache,       \* CALLSITE_CACHE
  \* The call a thread is making.
  pc,
  pipe,        \* its pipeline
  goal,        \* "event", or "span" for new_span of the subscriber
  todo,        \* callsites whose metadata_id it has yet to call
  got,         \* references resolved so far, the event's own first
  context,     \* references of the spans copied for the event
  used,        \* ghost: pipelines the thread has logged through
  calls        \* calls begun, for the bound

registry == <<nextId, idOf, emitted>>
output   == <<stream, received, lost, dropped>>
statics  == <<last, cache>>
call     == <<pc, pipe, goal, todo, got, context, used, calls>>
vars     == <<registry, output, stored, statics, call>>

(* What metadata_id returned.  Encoded is the id; the rest is ghost: the   *)
(* callsite that was meant, the thread that resolved it, and whether the   *)
(* id was returned although the metadata frame of this very call was       *)
(* refused.                                                                *)
Ref == [site : Callsites, id : Nat, by : Threads, refused : BOOLEAN]

MetaFrame  == [kind : {"meta"}, site : Callsites, id : Nat, by : Threads]
EventFrame == [kind : {"event"}, own : Ref, spans : SUBSET Ref, by : Threads]

Registered(p) == DOMAIN idOf[p]

(* The type invariant.                                                     *)
TypeOK ==
  /\ nextId \in [Pipelines -> 0..MaxId]
  /\ DOMAIN idOf = Pipelines
  /\ \A p \in Pipelines :
       Registered(p) \subseteq Callsites /\ idOf[p] \in [Registered(p) -> 0..MaxId]
  /\ emitted \in [Pipelines -> SUBSET Callsites]
  /\ DOMAIN stream = Pipelines
  /\ \A p \in Pipelines : stream[p] \in Seq(MetaFrame \union EventFrame)
  /\ received \in [Pipelines -> Nat]
  /\ \A p \in Pipelines :
       /\ received[p] <= Len(stream[p])
       /\ Len(stream[p]) - received[p] <= QueueCapacity
  /\ lost \in [Pipelines -> SUBSET Nat]
  /\ dropped \in [Pipelines -> Nat]
  /\ stored \in [Pipelines -> SUBSET Ref]
  /\ last \in [Threads -> SUBSET Ref]
  /\ cache \in [Threads -> Seq(Ref)]
  /\ \A t \in Threads : Len(cache[t]) <= CacheCapacity
  /\ pc \in [Threads -> {"idle", "resolve", "sendmeta", "mark", "context", "emit"}]
  /\ pipe \in [Threads -> Pipelines]
  /\ goal \in [Threads -> {"event", "span"}]
  /\ todo \in [Threads -> Seq(Callsites)]
  /\ got \in [Threads -> Seq(Ref)]
  /\ context \in [Threads -> SUBSET Ref]
  /\ used \in [Threads -> SUBSET Pipelines]
  /\ calls \in Nat

(* A thread outside of a call has no locals; this is what they are then.   *)
NoPipeline == CHOOSE p \in Pipelines : TRUE

Init ==
  /\ nextId = [p \in Pipelines |-> 0]
  /\ idOf = [p \in Pipelines |-> <<>>]
  /\ emitted = [p \in Pipelines |-> {}]
  /\ stream = [p \in Pipelines |-> <<>>]
  /\ received = [p \in Pipelines |-> 0]
  /\ lost = [p \in Pipelines |-> {}]
  /\ dropped = [p \in Pipelines |-> 0]
  /\ stored = [p \in Pipelines |-> {}]
  /\ last = [t \in Threads |-> {}]
  /\ cache = [t \in Threads |-> <<>>]
  /\ pc = [t \in Threads |-> "idle"]
  /\ pipe = [t \in Threads |-> NoPipeline]
  /\ goal = [t \in Threads |-> "event"]
  /\ todo = [t \in Threads |-> <<>>]
  /\ got = [t \in Threads |-> <<>>]
  /\ context = [t \in Threads |-> {}]
  /\ used = [t \in Threads |-> {}]
  /\ calls = 0

-----------------------------------------------------------------------------
(* The registry.                                                           *)

(* next_id.saturating_add(1)                                               *)
SaturatingSucc(n) == IF n < MaxId THEN n + 1 ELSE MaxId

IdFor(p, c) == IF c \in Registered(p) THEN idOf[p][c] ELSE nextId[p]

(* The part of ensure_callsite that changes the registry.                  *)
EnsureCallsite_NoAdvance(p, c) ==
  IF c \in Registered(p)
  THEN UNCHANGED registry
  ELSE /\ idOf' = [idOf EXCEPT ![p] = [x \in Registered(p) \union {c} |-> IdFor(p, x)]]
       /\ UNCHANGED <<nextId, emitted>>

EnsureCallsite_Reassign(p, c) ==
  /\ idOf' = [idOf EXCEPT ![p] = [x \in Registered(p) \union {c} |->
                                    IF x = c THEN nextId[p] ELSE idOf[p][x]]]
  /\ nextId' = [nextId EXCEPT ![p] = SaturatingSucc(@)]
  /\ UNCHANGED emitted

EnsureCallsite(p, c) ==
  IF c \in Registered(p)
  THEN UNCHANGED registry
  ELSE /\ idOf' = [idOf EXCEPT ![p] = [x \in Registered(p) \union {c} |-> IdFor(p, x)]]
       /\ nextId' = [nextId EXCEPT ![p] = SaturatingSucc(@)]
       /\ UNCHANGED emitted

(* Does ensure_callsite hand out metadata to be sent?                      *)
MetadataDue_FirstUseOnly(p, c) == p \in Binary /\ c \notin Registered(p)
MetadataDue(p, c) == p \in Binary /\ c \notin emitted[p]

(* register_callsite of an enabled callsite, which tracing calls for every *)
(* live subscriber, in an order that may differ between them.              *)
RegisterCallsite(p, c) ==
  /\ c \notin Registered(p)
  /\ EnsureCallsite(p, c)
  /\ UNCHANGED <<output, stored, statics, call>>

-----------------------------------------------------------------------------
(* The channel.                                                            *)

QueueFull(p) == Len(stream[p]) - received[p] >= QueueCapacity

Accept(p, frame) ==
  /\ ~QueueFull(p)
  /\ stream' = [stream EXCEPT ![p] = Append(@, frame)]
  /\ UNCHANGED <<received, lost, dropped>>

Drop(p) ==
  /\ QueueFull(p)
  /\ dropped' = [dropped EXCEPT ![p] = @ + 1]
  /\ UNCHANGED <<stream, received, lost>>

(* The worker receives the next frame and writes it, or fails to.          *)
Receive(p) ==
  /\ received[p] < Len(stream[p])
  /\ received' = [received EXCEPT ![p] = @ + 1]
  /\ \/ UNCHANGED lost
     \/ /\ Cardinality(UNION {{q} \X lost[q] : q \in Pipelines}) < MaxLost
        /\ lost' = [lost EXCEPT ![p] = @ \union {received[p] + 1}]
  /\ UNCHANGED <<registry, stream, dropped, stored, statics, call>>

-----------------------------------------------------------------------------
(* The thread-local caches.                                                *)

CacheHits(t, c) == {i \in 1..Len(cache[t]) : cache[t][i].site = c}

(* What cached_metadata_id finds: LAST_CALLSITE first, then the cache.     *)
Cached(t, c) ==
  LET hit == {r \in last[t] : r.site = c}
  IN IF hit # {} THEN hit ELSE {cache[t][i] : i \in CacheHits(t, c)}

(* cache_metadata_id: update the entry, or evict the oldest when full.     *)
CacheWith_NoEviction(t, r) ==
  IF CacheHits(t, r.site) # {}
  THEN [i \in 1..Len(cache[t]) |-> IF cache[t][i].site = r.site THEN r ELSE cache[t][i]]
  ELSE Append(cache[t], r)

CacheWith(t, r) ==
  IF CacheHits(t, r.site) # {}
  THEN [i \in 1..Len(cache[t]) |-> IF cache[t][i].site = r.site THEN r ELSE cache[t][i]]
  ELSE Append(IF Len(cache[t]) = CacheCapacity THEN Tail(cache[t]) ELSE cache[t], r)

Cache(t, r) ==
  /\ last' = [last EXCEPT ![t] = {r}]
  /\ cache' = [cache EXCEPT ![t] = CacheWith(t, r)]

-----------------------------------------------------------------------------
(* Calls into the subscriber or the layer.                                 *)

Begin(t, p, kind, sites) ==
  /\ pc[t] = "idle"
  /\ calls < MaxCalls
  /\ calls' = calls + 1
  /\ pc' = [pc EXCEPT ![t] = "resolve"]
  /\ pipe' = [pipe EXCEPT ![t] = p]
  /\ goal' = [goal EXCEPT ![t] = kind]
  /\ todo' = [todo EXCEPT ![t] = sites]
  /\ got' = [got EXCEPT ![t] = <<>>]
  /\ used' = [used EXCEPT ![t] = @ \union {p}]
  /\ UNCHANGED <<registry, output, stored, statics, context>>

(* RedlineSubscriber::event                                                *)
BeginEvent(t, p, c) ==
  /\ p \notin Layers
  /\ Begin(t, p, "event", <<c>>)

(* RedlineLayer::on_event resolves the spans of its scope anew for every   *)
(* event, whichever thread created them.                                   *)
BeginLayerEvent(t, p, c) ==
  /\ p \in Layers
  /\ \E n \in 0..MaxScope : \E scope \in [1..n -> SpanSites] :
       Begin(t, p, "event", <<c>> \o scope)

(* RedlineSubscriber::new_span; RedlineLayer::on_new_span resolves nothing.*)
BeginSpan(t, p, c) ==
  /\ p \notin Layers
  /\ Begin(t, p, "span", <<c>>)

(* try_close of the last handle, by any thread.                            *)
CloseSpan(p, r) ==
  /\ r \in stored[p]
  /\ stored' = [stored EXCEPT ![p] = @ \ {r}]
  /\ UNCHANGED <<registry, output, statics, call>>

(* The call is over and its locals are gone.                               *)
Return(t) ==
  /\ pc' = [pc EXCEPT ![t] = "idle"]
  /\ pipe' = [pipe EXCEPT ![t] = NoPipeline]
  /\ goal' = [goal EXCEPT ![t] = "event"]
  /\ todo' = [todo EXCEPT ![t] = <<>>]
  /\ got' = [got EXCEPT ![t] = <<>>]
  /\ context' = [context EXCEPT ![t] = {}]
  /\ UNCHANGED <<used, calls>>

Goto(t, where) ==
  /\ pc' = [pc EXCEPT ![t] = where]
  /\ UNCHANGED <<pipe, goal, todo, got, context, used, calls>>

(* metadata_id returned r, and there are more callsites to resolve or an   *)
(* event to complete.                                                      *)
Continue(t, r) ==
  /\ todo' = [todo EXCEPT ![t] = Tail(@)]
  /\ got' = [got EXCEPT ![t] = Append(@, r)]
  /\ pc' = [pc EXCEPT ![t] = IF Len(todo[t]) > 1 THEN "resolve" ELSE "context"]
  /\ UNCHANGED <<stored, pipe, goal, context, used, calls>>

(* metadata_id returned r to new_span, which inserts it with the span into *)
(* the store that all threads share.                                       *)
StoreSpan(t, r) ==
  /\ stored' = [stored EXCEPT ![pipe[t]] = @ \union {r}]
  /\ Return(t)

Resolved(t, r) == IF goal[t] = "event" THEN Continue(t, r) ELSE StoreSpan(t, r)

(* metadata_id finds the callsite in a thread-local cache.  A hit in       *)
(* CALLSITE_CACHE becomes LAST_CALLSITE.                                   *)
ResolveCached(t) ==
  /\ pc[t] = "resolve"
  /\ \E r \in Cached(t, Head(todo[t])) :
       /\ last' = [last EXCEPT ![t] = {r}]
       /\ Resolved(t, r)
  /\ UNCHANGED <<registry, output, cache>>

(* metadata_id takes the registry's lock.                                  *)
Ensure(t) ==
  LET p == pipe[t]
      c == Head(todo[t])
      r == [site |-> c, id |-> IdFor(p, c), by |-> t, refused |-> FALSE]
  IN /\ pc[t] = "resolve"
     /\ Cached(t, c) = {}
     /\ EnsureCallsite(p, c)
     /\ IF MetadataDue(p, c)
        THEN Goto(t, "sendmeta") /\ UNCHANGED <<stored, statics>>
        ELSE Resolved(t, r) /\ Cache(t, r)
     /\ UNCHANGED output

(* The reference registered for the callsite being resolved.               *)
Current(t) ==
  [site |-> Head(todo[t]), id |-> idOf[pipe[t]][Head(todo[t])],
   by |-> t, refused |-> FALSE]

(* emit_metadata_frame, outside the lock.                                  *)
SendMetadata(t) ==
  /\ pc[t] = "sendmeta"
  /\ Accept(pipe[t], [kind |-> "meta", site |-> Current(t).site,
                      id |-> Current(t).id, by |-> t])
  /\ Goto(t, "mark")
  /\ UNCHANGED <<registry, stored, statics>>

(* The metadata frame is refused: the id is used all the same, uncached.   *)
DropMetadata_Cached(t) ==
  /\ pc[t] = "sendmeta"
  /\ Drop(pipe[t])
  /\ Cache(t, Current(t))
  /\ Resolved(t, [Current(t) EXCEPT !.refused = TRUE])
  /\ UNCHANGED registry

DropMetadata(t) ==
  /\ pc[t] = "sendmeta"
  /\ Drop(pipe[t])
  /\ Resolved(t, [Current(t) EXCEPT !.refused = TRUE])
  /\ UNCHANGED <<registry, statics>>

(* mark_callsite_emitted, then cache_metadata_id.                          *)
MarkEmitted_Forgotten(t) ==
  /\ pc[t] = "mark"
  /\ Cache(t, Current(t))
  /\ Resolved(t, Current(t))
  /\ UNCHANGED <<registry, output>>

MarkEmitted(t) ==
  /\ pc[t] = "mark"
  /\ emitted' = [emitted EXCEPT ![pipe[t]] = @ \union {Head(todo[t])}]
  /\ Cache(t, Current(t))
  /\ Resolved(t, Current(t))
  /\ UNCHANGED <<nextId, idOf, output>>

(* The layer's event carries the ids it has just resolved; the             *)
(* subscriber's the ids stored with the span it is in or names and with    *)
(* the ancestors of that span, which may be any of the spans stored now.   *)
SpanContexts(t) ==
  IF pipe[t] \in Layers THEN {Range(Tail(got[t]))} ELSE SUBSET stored[pipe[t]]

BuildSpanContext(t) ==
  /\ pc[t] = "context"
  /\ pc' = [pc EXCEPT ![t] = "emit"]
  /\ \E spans \in SpanContexts(t) : context' = [context EXCEPT ![t] = spans]
  /\ UNCHANGED <<registry, output, stored, statics, pipe, goal, todo, got, used, calls>>

(* emit_record: the event frame is accepted or refused.                    *)
Emit(t) ==
  /\ pc[t] = "emit"
  /\ \/ Accept(pipe[t], [kind |-> "event", own |-> Head(got[t]),
                         spans |-> context[t], by |-> t])
     \/ Drop(pipe[t])
  /\ Return(t)
  /\ UNCHANGED <<registry, stored, statics>>

-----------------------------------------------------------------------------
Thread(t) ==
  \/ \E p \in Pipelines, c \in EventSites : BeginEvent(t, p, c)
  \/ \E p \in Pipelines, c \in EventSites : BeginLayerEvent(t, p, c)
  \/ \E p \in Pipelines, c \in SpanSites : BeginSpan(t, p, c)
  \/ ResolveCached(t)
  \/ Ensure(t)
  \/ SendMetadata(t)
  \/ DropMetadata(t)
  \/ MarkEmitted(t)
  \/ BuildSpanContext(t)
  \/ Emit(t)

(* Nobody is in a call.                                                    *)
Quiescent == (\A t \in Threads : pc[t] = "idle") /\ UNCHANGED vars

Next ==
  \/ Quiescent
  \/ \E t \in Threads : Thread(t)
  \/ \E p \in Pipelines : Receive(p)
  \/ \E p \in Pipelines : \E r \in stored[p] : CloseSpan(p, r)
  \/ \E p \in Pipelines, c \in Callsites : RegisterCallsite(p, c)

Spec == Init /\ [][Next]_vars

-----------------------------------------------------------------------------
(* Properties.                                                             *)

(* Frame i of p, if written, tells the decoder what the id of r stands for.*)
Announces(p, i, r) ==
  /\ stream[p][i].kind = "meta"
  /\ stream[p][i].id = r.id

(* What redline-decode makes of a reference met in frame i: it knows the   *)
(* last metadata frame before i that carries the id and was written.       *)
DecodesTo(p, i, r) ==
  \E j \in (1..i - 1) \ lost[p] :
    /\ Announces(p, j, r)
    /\ stream[p][j].site = r.site
    /\ \A k \in (j + 1..i - 1) \ lost[p] : ~Announces(p, k, r)

(* A metadata frame of the callsite was accepted, then not written.        *)
MetadataLost(p, c) ==
  \E j \in lost[p] \intersect (1..Len(stream[p])) :
    stream[p][j].kind = "meta" /\ stream[p][j].site = c

Events(p) == {i \in 1..Len(stream[p]) : stream[p][i].kind = "event"}

(* A thread that has logged through no pipeline but this one.              *)
Loyal(t, p) == used[t] \subseteq {p}

(* In the log of a binary pipeline every metadata id of an event, its own  *)
(* or a span's, decodes to the callsite that was meant, whoever raced to   *)
(* send the metadata and whichever thread resolved the id of the span,     *)
(* unless the metadata frame of that very call was refused, or one was     *)
(* lost to a write error.  In particular a refused metadata frame is sent  *)
(* again by the next call.  Ids resolved by a thread that logs through     *)
(* several pipelines are excepted: its caches mix the ids of all.          *)
(* redline-decode looks up the event's own id only; it prints the ids of   *)
(* spans as they are, for the reader of the log to look up.                *)
EventsDecode ==
  \A p \in Binary : \A i \in Events(p) :
    \A r \in {stream[p][i].own} \union stream[p][i].spans :
      Loyal(r.by, p) => r.refused \/ DecodesTo(p, i, r) \/ MetadataLost(p, r.site)

Accepted(p, c) ==
  \E i \in 1..Len(stream[p]) :
    stream[p][i].kind = "meta" /\ stream[p][i].site = c

(* What lets metadata_id skip the metadata frame is never ahead of the     *)
(* channel: a callsite marked emitted, or found in a thread-local cache,   *)
(* has a metadata frame that was accepted.                                 *)
TrustedMeansAccepted ==
  \A p \in Binary :
    /\ \A c \in emitted[p] : Accepted(p, c)
    /\ \A t \in Threads : Loyal(t, p) =>
         \A r \in last[t] \union Range(cache[t]) : Accepted(p, r.site)

(* Metadata may be sent by several threads that race for a callsite, but   *)
(* by each of them at most once, even when the callsite is evicted from    *)
(* the thread's cache in between.                                          *)
MetadataOncePerThread ==
  \A p \in Pipelines : \A i, j \in 1..Len(stream[p]) :
    ( /\ stream[p][i].kind = "meta" /\ stream[p][j].kind = "meta"
      /\ stream[p][i].site = stream[p][j].site
      /\ stream[p][i].by = stream[p][j].by ) => i = j

(* Two callsites of a pipeline never share an id.                          *)
IdsDistinct ==
  \A p \in Pipelines : \A c, d \in Registered(p) :
    idOf[p][c] = idOf[p][d] => c = d

(* An id, once handed out, is the callsite's for good: frames already in   *)
(* the channel and ids already stored in spans rely on it.                 *)
IdsStable ==
  [][\A p \in Pipelines : \A c \in Registered(p) :
       c \in DOMAIN idOf'[p] /\ idOf'[p][c] = idOf[p][c]]_vars

(* Claimed by CallsiteMetadata's documentation ("Static metadata sent once *)
(* per callsite in binary mode.") and by the README ("expand binary logs   *)
(* back into NDJSON"): an event in the log never precedes the metadata it  *)
(* needs.  A full channel refutes it: the metadata frame is refused and    *)
(* the event accepted.                                                     *)
MetadataPrecedesEvents ==
  \A p \in Binary : lost[p] = {} =>
    \A i \in Events(p) : DecodesTo(p, i, stream[p][i].own)

(* The same claim for a log from which nothing is missing: no frame of the *)
(* pipeline was refused or failed.  A thread that has logged the callsite  *)
(* through another pipeline refutes it.                                    *)
CompleteLogDecodes ==
  \A p \in Binary : (lost[p] = {} /\ dropped[p] = 0) =>
    \A i \in Events(p) : DecodesTo(p, i, stream[p][i].own)

=============================================================================

------------------------------- MODULE Spans --------------------------------
(***************************************************************************)
(* Spans in RedlineSubscriber (redline/src/subscriber.rs): the span store  *)
(* behind a read-write lock, the reference counts that tracing's handles   *)
(* drive, the thread-local stack CURRENT_SPANS and the walk that collects  *)
(* the span context of an event.                                           *)
(*                                                                         *)
(* CURRENT_SPANS is a static: one stack of bare ids per thread, whatever   *)
(* subscriber the ids belong to.                                           *)
(*                                                                         *)
(* Id 0 stands for None; fetch_add starts at 1.  The fields of a span are  *)
(* the number of updates recorded on it.                                   *)
(***************************************************************************)
EXTENDS Naturals, Sequences, SequencesExt, FiniteSets, Functions

CONSTANTS
  Threads,
  Subscribers,        \* RedlineSubscriber instances
  IncludeSpanList,    \* EncodeConfig::include_span_list
  IncludeCurrentSpan, \* EncodeConfig::include_current_span
  MaxSpans,           \* bound: spans created per subscriber
  MaxHandles,         \* bound: handles of a span
  MaxDepth,           \* bound: guards a thread holds
  MaxRecords,         \* bound: updates recorded on a span
  MaxLoggingValues,   \* bound: recorded values whose Debug logs an event
  MaxEvents           \* bound: events

ASSUME SpansAssumption ==
  /\ IsFiniteSet(Threads) /\ IsFiniteSet(Subscribers) /\ Subscribers # {}
  /\ IncludeSpanList \in BOOLEAN /\ IncludeCurrentSpan \in BOOLEAN
  /\ MaxSpans \in Nat /\ MaxHandles \in Nat /\ MaxDepth \in Nat
  /\ MaxRecords \in Nat /\ MaxLoggingValues \in Nat /\ MaxEvents \in Nat

VARIABLES
  \* RedlineSubscriber.
  next_span_id,  \* per subscriber
  entries,       \* SpanStore, per subscriber: id |-> parent, refs and fields
  readers,       \* threads that hold the store's read lock
  \* CURRENT_SPANS, per thread.
  stack,
  \* tracing's side of each thread: Span handles and Entered guards.
  handles,       \* how many handles of each span it owns
  guards,        \* its guards, oldest first
  twice,         \* history: threads that entered a span they were in, not yet out of all
  \* The call a thread is making.
  pc,
  sub,           \* its subscriber
  made,          \* id of new_span, record or current_span
  cursor,        \* parent of new_span; cursor of build_span_context
  contextual,    \* does the event take the current span?
  chain,         \* chain of build_span_context, innermost span first
  events,        \* events so far, for the bound
  logging        \* values so far whose Debug logs, for the bound

store  == <<next_span_id, entries, readers>>
entered == <<guards, twice>>
client == <<handles, entered>>
call   == <<pc, sub, made, cursor, contextual, chain, events, logging>>
vars   == <<store, stack, client, call>>

Id   == 1..MaxSpans
Span == Subscribers \X Id

Stored(s) == DOMAIN entries[s]

SpanData == [parent : Id \union {0}, refs : Nat \ {0}, fields : Nat]

PcOfCall == {"idle", "new", "current", "record", "nested", "event", "walk", "emit"}

(* The type invariant.                                                     *)
TypeOK ==
  /\ next_span_id \in [Subscribers -> 1..MaxSpans + 1]
  /\ DOMAIN entries = Subscribers
  /\ \A s \in Subscribers :
       Stored(s) \subseteq Id /\ entries[s] \in [Stored(s) -> SpanData]
  /\ readers \in [Subscribers -> SUBSET Threads]
  /\ stack \in [Threads -> Seq(Id)]
  /\ handles \in [Threads -> [Span -> Nat]]
  /\ guards \in [Threads -> Seq(Span)] /\ twice \subseteq Threads
  /\ pc \in [Threads -> PcOfCall]
  /\ sub \in [Threads -> Subscribers]
  /\ made \in [Threads -> Id \union {0}]
  /\ cursor \in [Threads -> Id \union {0}]
  /\ contextual \in [Threads -> BOOLEAN]
  /\ chain \in [Threads -> Seq([id : Id, fields : Nat])]
  /\ events \in Nat /\ logging \in Nat

NoSubscriber == CHOOSE s \in Subscribers : TRUE

Init ==
  /\ next_span_id = [s \in Subscribers |-> 1]
  /\ entries = [s \in Subscribers |-> <<>>]
  /\ readers = [s \in Subscribers |-> {}]
  /\ stack = [t \in Threads |-> <<>>]
  /\ handles = [t \in Threads |-> [x \in Span |-> 0]]
  /\ guards = [t \in Threads |-> <<>>] /\ twice = {}
  /\ pc = [t \in Threads |-> "idle"]
  /\ sub = [t \in Threads |-> NoSubscriber]
  /\ made = [t \in Threads |-> 0]
  /\ cursor = [t \in Threads |-> 0]
  /\ contextual = [t \in Threads |-> FALSE]
  /\ chain = [t \in Threads |-> <<>>]
  /\ events = 0 /\ logging = 0

-----------------------------------------------------------------------------
(* The store's lock.  record() keeps the write lock while it visits the    *)
(* values; the other writers hold it for one step, in which nobody reads.  *)
Writing(t, s) == pc[t] \in {"record", "nested"} /\ sub[t] = s

Readable(s) == \A t \in Threads : ~Writing(t, s)

Writable_Unlocked(s) == TRUE
Writable(s) == readers[s] = {} /\ Readable(s)

Current(t) == IF stack[t] = <<>> THEN 0 ELSE Last(stack[t])

(* Ids an application may have got hold of, those of closed spans included.*)
Issued(s) ==
  (1..next_span_id[s] - 1) \ {made[t] : t \in {u \in Threads : pc[u] = "new" /\ sub[u] = s}}

(* The call is over and its locals are gone.                               *)
Return(t) ==
  /\ pc' = [pc EXCEPT ![t] = "idle"]
  /\ sub' = [sub EXCEPT ![t] = NoSubscriber]
  /\ made' = [made EXCEPT ![t] = 0]
  /\ cursor' = [cursor EXCEPT ![t] = 0]
  /\ contextual' = [contextual EXCEPT ![t] = FALSE]
  /\ chain' = [chain EXCEPT ![t] = <<>>]
  /\ UNCHANGED <<events, logging>>

Holds(t, x) == handles[t][x] > 0

(* A handle that is borrowed by a guard cannot be dropped.                 *)
Borrowed(t, x) == handles[t][x] = 1 /\ x \in Range(guards[t])

(* The handles of a span: the first, second, ... of each thread.           *)
HandlesOf(x) == UNION {{t} \X (1..handles[t][x]) : t \in Threads}

References(x) == Cardinality(HandlesOf(x))

-----------------------------------------------------------------------------
(* Creating a span: new_span takes an id and resolves the parent, then     *)
(* inserts the span under the write lock.                                  *)

ResolveParent(t, s) == {Current(t), 0} \union Issued(s)

AllocateId_LowestFree(t, s) ==
  /\ pc[t] = "idle"
  /\ next_span_id[s] <= MaxSpans
  /\ next_span_id' = [next_span_id EXCEPT ![s] = @ + 1]
  /\ pc' = [pc EXCEPT ![t] = "new"]
  /\ sub' = [sub EXCEPT ![t] = s]
  /\ \E id \in (1..next_span_id[s]) \ Stored(s) :
       /\ \A other \in (1..next_span_id[s]) \ Stored(s) : id <= other
       /\ made' = [made EXCEPT ![t] = id]
  /\ \E parent \in ResolveParent(t, s) : cursor' = [cursor EXCEPT ![t] = parent]
  /\ UNCHANGED <<entries, readers, stack, client, contextual, chain, events, logging>>

AllocateId(t, s) ==
  /\ pc[t] = "idle"
  /\ next_span_id[s] <= MaxSpans
  /\ next_span_id' = [next_span_id EXCEPT ![s] = @ + 1]
  /\ pc' = [pc EXCEPT ![t] = "new"]
  /\ sub' = [sub EXCEPT ![t] = s]
  /\ made' = [made EXCEPT ![t] = next_span_id[s]]
  /\ \E parent \in ResolveParent(t, s) : cursor' = [cursor EXCEPT ![t] = parent]
  /\ UNCHANGED <<entries, readers, stack, client, contextual, chain, events, logging>>

InsertSpan(t) ==
  LET s == sub[t]
  IN /\ pc[t] = "new"
     /\ Writable(s)
     /\ entries' = [entries EXCEPT ![s] =
          [id \in Stored(s) \union {made[t]} |->
             IF id = made[t] THEN [parent |-> cursor[t], refs |-> 1, fields |-> 0]
             ELSE @[id]]]
     /\ handles' = [handles EXCEPT ![t][<<s, made[t]>>] = 1]
     /\ Return(t)
     /\ UNCHANGED <<next_span_id, readers, stack, entered>>

-----------------------------------------------------------------------------
(* Handles.                                                                *)

(* What clone_span makes of the store.                                     *)
Referenced(s, id) ==
  IF id \in Stored(s) THEN [entries EXCEPT ![s][id].refs = @ + 1] ELSE entries

(* clone_span, for a handle that goes to thread u.                         *)
CloneSpan_Uncounted(t, u, x) ==
  /\ pc[t] = "idle"
  /\ Holds(t, x)
  /\ References(x) < MaxHandles
  /\ handles' = [handles EXCEPT ![u][x] = @ + 1]
  /\ UNCHANGED <<store, stack, entered, call>>

CloneSpan(t, u, x) ==
  LET s  == x[1]
      id == x[2]
  IN /\ pc[t] = "idle"
     /\ Holds(t, x)
     /\ References(x) < MaxHandles
     /\ Writable(s)
     /\ entries' = Referenced(s, id)
     /\ handles' = [handles EXCEPT ![u][x] = @ + 1]
     /\ UNCHANGED <<next_span_id, readers, stack, entered, call>>

(* What try_close leaves of the store.                                     *)
Closed_AtZero(s, id) ==
  IF id \in Stored(s) /\ entries[s][id].refs > 0
  THEN [entries EXCEPT ![s][id].refs = @ - 1]
  ELSE [entries EXCEPT ![s] = Restrict(@, Stored(s) \ {id})]

Closed(s, id) ==
  IF id \in Stored(s) /\ entries[s][id].refs > 1
  THEN [entries EXCEPT ![s][id].refs = @ - 1]
  ELSE [entries EXCEPT ![s] = Restrict(@, Stored(s) \ {id})]

TryClose(t, x) ==
  /\ pc[t] = "idle"
  /\ Holds(t, x) /\ ~Borrowed(t, x)
  /\ Writable(x[1])
  /\ entries' = Closed(x[1], x[2])
  /\ handles' = [handles EXCEPT ![t][x] = @ - 1]
  /\ UNCHANGED <<next_span_id, readers, stack, entered, call>>

-----------------------------------------------------------------------------
(* record: the values are visited with the write lock held, which calls    *)
(* the application's Debug.                                                *)

BeginRecord(t, x) ==
  LET s  == x[1]
      id == x[2]
  IN /\ pc[t] = "idle"
     /\ Holds(t, x)
     /\ Writable(s)
     /\ id \in Stored(s) /\ entries[s][id].fields < MaxRecords
     /\ pc' = [pc EXCEPT ![t] = "record"]
     /\ sub' = [sub EXCEPT ![t] = s]
     /\ made' = [made EXCEPT ![t] = id]
     /\ UNCHANGED <<store, stack, client, cursor, contextual, chain, events, logging>>

(* Debug logs an event through the subscriber.                             *)
DebugLogs(t) ==
  /\ pc[t] = "record"
  /\ logging < MaxLoggingValues
  /\ logging' = logging + 1
  /\ pc' = [pc EXCEPT ![t] = "nested"]
  /\ UNCHANGED <<store, stack, client, sub, made, cursor, contextual, chain, events>>

(* That event's build_span_context reads the store, unless it need not;    *)
(* the lock is not reentrant.                                              *)
NeedsStore(id) == (IncludeCurrentSpan \/ IncludeSpanList) /\ id # 0

DebugReturns(t) ==
  /\ pc[t] = "nested"
  /\ NeedsStore(Current(t)) => Readable(sub[t])
  /\ pc' = [pc EXCEPT ![t] = "record"]
  /\ UNCHANGED <<store, stack, client, sub, made, cursor, contextual, chain, events, logging>>

EndRecord(t) ==
  /\ pc[t] = "record"
  /\ entries' = [entries EXCEPT ![sub[t]][made[t]].fields = @ + 1]
  /\ Return(t)
  /\ UNCHANGED <<next_span_id, readers, stack, client>>

-----------------------------------------------------------------------------
(* Span::current(): current_span, then a clone_span of what it returned.   *)

CurrentSpan(t, s) ==
  /\ pc[t] = "idle"
  /\ Readable(s)
  /\ Current(t) \in Stored(s)
  /\ References(<<s, Current(t)>>) < MaxHandles
  /\ pc' = [pc EXCEPT ![t] = "current"]
  /\ sub' = [sub EXCEPT ![t] = s]
  /\ made' = [made EXCEPT ![t] = Current(t)]
  /\ UNCHANGED <<store, stack, client, cursor, contextual, chain, events, logging>>

CloneCurrent(t) ==
  LET s  == sub[t]
      id == made[t]
  IN /\ pc[t] = "current"
     /\ Writable(s)
     /\ entries' = Referenced(s, id)
     /\ handles' = [handles EXCEPT ![t][<<s, id>>] = @ + 1]
     /\ Return(t)
     /\ UNCHANGED <<next_span_id, readers, stack, entered>>

-----------------------------------------------------------------------------
(* Entering and leaving a span.                                            *)

Enter_OncePerSpan(t, x) ==
  /\ pc[t] = "idle"
  /\ Holds(t, x)
  /\ Len(guards[t]) < MaxDepth
  /\ guards' = [guards EXCEPT ![t] = Append(@, x)]
  /\ stack' = [stack EXCEPT ![t] = IF x[2] \in Range(@) THEN @ ELSE Append(@, x[2])]
  /\ twice' = IF x \in Range(guards[t]) THEN twice \union {t} ELSE twice
  /\ UNCHANGED <<store, handles, call>>

Enter(t, x) ==
  /\ pc[t] = "idle"
  /\ Holds(t, x)
  /\ Len(guards[t]) < MaxDepth
  /\ guards' = [guards EXCEPT ![t] = Append(@, x)]
  /\ stack' = [stack EXCEPT ![t] = Append(@, x[2])]
  /\ twice' = IF x \in Range(guards[t]) THEN twice \union {t} ELSE twice
  /\ UNCHANGED <<store, handles, call>>

(* exit pops the id, or removes its last occurrence.                       *)
Popped_TopOnly(st, id) == IF st # <<>> /\ Last(st) = id THEN Front(st) ELSE st

Popped(st, id) ==
  LET i == SelectLastInSeq(st, LAMBDA candidate : candidate = id)
  IN IF i = 0 THEN st ELSE RemoveAt(st, i)

(* Guards are dropped in any order.                                        *)
Exit(t, i) ==
  /\ pc[t] = "idle"
  /\ stack' = [stack EXCEPT ![t] = Popped(@, guards[t][i][2])]
  /\ guards' = [guards EXCEPT ![t] = RemoveAt(@, i)]
  /\ twice' = IF Len(guards[t]) = 1 THEN twice \ {t} ELSE twice
  /\ UNCHANGED <<store, handles, call>>

-----------------------------------------------------------------------------
(* An event: event_parent, then build_span_context under the read lock,    *)
(* then the record is emitted.                                             *)

BeginEvent(t, s) ==
  /\ pc[t] = "idle"
  /\ events < MaxEvents
  /\ events' = events + 1
  /\ pc' = [pc EXCEPT ![t] = "event"]
  /\ sub' = [sub EXCEPT ![t] = s]
  /\ \/ /\ cursor' = [cursor EXCEPT ![t] = Current(t)]
        /\ contextual' = [contextual EXCEPT ![t] = TRUE]
     \/ /\ \E parent \in {0} \union Issued(s) : cursor' = [cursor EXCEPT ![t] = parent]
        /\ UNCHANGED contextual
  /\ UNCHANGED <<store, stack, client, made, chain, logging>>

(* No context is asked for, or the event is in no span.                    *)
SkipContext(t) ==
  /\ pc[t] = "event"
  /\ ~NeedsStore(cursor[t])
  /\ pc' = [pc EXCEPT ![t] = "emit"]
  /\ UNCHANGED <<store, stack, client, sub, made, cursor, contextual, chain, events, logging>>

ReadLock(t) ==
  /\ pc[t] = "event"
  /\ NeedsStore(cursor[t])
  /\ Readable(sub[t])
  /\ readers' = [readers EXCEPT ![sub[t]] = @ \union {t}]
  /\ pc' = [pc EXCEPT ![t] = "walk"]
  /\ UNCHANGED <<next_span_id, entries, stack, client, sub, made, cursor,
                 contextual, chain, events, logging>>

(* The walk is over at a root, at a span that is closed, and after the     *)
(* current span when the list is not asked for.                            *)
WalkOver_CurrentOnly(t) ==
  \/ cursor[t] \notin Stored(sub[t])
  \/ chain[t] # <<>>

WalkOver(t) ==
  \/ cursor[t] \notin Stored(sub[t])
  \/ ~IncludeSpanList /\ chain[t] # <<>>

Snapshot(t) == [id |-> cursor[t], fields |-> entries[sub[t]][cursor[t]].fields]

Walk(t) ==
  /\ pc[t] = "walk"
  /\ ~WalkOver(t)
  /\ Len(chain[t]) <= MaxSpans      \* bound of the model, not of the code
  /\ chain' = [chain EXCEPT ![t] = Append(@, Snapshot(t))]
  /\ cursor' = [cursor EXCEPT ![t] = entries[sub[t]][@].parent]
  /\ UNCHANGED <<store, stack, client, pc, sub, made, contextual, events, logging>>

ReadUnlock_Leak(t) ==
  /\ pc[t] = "walk"
  /\ WalkOver(t)
  /\ pc' = [pc EXCEPT ![t] = "emit"]
  /\ UNCHANGED <<store, stack, client, sub, made, cursor, contextual, chain, events, logging>>

ReadUnlock(t) ==
  /\ pc[t] = "walk"
  /\ WalkOver(t)
  /\ readers' = [readers EXCEPT ![sub[t]] = @ \ {t}]
  /\ pc' = [pc EXCEPT ![t] = "emit"]
  /\ UNCHANGED <<next_span_id, entries, stack, client, sub, made, cursor,
                 contextual, chain, events, logging>>

Emit(t) ==
  /\ pc[t] = "emit"
  /\ Return(t)
  /\ UNCHANGED <<store, stack, client>>

-----------------------------------------------------------------------------
(* A call under way.                                                       *)
Step(t) ==
  \/ InsertSpan(t)
  \/ CloneCurrent(t)
  \/ DebugReturns(t)
  \/ EndRecord(t)
  \/ SkipContext(t)
  \/ ReadLock(t)
  \/ Walk(t)
  \/ ReadUnlock(t)
  \/ Emit(t)

Thread(t) ==
  \/ \E s \in Subscribers : AllocateId(t, s)
  \/ \E u \in Threads, x \in Span : CloneSpan(t, u, x)
  \/ \E x \in Span : TryClose(t, x)
  \/ \E x \in Span : BeginRecord(t, x)
  \/ DebugLogs(t)
  \/ \E s \in Subscribers : CurrentSpan(t, s)
  \/ \E x \in Span : Enter(t, x)
  \/ \E i \in 1..Len(guards[t]) : Exit(t, i)
  \/ \E s \in Subscribers : BeginEvent(t, s)
  \/ Step(t)

(* A thread waits for the lock it holds itself.                            *)
WaitsForItself(t) == pc[t] = "nested" /\ NeedsStore(Current(t))

(* Nobody is in a call and nobody need make another one; or some thread    *)
(* waits for itself, and the others may have to wait for it.               *)
Quiescent ==
  /\ (\A t \in Threads : pc[t] = "idle") \/ (\E t \in Threads : WaitsForItself(t))
  /\ UNCHANGED vars

Next == (\E t \in Threads : Thread(t)) \/ Quiescent

Spec == Init /\ [][Next]_vars

(* A thread inside a call finishes it, if it can.                          *)
Fairness == \A t \in Threads : WF_vars(Step(t))

FairSpec == Spec /\ Fairness

-----------------------------------------------------------------------------
(* Properties.                                                             *)

OneSubscriber == Cardinality(Subscribers) = 1

(* With one subscriber, a span is in the store as long as anybody has a    *)
(* handle of it, and no longer; its reference count is the number of       *)
(* handles over all threads (new_span, clone_span and try_close, whatever  *)
(* their order).  With several, Span::current() may find another one's id  *)
(* on the stack, and the span with that id be closed before it is cloned.  *)
StoredWhileReferenced ==
  OneSubscriber =>
    \A s \in Subscribers : \A id \in Id :
      IF References(<<s, id>>) = 0
      THEN id \notin Stored(s)
      ELSE id \in Stored(s) /\ entries[s][id].refs = References(<<s, id>>)

(* The thread's stack holds an id for each of its guards and nothing else, *)
(* in whatever order guards are dropped and even when spans of several     *)
(* subscribers have the same id (exit against enter).                      *)
StackMatchesGuards ==
  \A t \in Threads :
    /\ Len(stack[t]) = Len(guards[t])
    /\ \A id \in Id :
         Cardinality({i \in 1..Len(stack[t]) : stack[t][i] = id})
           = Cardinality({i \in 1..Len(guards[t]) : guards[t][i][2] = id})

(* With one subscriber, an event logged inside a span names, as its        *)
(* current span, a span that this thread has entered and not left, though  *)
(* the id was read from the stack before the store was locked and other    *)
(* threads drop their handles in between.  It is the innermost one, in     *)
(* whatever order guards went, unless the thread has entered a span that   *)
(* it was in already: exit then may take away the id of the wrong guard.   *)
EventsNameTheirSpan ==
  \A t \in Threads :
    (/\ OneSubscriber /\ IncludeCurrentSpan
     /\ pc[t] = "emit" /\ contextual[t] /\ guards[t] # <<>>) =>
      /\ chain[t] # <<>>
      /\ chain[t][1].id \in {x[2] : x \in Range(guards[t])}
      /\ t \notin twice => chain[t][1].id = Last(guards[t])[2]

(* The span context is one moment's: while it is being collected, what was *)
(* copied stays true of the store (the read lock of build_span_context).   *)
ContextIsConsistent ==
  \A t \in Threads : pc[t] = "walk" =>
    \A i \in 1..Len(chain[t]) :
      /\ chain[t][i].id \in Stored(sub[t])
      /\ chain[t][i].fields = entries[sub[t]][chain[t][i].id].fields
      /\ i < Len(chain[t]) =>
           entries[sub[t]][chain[t][i].id].parent = chain[t][i + 1].id

(* With one subscriber a span is younger than its parent, so that chains   *)
(* of parents end: ids are handed out in order and never again.            *)
ParentsOlder ==
  OneSubscriber =>
    \A s \in Subscribers : \A id \in Stored(s) : entries[s][id].parent < id

(* With one subscriber every call returns while other threads read and     *)
(* write the store: no lock is kept and no walk goes on for ever.  The one *)
(* exception is a value whose Debug logs from inside a span while record() *)
(* visits it with the store locked: its thread waits for itself.           *)
CallsReturn ==
  OneSubscriber =>
    \A t \in Threads :
      pc[t] # "idle" ~> pc[t] = "idle" \/ (\E u \in Threads : WaitsForItself(u))

(* Claimed by EncodeConfig's documentation ("Include the full entered span *)
(* chain."): no span is listed twice.  A span of another subscriber that   *)
(* is current on the thread refutes it: its id becomes the parent of a     *)
(* span with the same id, and the walk goes around in a circle.            *)
ListedOnce ==
  \A t \in Threads : \A i, j \in 1..Len(chain[t]) :
    chain[t][i].id = chain[t][j].id => i = j

=============================================================================

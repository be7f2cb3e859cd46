------------------------------- MODULE Layer --------------------------------
(***************************************************************************)
(* RedlineLayer (redline-layer/src/lib.rs): redline as a layer over        *)
(* tracing-subscriber's Registry.                                          *)
(*                                                                         *)
(* The Registry keeps the tree of spans and knows which one each thread is *)
(* in; it is modelled by the ids it hands out.  A span's fields live in its*)
(* extensions, behind a read-write lock, in one slot of type SpanState     *)
(* that all the RedlineLayers over a Registry share although each has its  *)
(* own filter.  The callbacks run in the calling thread, layer by layer;   *)
(* capturing a value runs its Debug implementation, which may log.         *)
(*                                                                         *)
(* Every call that gives a span fields (new_span, record) is a write, and  *)
(* the value of a field is the number of the write it was captured from.   *)
(***************************************************************************)
EXTENDS Naturals, Sequences, SequencesExt, FiniteSets, Functions

CONSTANTS
  Threads,
  LayerCount,   \* RedlineLayers, numbered as they were added with with()
  Sites,        \* metadata of spans and events
  EnabledSites, \* per layer: the sites its filter lets through
  ListsSpans,   \* layers with EncodeConfig::include_span_list
  NamesCurrent, \* layers with EncodeConfig::include_current_span
  FieldSets,    \* the sets of fields that calls give
  MaxSpans,     \* bound: spans created
  MaxWrites,    \* bound: new_span and record calls
  MaxEvents     \* bound: events, those that Debug logs included

Layers == 1..LayerCount
FieldNames == UNION FieldSets

ASSUME LayerAssumption ==
  /\ IsFiniteSet(Threads) /\ IsFiniteSet(Sites) /\ IsFiniteSet(FieldSets)
  /\ \A f \in FieldSets : IsFiniteSet(f)
  /\ LayerCount \in Nat \ {0}
  /\ EnabledSites \in [Layers -> SUBSET Sites]
  /\ ListsSpans \subseteq Layers /\ NamesCurrent \subseteq Layers
  /\ MaxSpans \in Nat /\ MaxWrites \in Nat /\ MaxEvents \in Nat

VARIABLES
  \* The Registry.
  spans,    \* the spans created, by id: parent (0 is none) and site
  slots,    \* SpanState of the open spans that have one
  writer,   \* per span: threads that hold its extensions for writing
  \* The application.
  held,     \* spans it has a handle of
  calls,    \* per thread: the calls it is in, the innermost last
  events,   \* events so far, for the bound
  \* History of the writes.
  writes,   \* span and names of each, and the writes over before it began
  returned  \* those that are over

registry == <<spans, slots, writer>>
app      == <<held, events>>
history  == <<writes, returned>>
vars     == <<registry, app, calls, history>>

Id     == DOMAIN spans
Write  == DOMAIN writes
(* A list of fields gives a name one value.                                *)
Fields == {f \in Seq([name : FieldNames, value : Write]) :
             \A i, j \in DOMAIN f : f[i].name = f[j].name => i = j}

Call ==
  [op : {"new_span", "record", "event"}, layer : Layers,
   stage : {"read", "visit", "locked", "emit"},
   span : Id \union {0}, site : Sites, write : Write \union {0},
   began : SUBSET Write, scope : Seq(Id),
   chain : Seq([id : Id, fields : Fields])]

(* The type invariant: among others, a span has no field twice, however    *)
(* many layers and updates have written to it.                             *)
TypeOK ==
  /\ spans \in Seq([parent : 0..MaxSpans, site : Sites])
  /\ DOMAIN slots \subseteq Id /\ \A id \in DOMAIN slots : slots[id] \in Fields
  /\ writer \in [1..MaxSpans -> SUBSET Threads]
  /\ held \subseteq Id
  /\ calls \in [Threads -> Seq(Call)]
  /\ events \in 0..MaxEvents
  /\ \A w \in Write : /\ writes[w].span \in Id /\ writes[w].names \subseteq FieldNames
                      /\ writes[w].before \subseteq 1..w - 1
  /\ returned \subseteq Write

Init ==
  /\ spans = <<>> /\ slots = <<>>
  /\ writer = [id \in 1..MaxSpans |-> {}]
  /\ held = {}
  /\ calls = [t \in Threads |-> <<>>]
  /\ events = 0
  /\ writes = <<>> /\ returned = {}

-----------------------------------------------------------------------------
(* The tree of spans, kept by the Registry.                                *)

(* The span and its ancestors: the least set that has it and the parent of *)
(* every member.                                                           *)
Ancestors(id) ==
  {x \in Id : \A S \in SUBSET Id :
     (id \in S \union {0} /\ \A y \in S : spans[y].parent \in S \union {0}) => x \in S}

(* The spans that calls create or borrow the handle of.                    *)
InUse == {c.span : c \in UNION {Range(calls[t]) : t \in Threads}}

-----------------------------------------------------------------------------
(* The calls of a thread.                                                  *)

Idle(t) == calls[t] = <<>>
Top(t)  == Last(calls[t])
At(t, stages) == ~Idle(t) /\ Top(t).stage \in stages
In(t, ops, stage) == At(t, {stage}) /\ Top(t).op \in ops

Passes(layer, site) == site \in EnabledSites[layer]

(* build_span_context: the spans of the scope, from the root on, that the  *)
(* layer's filter lets through.                                            *)
InContext_UpToFiltered(layer, id) ==
  LET line[n \in 0..Len(spans)] ==
        IF n = 0 THEN <<>>
        ELSE IF Passes(layer, spans[n].site) THEN Append(line[spans[n].parent], n)
        ELSE <<>>
  IN  line[id]

InContext(layer, id) ==
  LET line[n \in 0..Len(spans)] ==
        IF n = 0 THEN <<>>
        ELSE IF Passes(layer, spans[n].site) THEN Append(line[spans[n].parent], n)
        ELSE line[spans[n].parent]
  IN  line[id]

Scope(call, layer) ==
  IF call.op = "event" /\ layer \in ListsSpans \union NamesCurrent
    THEN InContext(layer, call.span) ELSE <<>>

Become(t, call) == calls' = [calls EXCEPT ![t] = Append(Front(@), call)]

(* The call goes through the callbacks of the layers from first on.  One   *)
(* whose filter turns it back does nothing; after the last one the call    *)
(* returns to the caller, and the handle of a new span is the              *)
(* application's.                                                          *)
GoThrough(t, first, call, caller) ==
  LET rest == {l \in first..LayerCount : Passes(l, call.site)}
  IN  IF rest = {}
        THEN /\ calls' = [calls EXCEPT ![t] = caller]
             /\ held' = held \union (IF call.op = "new_span" THEN {call.span} ELSE {})
             /\ returned' = returned \union ({call.write} \ {0})
        ELSE LET layer == CHOOSE l \in rest : \A other \in rest : l <= other
                 scope == Scope(call, layer)
             IN  /\ calls' = [calls EXCEPT ![t] = Append(caller,
                      [call EXCEPT !.layer = layer, !.scope = scope, !.chain = <<>>,
                                   !.stage = IF scope = <<>> THEN "visit" ELSE "read"])]
                 /\ UNCHANGED <<held, returned>>

Start(t, op, id, site, write) ==
  GoThrough(t, 1, [op |-> op, layer |-> 1, stage |-> "visit", span |-> id, site |-> site,
                   write |-> write, began |-> returned, scope |-> <<>>, chain |-> <<>>],
            calls[t])

CallbackDone(t) == GoThrough(t, Top(t).layer + 1, Top(t), Front(calls[t]))

-----------------------------------------------------------------------------
(* The application's calls.                                                *)

AddWrite(id, names) ==
  writes' = Append(writes, [span |-> id, names |-> names, before |-> returned])

NewSpan(t, parent, site, names) ==
  /\ Idle(t) /\ Len(spans) < MaxSpans /\ Len(writes) < MaxWrites
  /\ spans' = Append(spans, [parent |-> parent, site |-> site])
  /\ AddWrite(Len(spans) + 1, names)
  /\ Start(t, "new_span", Len(spans) + 1, site, Len(writes) + 1)
  /\ UNCHANGED <<slots, writer, events>>

Record(t, id, names) ==
  /\ Idle(t) /\ Len(writes) < MaxWrites
  /\ AddWrite(id, names)
  /\ Start(t, "record", id, spans[id].site, Len(writes) + 1)
  /\ UNCHANGED <<registry, events>>

(* Debug implementations run while values are visited: they may log, but   *)
(* only there.                                                             *)
MayLog_UnderLock(t) == Idle(t) \/ At(t, {"visit", "locked"})
MayLog(t) == Idle(t) \/ At(t, {"visit"})

Event(t, id, site) ==
  /\ MayLog(t) /\ events < MaxEvents
  /\ events' = events + 1
  /\ Start(t, "event", id, site, 0)
  /\ UNCHANGED <<registry, writes>>

(* Dropping a handle closes the spans that nobody reaches any more: an     *)
(* open child keeps its parent open.  Their extensions are cleared.        *)
Drop(id) ==
  /\ id \in held /\ id \notin InUse
  /\ held' = held \ {id}
  /\ LET open == UNION {Ancestors(o) : o \in held' \union InUse}
     IN  slots' = Restrict(slots, DOMAIN slots \intersect open)
  /\ UNCHANGED <<spans, writer, events, calls, history>>

-----------------------------------------------------------------------------
(* on_new_span and on_record capture the values first, without a lock.     *)

(* extensions_mut().                                                       *)
Lock(t) ==
  /\ In(t, {"new_span", "record"}, "visit")
  /\ writer[Top(t).span] = {}
  /\ writer' = [writer EXCEPT ![Top(t).span] = {t}]
  /\ Become(t, [Top(t) EXCEPT !.stage = "locked"])
  /\ UNCHANGED <<spans, slots, app, history>>

Captured(w) ==
  LET names == SetToSeq(writes[w].names)
  IN  [i \in DOMAIN names |-> [name |-> names[i], value |-> w]]

NamesOf(fields) == {f.name : f \in Range(fields)}

(* merge_fields.                                                           *)
Unnamed(existing, updates) ==
  SetToSeq({u \in Range(updates) : u.name \notin NamesOf(existing)})

MergeFields_KeepsOld(existing, updates) == existing \o Unnamed(existing, updates)

MergeFields_Appends(existing, updates) == existing \o updates

MergeFields(existing, updates) ==
  LET Updated(f) == LET of == {u \in Range(updates) : u.name = f.name}
                    IN  IF of = {} THEN f ELSE CHOOSE u \in of : TRUE
  IN  [i \in DOMAIN existing |-> Updated(existing[i])] \o Unnamed(existing, updates)

(* A new span's state replaces what another layer left in the slot; an     *)
(* update is merged into it.                                               *)
State(op, id, updates) ==
  IF op = "record" /\ id \in DOMAIN slots THEN MergeFields(slots[id], updates) ELSE updates

Store(t) ==
  /\ In(t, {"new_span", "record"}, "locked")
  /\ LET id == Top(t).span
     IN  /\ slots' = [x \in DOMAIN slots \union {id} |->
                        IF x = id THEN State(Top(t).op, id, Captured(Top(t).write)) ELSE slots[x]]
         /\ writer' = [writer EXCEPT ![id] = {}]
  /\ CallbackDone(t)
  /\ UNCHANGED <<spans, events, writes>>

-----------------------------------------------------------------------------
(* on_event.                                                               *)

Snapshot(id) ==
  [id |-> id, fields |-> IF id \in DOMAIN slots THEN slots[id] ELSE <<>>]

(* snapshot_span, under the read lock of the span's extensions.  After the *)
(* last span the event's own values are visited.                           *)
SnapshotSpan(t) ==
  /\ In(t, {"event"}, "read")
  /\ LET id == Head(Top(t).scope)
     IN  /\ writer[id] = {}
         /\ Become(t, [Top(t) EXCEPT !.stage = IF Len(Top(t).scope) = 1 THEN "visit" ELSE "read",
                                     !.scope = Tail(@),
                                     !.chain = Append(@, Snapshot(id))])
  /\ UNCHANGED <<registry, app, history>>

(* OwnedRecord::from_event has captured the event's values.                *)
FromEvent(t) ==
  /\ In(t, {"event"}, "visit")
  /\ Become(t, [Top(t) EXCEPT !.stage = "emit"])
  /\ UNCHANGED <<registry, app, history>>

(* current_span and spans of the record that an event becomes.             *)
RecordSpan(call) ==
  IF call.layer \in NamesCurrent /\ call.chain # <<>> THEN <<Last(call.chain)>> ELSE <<>>
RecordSpans(call) == IF call.layer \in ListsSpans THEN call.chain ELSE <<>>

EmitRecord(t) ==
  /\ In(t, {"event"}, "emit")
  /\ CallbackDone(t)
  /\ UNCHANGED <<registry, events, writes>>

-----------------------------------------------------------------------------
Callback(t) == Lock(t) \/ Store(t) \/ SnapshotSpan(t) \/ FromEvent(t) \/ EmitRecord(t)

Application(t) ==
  \/ \E site \in Sites, parent \in {0} \union held, names \in FieldSets :
       NewSpan(t, parent, site, names)
  \/ \E id \in held, names \in FieldSets : Record(t, id, names)
  \/ \E id \in {0} \union held, site \in Sites : Event(t, id, site)

(* The bounds leave nothing to do.                                         *)
Quiescent ==
  /\ \A t \in Threads : Idle(t)
  /\ held = {} /\ events = MaxEvents
  /\ Len(spans) = MaxSpans \/ Len(writes) = MaxWrites
  /\ UNCHANGED vars

Next ==
  \/ \E t \in Threads : Callback(t) \/ Application(t)
  \/ \E id \in held : Drop(id)
  \/ Quiescent

(* Assumed: a thread that is in a call takes its steps.                    *)
Fairness == \A t \in Threads : WF_vars(Callback(t))

Spec == Init /\ [][Next]_vars
FairSpec == Spec /\ Fairness

-----------------------------------------------------------------------------
(* Properties.                                                             *)

(* The records about to be handed to the pipeline.                         *)
Emitting == {c \in UNION {Range(calls[t]) : t \in Threads} : c.stage = "emit"}

(* An event names its enabled spans, all of them and the root first, also  *)
(* those whose handles are gone and those beyond a span that the layer's   *)
(* filter hides; its current span is the innermost of them.                *)
ContextComplete ==
  \A c \in Emitting :
    LET visible == {id \in Ancestors(c.span) : spans[id].site \in EnabledSites[c.layer]}
        listed  == RecordSpans(c)
        named   == RecordSpan(c)
    IN  /\ c.layer \in ListsSpans =>
             /\ {s.id : s \in Range(listed)} = visible
             /\ \A i, j \in DOMAIN listed : i < j => listed[i].id < listed[j].id
        /\ c.layer \in NamesCurrent =>
             /\ named = <<>> <=> visible = {}
             /\ \A s \in Range(named) : s.id \in visible /\ \A id \in visible : id <= s.id

(* The fields that an event reports of a span are those of its writes,     *)
(* whole and no older than they should be: every name of a write that was  *)
(* over before the event began, or that shows at all, is there with a      *)
(* value that no earlier write has left.  So it is with several layers     *)
(* that store the same update one after the other into the same slot.      *)
FieldsFresh ==
  \A c \in Emitting : \A s \in Range(c.chain) :
    LET shown == {f.value : f \in Range(s.fields)}
        due   == {w \in c.began : writes[w].span = s.id} \union shown
    IN  \A w \in due : \A n \in writes[w].names :
          \E f \in Range(s.fields) : f.name = n /\ f.value \notin writes[w].before

(* Every call returns, also when a Debug implementation logs an event in   *)
(* the span whose value is being recorded.                                 *)
CallsReturn == \A t \in Threads : []<>Idle(t)

=============================================================================

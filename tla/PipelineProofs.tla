--------------------------- MODULE PipelineProofs ---------------------------
(***************************************************************************)
(* Proofs about callsite metadata, for every number of threads, pipelines  *)
(* and callsites, every capacity and every bound.                          *)
(***************************************************************************)
EXTENDS Pipeline, FiniteSetTheorems, SequenceTheorems, TLAPS

-----------------------------------------------------------------------------
(* Type correctness, variable group by variable group.                     *)

TypeRegistry ==
  /\ nextId \in [Pipelines -> 0..MaxId]
  /\ DOMAIN idOf = Pipelines
  /\ \A p \in Pipelines :
       Registered(p) \subseteq Callsites /\ idOf[p] \in [Registered(p) -> 0..MaxId]
  /\ emitted \in [Pipelines -> SUBSET Callsites]

TypeOutput ==
  /\ DOMAIN stream = Pipelines
  /\ \A p \in Pipelines : stream[p] \in Seq(MetaFrame \union EventFrame)
  /\ received \in [Pipelines -> Nat]
  /\ \A p \in Pipelines :
       /\ received[p] <= Len(stream[p])
       /\ Len(stream[p]) - received[p] <= QueueCapacity
  /\ lost \in [Pipelines -> SUBSET Nat]
  /\ dropped \in [Pipelines -> Nat]

TypeStored == stored \in [Pipelines -> SUBSET Ref]

TypeStatics ==
  /\ last \in [Threads -> SUBSET Ref]
  /\ cache \in [Threads -> Seq(Ref)]
  /\ \A t \in Threads : Len(cache[t]) <= CacheCapacity

TypeCall ==
  /\ pc \in [Threads -> {"idle", "resolve", "sendmeta", "mark", "context", "emit"}]
  /\ pipe \in [Threads -> Pipelines]
  /\ goal \in [Threads -> {"event", "span"}]
  /\ todo \in [Threads -> Seq(Callsites)]
  /\ got \in [Threads -> Seq(Ref)]
  /\ context \in [Threads -> SUBSET Ref]
  /\ used \in [Threads -> SUBSET Pipelines]
  /\ calls \in Nat

LEMMA Types ==
  TypeOK <=> TypeRegistry /\ TypeOutput /\ TypeStored /\ TypeStatics /\ TypeCall
BY DEF TypeOK, TypeRegistry, TypeOutput, TypeStored, TypeStatics, TypeCall

LEMMA TypesAfter ==
  ASSUME TypeRegistry', TypeOutput', TypeStored', TypeStatics', TypeCall'
  PROVE  TypeOK'
BY DEF TypeOK, TypeRegistry, TypeOutput, TypeStored, TypeStatics, TypeCall, Registered

(* A call that resolves has something to resolve; metadata is sent for a   *)
(* registered callsite of a binary pipeline; an event has its own id.      *)
CallOK ==
  \A t \in Threads :
    /\ pc[t] \in {"resolve", "sendmeta", "mark"} => todo[t] # <<>>
    /\ pc[t] \in {"sendmeta", "mark"} =>
         pipe[t] \in Binary /\ Head(todo[t]) \in Registered(pipe[t])
    /\ pc[t] \in {"context", "emit"} => got[t] # <<>>

LEMMA TypeInit == Init => TypeOK /\ CallOK
<1> SUFFICES ASSUME Init PROVE TypeOK /\ CallOK
  OBVIOUS
<1>1. NoPipeline \in Pipelines BY PipelineAssumption DEF NoPipeline
<1>2. QueueCapacity \in Nat /\ CacheCapacity \in Nat /\ MaxId \in Nat BY PipelineAssumption
<1>3. TypeRegistry
  <2>1. ASSUME NEW p \in Pipelines
        PROVE  Registered(p) \subseteq Callsites /\ idOf[p] \in [Registered(p) -> 0..MaxId]
    <3>1. idOf[p] = <<>> BY DEF Init
    <3>2. DOMAIN idOf[p] = {} /\ idOf[p] = [i \in {} |-> 0] BY <3>1
    <3> QED BY <3>2 DEF Registered
  <2> QED BY <1>2, <2>1 DEF Init, TypeRegistry
<1>4. TypeOutput BY <1>2 DEF Init, TypeOutput
<1>5. TypeStatics BY <1>2 DEF Init, TypeStatics
<1>6. TypeStored /\ TypeCall BY <1>1 DEF Init, TypeStored, TypeCall
<1>7. CallOK BY DEF Init, CallOK
<1> QED BY <1>3, <1>4, <1>5, <1>6, <1>7, Types

(* The registry after ensure_callsite.                                     *)
LEMMA EnsureType ==
  ASSUME TypeRegistry, NEW p \in Pipelines, NEW c \in Callsites, EnsureCallsite(p, c)
  PROVE  TypeRegistry' /\ c \in Registered(p)'
                       /\ \A q \in Pipelines : Registered(q) \subseteq Registered(q)'
<1>1. CASE c \in Registered(p)
  BY <1>1 DEF EnsureCallsite, registry, TypeRegistry, Registered
<1>2. CASE c \notin Registered(p)
  <2> DEFINE ids == [x \in Registered(p) \union {c} |-> IdFor(p, x)]
  <2>1. /\ idOf' = [idOf EXCEPT ![p] = ids]
        /\ nextId' = [nextId EXCEPT ![p] = SaturatingSucc(@)]
        /\ emitted' = emitted
    BY <1>2 DEF EnsureCallsite
  <2>2. nextId[p] \in 0..MaxId /\ MaxId \in Nat
    BY PipelineAssumption DEF TypeRegistry
  <2>3. \A x \in Registered(p) \union {c} : IdFor(p, x) \in 0..MaxId
    BY <2>2 DEF IdFor, TypeRegistry
  <2>4. nextId' \in [Pipelines -> 0..MaxId]
    BY <2>1, <2>2 DEF SaturatingSucc, TypeRegistry
  <2>5. /\ ids \in [Registered(p) \union {c} -> 0..MaxId]
        /\ DOMAIN ids = Registered(p) \union {c}
    BY <2>3
  <2> HIDE DEF ids
  <2> QED BY <2>1, <2>4, <2>5 DEF TypeRegistry, Registered
<1> QED BY <1>1, <1>2

LEMMA AcceptType ==
  ASSUME TypeOutput, NEW p \in Pipelines, NEW frame \in MetaFrame \union EventFrame,
         Accept(p, frame) \/ Drop(p)
  PROVE  TypeOutput'
<1>1. QueueCapacity \in Nat BY PipelineAssumption
<1>2. CASE Accept(p, frame)
  <2>1. /\ stream' = [stream EXCEPT ![p] = Append(@, frame)]
        /\ received' = received /\ lost' = lost /\ dropped' = dropped
        /\ Len(stream[p]) - received[p] < QueueCapacity
    BY <1>1, <1>2 DEF Accept, QueueFull, TypeOutput
  <2> DEFINE F == MetaFrame \union EventFrame
  <2>2. stream[p] \in Seq(F) /\ frame \in F BY DEF TypeOutput
  <2> HIDE DEF F
  <2>3. Append(stream[p], frame) \in Seq(F) /\ Len(Append(stream[p], frame)) = Len(stream[p]) + 1
    BY <2>2, AppendProperties
  <2>4. \A q \in Pipelines : stream'[q] = IF q = p THEN Append(stream[p], frame) ELSE stream[q]
    BY <2>1 DEF TypeOutput
  <2>5. \A q \in Pipelines : stream[q] \in Seq(F) /\ Len(stream[q]) \in Nat /\ received[q] \in Nat
    BY DEF TypeOutput, F
  <2>6. \A q \in Pipelines : stream'[q] \in Seq(F) BY <2>3, <2>4, <2>5
  <2>7. \A q \in Pipelines :
          received[q] <= Len(stream'[q]) /\ Len(stream'[q]) - received[q] <= QueueCapacity
    BY <1>1, <2>1, <2>3, <2>4, <2>5 DEF TypeOutput
  <2> QED BY <2>1, <2>6, <2>7 DEF TypeOutput, F
<1>3. CASE Drop(p) BY <1>3 DEF Drop, TypeOutput
<1> QED BY <1>2, <1>3

(* What the cache holds after an insertion.                                *)
LEMMA CacheWithHolds ==
  ASSUME TypeStatics, NEW t \in Threads, NEW r \in Ref
  PROVE  /\ CacheWith(t, r) \in Seq(Ref)
         /\ Len(CacheWith(t, r)) <= CacheCapacity
         /\ Range(CacheWith(t, r)) \subseteq Range(cache[t]) \union {r}
<1>1. cache[t] \in Seq(Ref) /\ Len(cache[t]) \in Nat /\ Len(cache[t]) <= CacheCapacity
  BY DEF TypeStatics
<1>2. CacheCapacity \in Nat \ {0} BY PipelineAssumption
<1>3. \A i \in 1..Len(cache[t]) : cache[t][i] \in Ref /\ cache[t][i] \in Range(cache[t])
  BY <1>1 DEF Range
<1>4. CASE CacheHits(t, r.site) # {}
  <2> DEFINE c == CacheWith(t, r)
  <2>1. c = [i \in 1..Len(cache[t]) |->
               IF cache[t][i].site = r.site THEN r ELSE cache[t][i]]
    BY <1>4 DEF CacheWith
  <2>2. DOMAIN c = 1..Len(cache[t]) BY <2>1
  <2>3. \A i \in 1..Len(cache[t]) : c[i] \in Ref /\ c[i] \in Range(cache[t]) \union {r}
    BY <1>3, <2>1
  <2>4. c \in [1..Len(cache[t]) -> Ref] BY <2>1, <1>3
  <2> HIDE DEF c
  <2>5. c \in Seq(Ref) /\ Len(c) = Len(cache[t]) BY <1>1, <2>2, <2>4
  <2>6. Range(c) \subseteq Range(cache[t]) \union {r} BY <2>2, <2>3 DEF Range
  <2> QED BY <1>1, <2>5, <2>6 DEF c
<1>5. CASE CacheHits(t, r.site) = {}
  <2> DEFINE kept == IF Len(cache[t]) = CacheCapacity THEN Tail(cache[t]) ELSE cache[t]
  <2>1. CacheWith(t, r) = Append(kept, r) BY <1>5 DEF CacheWith
  <2>2. /\ kept \in Seq(Ref) /\ Len(kept) < CacheCapacity
        /\ \A i \in 1..Len(kept) : kept[i] \in Range(cache[t])
    <3>1. CASE Len(cache[t]) = CacheCapacity
      <4>1. cache[t] # <<>> BY <1>2, <3>1
      <4>2. /\ Tail(cache[t]) \in Seq(Ref) /\ Len(Tail(cache[t])) = Len(cache[t]) - 1
            /\ \A i \in 1..Len(Tail(cache[t])) : Tail(cache[t])[i] = cache[t][i + 1]
        BY <1>1, <4>1
      <4>3. \A i \in 1..Len(Tail(cache[t])) : i + 1 \in 1..Len(cache[t]) BY <1>1, <4>2
      <4> QED BY <1>1, <1>2, <1>3, <3>1, <4>2, <4>3
    <3>2. CASE Len(cache[t]) # CacheCapacity BY <1>1, <1>2, <1>3, <3>2
    <3> QED BY <3>1, <3>2
  <2> HIDE DEF kept
  <2>3. /\ Append(kept, r) \in Seq(Ref) /\ Len(Append(kept, r)) = Len(kept) + 1
        /\ \A i \in 1..Len(kept) : Append(kept, r)[i] = kept[i]
        /\ Append(kept, r)[Len(kept) + 1] = r
    BY <2>2, AppendProperties
  <2>4. \A i \in 1..Len(kept) + 1 : Append(kept, r)[i] \in Range(cache[t]) \union {r}
    BY <2>2, <2>3
  <2>5. Len(kept) \in Nat /\ DOMAIN Append(kept, r) = 1..Len(kept) + 1 BY <2>2, <2>3
  <2>6. Range(Append(kept, r)) \subseteq Range(cache[t]) \union {r}
    BY <2>4, <2>5 DEF Range
  <2> QED BY <1>2, <2>1, <2>2, <2>3, <2>5, <2>6
<1> QED BY <1>4, <1>5

LEMMA CacheType ==
  ASSUME TypeStatics, NEW t \in Threads, NEW r \in Ref, Cache(t, r)
  PROVE  TypeStatics'
<1>1. CacheWith(t, r) \in Seq(Ref) /\ Len(CacheWith(t, r)) <= CacheCapacity
  BY CacheWithHolds
<1> QED BY <1>1 DEF TypeStatics, Cache

(* What cached_metadata_id finds is in one of the caches.                  *)
LEMMA CachedHolds ==
  ASSUME TypeStatics, NEW t \in Threads, NEW c, NEW r \in Cached(t, c)
  PROVE  r \in Ref /\ r.site = c /\ r \in last[t] \union Range(cache[t])
<1>1. cache[t] \in Seq(Ref) /\ last[t] \subseteq Ref BY DEF TypeStatics
<1>2. \A i \in 1..Len(cache[t]) : cache[t][i] \in Ref /\ cache[t][i] \in Range(cache[t])
  BY <1>1 DEF Range
<1> QED BY <1>1, <1>2 DEF Cached, CacheHits

(* A call begins with the callsites it will resolve.                       *)
Begins(t) ==
  \E p \in Pipelines, kind \in {"event", "span"}, sites \in Seq(Callsites) :
    sites # <<>> /\ Begin(t, p, kind, sites)

LEMMA Steps ==
  ASSUME TypeOK, [Next]_vars
  PROVE  \/ UNCHANGED vars
         \/ \E p \in Pipelines : Receive(p)
         \/ \E p \in Pipelines : \E r \in stored[p] : CloseSpan(p, r)
         \/ \E p \in Pipelines, c \in Callsites : RegisterCallsite(p, c)
         \/ \E t \in Threads :
              \/ Begins(t) \/ ResolveCached(t) \/ Ensure(t) \/ SendMetadata(t)
              \/ DropMetadata(t) \/ MarkEmitted(t) \/ BuildSpanContext(t) \/ Emit(t)
<1>1. ASSUME NEW t \in Threads, NEW p \in Pipelines, NEW c \in Callsites,
             NEW kind \in {"event", "span"}, Begin(t, p, kind, <<c>>)
      PROVE  Begins(t)
  <2>1. <<c>> \in Seq(Callsites) /\ <<c>> # <<>> OBVIOUS
  <2> QED BY <1>1, <2>1 DEF Begins
<1>2. ASSUME NEW t \in Threads, NEW p \in Pipelines, NEW c \in Callsites,
             NEW n \in 0..MaxScope, NEW scope \in [1..n -> SpanSites],
             Begin(t, p, "event", <<c>> \o scope)
      PROVE  Begins(t)
  <2> DEFINE sites == <<c>> \o scope
  <2>1. <<c>> \in Seq(Callsites) /\ Len(<<c>>) = 1 /\ n \in Nat
    BY PipelineAssumption
  <2>2. scope \in [1..n -> Callsites] BY DEF Callsites
  <2>3. scope \in Seq(Callsites) /\ Len(scope) = n BY <2>1, <2>2
  <2>4. sites \in Seq(Callsites) /\ Len(sites) = 1 + n
    <3> HIDE <1>2
    <3> QED BY <2>1, <2>3, ConcatProperties
  <2>5. Begin(t, p, "event", sites) BY <1>2
  <2> HIDE DEF sites
  <2>6. sites # <<>> BY <2>1, <2>4
  <2> QED BY <2>4, <2>5, <2>6 DEF Begins
<1>3. ASSUME NEW t \in Threads, NEW p \in Pipelines, NEW c \in EventSites,
             BeginEvent(t, p, c) \/ BeginLayerEvent(t, p, c)
      PROVE  Begins(t)
  <2>1. c \in Callsites BY DEF Callsites
  <2> QED BY <1>1, <1>2, <1>3, <2>1 DEF BeginEvent, BeginLayerEvent
<1>4. ASSUME NEW t \in Threads, NEW p \in Pipelines, NEW c \in SpanSites,
             BeginSpan(t, p, c)
      PROVE  Begins(t)
  <2>1. c \in Callsites BY DEF Callsites
  <2> QED BY <1>1, <1>4, <2>1 DEF BeginSpan
<1> QED BY <1>3, <1>4 DEF Next, Quiescent, Thread

LEMMA ReturnType ==
  ASSUME TypeCall, NEW t \in Threads, Return(t)
  PROVE  TypeCall'
<1>1. NoPipeline \in Pipelines BY PipelineAssumption DEF NoPipeline
<1>2. <<>> \in Seq(Callsites) /\ <<>> \in Seq(Ref) OBVIOUS
<1>3. todo' \in [Threads -> Seq(Callsites)] /\ got' \in [Threads -> Seq(Ref)]
  BY <1>2 DEF Return, TypeCall
<1>4. /\ pc' \in [Threads -> {"idle", "resolve", "sendmeta", "mark", "context", "emit"}]
      /\ pipe' \in [Threads -> Pipelines] /\ goal' \in [Threads -> {"event", "span"}]
  BY <1>1 DEF Return, TypeCall
<1> QED BY <1>3, <1>4 DEF Return, TypeCall

LEMMA ResolvedType ==
  ASSUME TypeStored, TypeCall, NEW t \in Threads, todo[t] # <<>>, NEW r \in Ref, Resolved(t, r)
  PROVE  /\ TypeStored' /\ TypeCall'
         /\ pc'[t] \in {"resolve", "context", "idle"}
         /\ pc'[t] = "resolve" => todo'[t] # <<>>
         /\ pc'[t] = "context" => got'[t] # <<>>
<1>1. todo[t] \in Seq(Callsites) /\ got[t] \in Seq(Ref) BY DEF TypeCall
<1>2. Tail(todo[t]) \in Seq(Callsites) /\ Len(Tail(todo[t])) = Len(todo[t]) - 1
  BY <1>1
<1>3. Append(got[t], r) \in Seq(Ref) /\ Append(got[t], r) # <<>>
  <2>1. Append(got[t], r) \in Seq(Ref) /\ Len(Append(got[t], r)) = Len(got[t]) + 1
    BY <1>1, AppendProperties
  <2>2. Len(got[t]) \in Nat BY <1>1
  <2> QED BY <2>1, <2>2, EmptySeq
<1>4. CASE Continue(t, r)
  <2>1. /\ todo' = [todo EXCEPT ![t] = Tail(todo[t])]
        /\ got' = [got EXCEPT ![t] = Append(got[t], r)]
        /\ pc' = [pc EXCEPT ![t] = IF Len(todo[t]) > 1 THEN "resolve" ELSE "context"]
        /\ UNCHANGED <<stored, pipe, goal, context, used, calls>>
    BY <1>4 DEF Continue
  <2>2. todo' \in [Threads -> Seq(Callsites)] /\ todo'[t] = Tail(todo[t])
    BY <1>2, <2>1 DEF TypeCall
  <2>3. got' \in [Threads -> Seq(Ref)] /\ got'[t] = Append(got[t], r)
    BY <1>3, <2>1 DEF TypeCall
  <2>4. pc'[t] = IF Len(todo[t]) > 1 THEN "resolve" ELSE "context"
    BY <2>1 DEF TypeCall
  <2>5. Len(todo[t]) > 1 => Tail(todo[t]) # <<>>
    <3>1. Len(todo[t]) \in Nat /\ Len(<<>>) = 0 BY <1>1
    <3>2. Len(todo[t]) > 1 => Len(Tail(todo[t])) # Len(<<>>)
      <4>1. \A n \in Nat : n > 1 => n - 1 # 0 OBVIOUS
      <4> QED BY <1>2, <3>1, <4>1, ZenonT(20)
    <3> QED BY <3>2
  <2>6. pc' \in [Threads -> {"idle", "resolve", "sendmeta", "mark", "context", "emit"}]
    BY <2>1 DEF TypeCall
  <2>7. TypeStored' /\ TypeCall' BY <2>1, <2>2, <2>3, <2>6 DEF TypeStored, TypeCall
  <2> QED BY <1>3, <2>2, <2>3, <2>4, <2>5, <2>7
<1>5. CASE StoreSpan(t, r)
  <2>1. TypeStored' BY <1>5 DEF StoreSpan, TypeStored
  <2>2. TypeCall' BY <1>5, ReturnType DEF StoreSpan
  <2>3. pc'[t] = "idle" BY <1>5 DEF StoreSpan, Return, TypeCall
  <2> QED BY <2>1, <2>2, <2>3
<1> QED BY <1>4, <1>5 DEF Resolved

(* The reference of a callsite that is being resolved.                     *)
LEMMA HeadSite ==
  ASSUME TypeCall, NEW t \in Threads, todo[t] # <<>>
  PROVE  Head(todo[t]) \in Callsites
BY DEF TypeCall

LEMMA CurrentType ==
  ASSUME TypeOK, CallOK, NEW t \in Threads, pc[t] \in {"sendmeta", "mark"}
  PROVE  /\ Current(t) \in Ref
         /\ Current(t).site = Head(todo[t])
         /\ Current(t).id = idOf[pipe[t]][Head(todo[t])]
         /\ ~Current(t).refused
         /\ [Current(t) EXCEPT !.refused = TRUE] \in Ref
<1>1. todo[t] # <<>> /\ Head(todo[t]) \in Registered(pipe[t]) BY DEF CallOK
<1>2. Head(todo[t]) \in Callsites BY <1>1, HeadSite, Types
<1>3. idOf[pipe[t]][Head(todo[t])] \in 0..MaxId
  BY <1>1, Types DEF TypeRegistry, TypeCall
<1>4. idOf[pipe[t]][Head(todo[t])] \in Nat BY <1>3, PipelineAssumption
<1> QED BY <1>2, <1>4 DEF Current, Ref

LEMMA IdForType ==
  ASSUME TypeRegistry, NEW p \in Pipelines, NEW c
  PROVE  IdFor(p, c) \in Nat
<1>1. IdFor(p, c) \in 0..MaxId BY DEF IdFor, TypeRegistry
<1> QED BY <1>1, PipelineAssumption

LEMMA ContextType ==
  ASSUME TypeOK, CallOK, NEW t \in Threads, pc[t] = "context", NEW spans \in SpanContexts(t)
  PROVE  spans \subseteq Ref
<1>1. got[t] \in Seq(Ref) /\ got[t] # <<>> BY Types DEF TypeCall, CallOK
<1>2. CASE pipe[t] \in Layers
  <2>1. spans = Range(Tail(got[t])) /\ Tail(got[t]) \in Seq(Ref)
    BY <1>1, <1>2 DEF SpanContexts
  <2> QED BY <2>1 DEF Range
<1>3. CASE pipe[t] \notin Layers
  BY <1>3, Types DEF SpanContexts, TypeStored, TypeCall
<1> QED BY <1>2, <1>3

LEMMA EmitType ==
  ASSUME TypeOK, CallOK, NEW t \in Threads, pc[t] = "emit"
  PROVE  /\ Head(got[t]) \in Ref
         /\ [kind |-> "event", own |-> Head(got[t]), spans |-> context[t], by |-> t]
              \in EventFrame
<1>1. got[t] \in Seq(Ref) /\ got[t] # <<>> BY Types DEF TypeCall, CallOK
<1>2. Head(got[t]) \in Ref BY <1>1
<1>3. context[t] \subseteq Ref BY Types DEF TypeCall
<1> QED BY <1>2, <1>3 DEF EventFrame

LEMMA TypeStep ==
  ASSUME TypeOK, CallOK, [Next]_vars
  PROVE  TypeOK'
<1>1. TypeRegistry /\ TypeOutput /\ TypeStored /\ TypeStatics /\ TypeCall BY Types
<1> USE <1>1
<1>2. UNCHANGED registry => TypeRegistry'
  BY DEF TypeRegistry, registry, Registered
<1>3. UNCHANGED output => TypeOutput' BY DEF TypeOutput, output
<1>4. UNCHANGED statics => TypeStatics' BY DEF TypeStatics, statics
<1>5. UNCHANGED call => TypeCall' BY DEF TypeCall, call
<1>0. UNCHANGED stored => TypeStored' BY DEF TypeStored
<1>6. CASE UNCHANGED vars BY <1>0, <1>2, <1>3, <1>4, <1>5, <1>6, TypesAfter DEF vars
<1>7. ASSUME NEW p \in Pipelines, Receive(p) PROVE TypeOK'
  <2>1. TypeOutput'
    <3>1. received[p] < Len(stream[p]) /\ received[p] \in Nat /\ Len(stream[p]) \in Nat
      BY <1>7 DEF Receive, TypeOutput
    <3>2. /\ received' = [received EXCEPT ![p] = @ + 1] /\ stream' = stream
          /\ dropped' = dropped
      BY <1>7 DEF Receive
    <3>3. lost' \in [Pipelines -> SUBSET Nat]
      <4>1. received[p] + 1 \in Nat BY <3>1
      <4> QED BY <1>7, <4>1 DEF Receive, TypeOutput
    <3>4. received' \in [Pipelines -> Nat] BY <3>1, <3>2 DEF TypeOutput
    <3>5. \A q \in Pipelines :
            /\ received'[q] <= Len(stream'[q])
            /\ Len(stream'[q]) - received'[q] <= QueueCapacity
      <4>1. QueueCapacity \in Nat BY PipelineAssumption
      <4>2. TAKE q \in Pipelines
      <4>3. CASE q = p BY <3>1, <3>2, <4>1, <4>3 DEF TypeOutput
      <4>4. CASE q # p BY <3>2, <4>4 DEF TypeOutput
      <4> QED BY <4>3, <4>4
    <3> QED BY <3>2, <3>3, <3>4, <3>5 DEF TypeOutput
  <2> QED BY <1>0, <1>2, <1>4, <1>5, <1>7, <2>1, TypesAfter DEF Receive
<1>8. ASSUME NEW p \in Pipelines, NEW c \in Callsites, RegisterCallsite(p, c) PROVE TypeOK'
  BY <1>0, <1>3, <1>4, <1>5, <1>8, EnsureType, TypesAfter DEF RegisterCallsite
<1>9. ASSUME NEW t \in Threads, Begins(t) PROVE TypeOK'
  <2>1. PICK p \in Pipelines, kind \in {"event", "span"}, sites \in Seq(Callsites) :
          Begin(t, p, kind, sites)
    BY <1>9 DEF Begins
  <2>2. got' \in [Threads -> Seq(Ref)]
    <3>1. <<>> \in Seq(Ref) OBVIOUS
    <3> QED BY <2>1, <3>1 DEF Begin, TypeCall
  <2>3. todo' \in [Threads -> Seq(Callsites)] BY <2>1 DEF Begin, TypeCall
  <2>4. used' \in [Threads -> SUBSET Pipelines] BY <2>1 DEF Begin, TypeCall
  <2>5. /\ pc' \in [Threads -> {"idle", "resolve", "sendmeta", "mark", "context", "emit"}]
        /\ pipe' \in [Threads -> Pipelines] /\ goal' \in [Threads -> {"event", "span"}]
        /\ calls' \in Nat /\ context' = context
    BY <2>1 DEF Begin, TypeCall
  <2>6. TypeCall' BY <2>2, <2>3, <2>4, <2>5 DEF TypeCall
  <2> QED BY <1>0, <1>2, <1>3, <1>4, <2>1, <2>6, TypesAfter DEF Begin
<1>10. ASSUME NEW p \in Pipelines, NEW r \in stored[p], CloseSpan(p, r) PROVE TypeOK'
  <2>1. TypeStored' BY <1>10 DEF CloseSpan, TypeStored
  <2> QED BY <1>2, <1>3, <1>4, <1>5, <1>10, <2>1, TypesAfter DEF CloseSpan
<1>11. ASSUME NEW t \in Threads, BuildSpanContext(t) PROVE TypeOK'
  <2>1. PICK spans \in SpanContexts(t) : context' = [context EXCEPT ![t] = spans]
    BY <1>11 DEF BuildSpanContext
  <2>2. spans \subseteq Ref BY <1>11, ContextType DEF BuildSpanContext
  <2>3. context' \in [Threads -> SUBSET Ref] BY <2>1, <2>2 DEF TypeCall
  <2>4. TypeCall' BY <1>11, <2>3 DEF BuildSpanContext, TypeCall
  <2> QED BY <1>0, <1>2, <1>3, <1>4, <1>11, <2>4, TypesAfter DEF BuildSpanContext
<1>12. ASSUME NEW t \in Threads, ResolveCached(t) PROVE TypeOK'
  <2>1. PICK r \in Cached(t, Head(todo[t])) :
          last' = [last EXCEPT ![t] = {r}] /\ Resolved(t, r)
    BY <1>12 DEF ResolveCached
  <2>2. r \in Ref BY CachedHolds
  <2>3. todo[t] # <<>> BY <1>12 DEF ResolveCached, CallOK
  <2>4. TypeStored' /\ TypeCall' BY <2>1, <2>2, <2>3, ResolvedType
  <2>5. cache' = cache /\ UNCHANGED <<registry, output>> BY <1>12 DEF ResolveCached
  <2>6. TypeStatics' BY <2>1, <2>2, <2>5 DEF TypeStatics
  <2> QED BY <1>2, <1>3, <2>4, <2>5, <2>6, TypesAfter
<1>13. ASSUME NEW t \in Threads, Ensure(t) PROVE TypeOK'
  <2> DEFINE p == pipe[t]
             c == Head(todo[t])
             r == [site |-> c, id |-> IdFor(p, c), by |-> t, refused |-> FALSE]
  <2>1. todo[t] # <<>> /\ p \in Pipelines BY <1>13 DEF Ensure, CallOK, TypeCall
  <2>2. c \in Callsites BY <2>1, HeadSite
  <2>3. r \in Ref BY <2>1, <2>2, IdForType DEF Ref
  <2>4. EnsureCallsite(p, c) /\ UNCHANGED output BY <1>13 DEF Ensure
  <2>5. \/ Goto(t, "sendmeta") /\ UNCHANGED <<stored, statics>>
        \/ Resolved(t, r) /\ Cache(t, r)
    BY <1>13 DEF Ensure
  <2> HIDE DEF p, c, r
  <2>6. TypeRegistry' BY <2>1, <2>2, <2>4, EnsureType
  <2>7. CASE Goto(t, "sendmeta") /\ UNCHANGED <<stored, statics>>
    <3>1. TypeCall' BY <2>7 DEF Goto, TypeCall
    <3> QED BY <1>0, <1>3, <1>4, <2>4, <2>6, <2>7, <3>1, TypesAfter
  <2>8. CASE Resolved(t, r) /\ Cache(t, r)
    <3>1. TypeStored' /\ TypeCall' /\ TypeStatics' BY <2>1, <2>3, <2>8, ResolvedType, CacheType
    <3> QED BY <1>3, <2>4, <2>6, <3>1, TypesAfter
  <2> QED BY <2>5, <2>7, <2>8
<1>14. ASSUME NEW t \in Threads, SendMetadata(t) PROVE TypeOK'
  <2> DEFINE frame == [kind |-> "meta", site |-> Current(t).site, id |-> Current(t).id, by |-> t]
  <2>1. Current(t) \in Ref /\ pipe[t] \in Pipelines
    BY <1>14, CurrentType DEF SendMetadata, TypeCall
  <2>2. frame \in MetaFrame BY <2>1 DEF MetaFrame, Ref
  <2>3. Accept(pipe[t], frame) /\ Goto(t, "mark") /\ UNCHANGED <<registry, stored, statics>>
    BY <1>14 DEF SendMetadata
  <2> HIDE DEF frame
  <2>4. TypeOutput' BY <2>1, <2>2, <2>3, AcceptType
  <2>5. TypeCall' BY <2>3 DEF Goto, TypeCall
  <2> QED BY <1>0, <1>2, <1>4, <2>3, <2>4, <2>5, TypesAfter
<1>15. ASSUME NEW t \in Threads, DropMetadata(t) PROVE TypeOK'
  <2>1. [Current(t) EXCEPT !.refused = TRUE] \in Ref /\ pipe[t] \in Pipelines
    BY <1>15, CurrentType DEF DropMetadata, TypeCall
  <2>2. todo[t] # <<>> BY <1>15 DEF DropMetadata, CallOK
  <2>3. TypeStored' /\ TypeCall' BY <1>15, <2>1, <2>2, ResolvedType DEF DropMetadata
  <2>4. TypeOutput' BY <1>15, <2>1 DEF DropMetadata, Drop, TypeOutput
  <2> QED BY <1>2, <1>4, <1>15, <2>3, <2>4, TypesAfter DEF DropMetadata
<1>16. ASSUME NEW t \in Threads, MarkEmitted(t) PROVE TypeOK'
  <2>1. Current(t) \in Ref /\ pipe[t] \in Pipelines
    BY <1>16, CurrentType DEF MarkEmitted, TypeCall
  <2>2. todo[t] # <<>> BY <1>16 DEF MarkEmitted, CallOK
  <2>3. TypeStored' /\ TypeCall' /\ TypeStatics'
    BY <1>16, <2>1, <2>2, ResolvedType, CacheType DEF MarkEmitted
  <2>4. Head(todo[t]) \in Callsites BY <2>2, HeadSite
  <2>5. TypeRegistry' BY <1>16, <2>4 DEF MarkEmitted, TypeRegistry, Registered
  <2> QED BY <1>3, <1>16, <2>3, <2>5, TypesAfter DEF MarkEmitted
<1>17. ASSUME NEW t \in Threads, Emit(t) PROVE TypeOK'
  <2> DEFINE frame == [kind |-> "event", own |-> Head(got[t]), spans |-> context[t], by |-> t]
  <2>1. frame \in EventFrame /\ pipe[t] \in Pipelines
    BY <1>17, EmitType DEF Emit, TypeCall
  <2>2. /\ Accept(pipe[t], frame) \/ Drop(pipe[t])
        /\ Return(t) /\ UNCHANGED <<registry, stored, statics>>
    BY <1>17 DEF Emit
  <2> HIDE DEF frame
  <2>3. TypeOutput'
    <3>1. frame \in MetaFrame \union EventFrame BY <2>1
    <3> QED BY <2>1, <2>2, <3>1, AcceptType
  <2>4. TypeCall' BY <2>2, ReturnType
  <2> QED BY <1>0, <1>2, <1>4, <2>2, <2>3, <2>4, TypesAfter
<1> QED
  BY <1>6, <1>7, <1>8, <1>9, <1>10, <1>11, <1>12, <1>13, <1>14, <1>15, <1>16, <1>17, Steps

-----------------------------------------------------------------------------
(* Whose step touches what.                                                *)

(* Nothing that belongs to thread t changes.                               *)
Kept(t) ==
  /\ pc'[t] = pc[t] /\ pipe'[t] = pipe[t] /\ todo'[t] = todo[t] /\ got'[t] = got[t]
  /\ context'[t] = context[t] /\ used'[t] = used[t]
  /\ last'[t] = last[t] /\ cache'[t] = cache[t]

LEMMA ResolvedKeeps ==
  ASSUME TypeOK, NEW u \in Threads, NEW r, Resolved(u, r), NEW t \in Threads, t # u
  PROVE  /\ pc'[t] = pc[t] /\ pipe'[t] = pipe[t] /\ todo'[t] = todo[t] /\ got'[t] = got[t]
         /\ context'[t] = context[t] /\ used'[t] = used[t]
<1> USE Types DEF TypeCall
<1>1. CASE Continue(u, r) BY <1>1 DEF Continue
<1>2. CASE StoreSpan(u, r) BY <1>2 DEF StoreSpan, Return
<1> QED BY <1>1, <1>2 DEF Resolved

(* The steps as thread t sees them.                                        *)
LEMMA CallSteps ==
  ASSUME TypeOK, [Next]_vars, NEW t \in Threads
  PROVE  \/ Kept(t)
         \/ Begins(t)
         \/ ResolveCached(t) \/ Ensure(t) \/ SendMetadata(t) \/ DropMetadata(t)
         \/ MarkEmitted(t) \/ BuildSpanContext(t) \/ Emit(t)
<1>1. CASE UNCHANGED vars BY <1>1 DEF vars, call, statics, Kept
<1>2. ASSUME NEW p \in Pipelines, Receive(p) PROVE Kept(t)
  BY <1>2 DEF Receive, call, statics, Kept
<1>3. ASSUME NEW p \in Pipelines, NEW c \in Callsites, RegisterCallsite(p, c)
      PROVE  Kept(t)
  BY <1>3 DEF RegisterCallsite, call, statics, Kept
<1>4. ASSUME NEW p \in Pipelines, NEW r \in stored[p], CloseSpan(p, r) PROVE Kept(t)
  BY <1>4 DEF CloseSpan, call, statics, Kept
<1>5. ASSUME NEW u \in Threads, u # t PROVE
        Begins(u) \/ ResolveCached(u) \/ Ensure(u) \/ SendMetadata(u) \/ DropMetadata(u)
          \/ MarkEmitted(u) \/ BuildSpanContext(u) \/ Emit(u) => Kept(t)
  <2> USE Types DEF TypeCall, TypeStatics, Kept, statics
  <2>1. ASSUME Begins(u) PROVE Kept(t) BY <1>5, <2>1 DEF Begins, Begin
  <2>2. ASSUME BuildSpanContext(u) PROVE Kept(t) BY <1>5, <2>2 DEF BuildSpanContext
  <2>4. ASSUME ResolveCached(u) PROVE Kept(t)
    BY <1>5, <2>4, ResolvedKeeps DEF ResolveCached
  <2>5. ASSUME Ensure(u) PROVE Kept(t)
    <3>1. ASSUME Goto(u, "sendmeta"), UNCHANGED statics PROVE Kept(t)
      BY <1>5, <3>1 DEF Goto
    <3>2. ASSUME NEW r, Resolved(u, r), Cache(u, r) PROVE Kept(t)
      BY <1>5, <3>2, ResolvedKeeps DEF Cache
    <3> QED BY <2>5, <3>1, <3>2 DEF Ensure
  <2>6. ASSUME SendMetadata(u) PROVE Kept(t) BY <1>5, <2>6 DEF SendMetadata, Goto
  <2>7. ASSUME DropMetadata(u) PROVE Kept(t)
    BY <1>5, <2>7, ResolvedKeeps DEF DropMetadata
  <2>8. ASSUME MarkEmitted(u) PROVE Kept(t)
    BY <1>5, <2>8, ResolvedKeeps DEF MarkEmitted, Cache
  <2>9. ASSUME Emit(u) PROVE Kept(t) BY <1>5, <2>9 DEF Emit, Return
  <2> QED BY <2>1, <2>2, <2>4, <2>5, <2>6, <2>7, <2>8, <2>9
<1> QED BY <1>1, <1>2, <1>3, <1>4, <1>5, Steps

(* Ids are given out once, and marks are never taken back.                 *)
LEMMA EnsureGrows ==
  ASSUME TypeOK, NEW q \in Pipelines, NEW c, EnsureCallsite(q, c), NEW p \in Pipelines
  PROVE  /\ Registered(p) \subseteq Registered(p)'
         /\ \A d \in Registered(p) : idOf'[p][d] = idOf[p][d]
         /\ emitted' = emitted
<1>1. CASE c \in Registered(q)
  BY <1>1 DEF EnsureCallsite, registry, Registered
<1>2. CASE c \notin Registered(q)
  <2> DEFINE ids == [x \in Registered(q) \union {c} |-> IdFor(q, x)]
  <2>1. idOf' = [idOf EXCEPT ![q] = ids] /\ emitted' = emitted
    BY <1>2 DEF EnsureCallsite
  <2>2. \A d \in Registered(q) : d \in DOMAIN ids /\ ids[d] = idOf[q][d]
    BY DEF IdFor
  <2> HIDE DEF ids
  <2> QED BY <2>1, <2>2, Types DEF TypeRegistry, Registered
<1> QED BY <1>1, <1>2

(* A step that gives an id is register_callsite's or ensure_callsite's.    *)
LEMMA RegistrySteps ==
  ASSUME TypeOK, CallOK, [Next]_vars
  PROVE  \/ UNCHANGED registry
         \/ \E p \in Pipelines, c \in Callsites : EnsureCallsite(p, c)
         \/ \E t \in Threads : MarkEmitted(t)
<1>1. ASSUME NEW t \in Threads, Ensure(t)
      PROVE  \E p \in Pipelines, c \in Callsites : EnsureCallsite(p, c)
  <2>1. todo[t] # <<>> /\ pipe[t] \in Pipelines
    BY <1>1, Types DEF Ensure, CallOK, TypeCall
  <2>2. Head(todo[t]) \in Callsites BY <2>1, HeadSite, Types
  <2> QED BY <1>1, <2>1, <2>2 DEF Ensure
<1> QED
  BY <1>1, Steps DEF vars, Receive, RegisterCallsite, Begins, Begin, CloseSpan,
     ResolveCached, SendMetadata, DropMetadata, BuildSpanContext, Emit

LEMMA RegistryGrows ==
  ASSUME TypeOK, CallOK, [Next]_vars, NEW p \in Pipelines
  PROVE  /\ Registered(p) \subseteq Registered(p)'
         /\ \A d \in Registered(p) : idOf'[p][d] = idOf[p][d]
         /\ emitted[p] \subseteq emitted'[p]
<1>1. CASE UNCHANGED registry BY <1>1 DEF registry, Registered
<1>2. ASSUME NEW q \in Pipelines, NEW c \in Callsites, EnsureCallsite(q, c)
      PROVE  /\ Registered(p) \subseteq Registered(p)'
             /\ \A d \in Registered(p) : idOf'[p][d] = idOf[p][d]
             /\ emitted[p] \subseteq emitted'[p]
  BY <1>2, EnsureGrows
<1>3. ASSUME NEW t \in Threads, MarkEmitted(t)
      PROVE  /\ Registered(p) \subseteq Registered(p)'
             /\ \A d \in Registered(p) : idOf'[p][d] = idOf[p][d]
             /\ emitted[p] \subseteq emitted'[p]
  BY <1>3, Types DEF MarkEmitted, Registered, TypeRegistry
<1> QED BY <1>1, <1>2, <1>3, RegistrySteps

(* Frames stay where they were accepted.                                   *)
LEMMA AcceptAppends ==
  ASSUME TypeOK, NEW q \in Pipelines, NEW frame \in MetaFrame \union EventFrame,
         Accept(q, frame), NEW p \in Pipelines
  PROVE  /\ p # q => stream'[p] = stream[p]
         /\ Len(stream'[q]) = Len(stream[q]) + 1 /\ stream'[q][Len(stream[q]) + 1] = frame
         /\ \A i \in 1..Len(stream[q]) : stream'[q][i] = stream[q][i]
<1> DEFINE F == MetaFrame \union EventFrame
<1>1. stream[q] \in Seq(F) /\ frame \in F BY Types DEF TypeOutput
<1>2. stream' = [stream EXCEPT ![q] = Append(stream[q], frame)] BY DEF Accept
<1>3. DOMAIN stream = Pipelines BY Types DEF TypeOutput
<1> HIDE DEF F
<1>4. /\ Len(Append(stream[q], frame)) = Len(stream[q]) + 1
      /\ \A i \in 1..Len(stream[q]) : Append(stream[q], frame)[i] = stream[q][i]
      /\ Append(stream[q], frame)[Len(stream[q]) + 1] = frame
  BY <1>1, AppendProperties
<1> QED BY <1>2, <1>3, <1>4

(* What a step appends to the stream.                                      *)
MetaOf(t)  == [kind |-> "meta", site |-> Current(t).site, id |-> Current(t).id, by |-> t]
EventOf(t) == [kind |-> "event", own |-> Head(got[t]), spans |-> context[t], by |-> t]

LEMMA FrameOf ==
  ASSUME TypeOK, CallOK, NEW t \in Threads
  PROVE  /\ SendMetadata(t) => MetaOf(t) \in MetaFrame \union EventFrame
         /\ Emit(t) => EventOf(t) \in MetaFrame \union EventFrame
<1>1. SendMetadata(t) => Current(t) \in Ref BY CurrentType DEF SendMetadata
<1>2. SendMetadata(t) => MetaOf(t) \in MetaFrame BY <1>1 DEF MetaOf, MetaFrame, Ref
<1>3. Emit(t) => EventOf(t) \in EventFrame BY EmitType DEF Emit, EventOf
<1> QED BY <1>2, <1>3

LEMMA StreamSteps ==
  ASSUME TypeOK, CallOK, [Next]_vars
  PROVE  \/ stream' = stream
         \/ \E t \in Threads : SendMetadata(t) /\ Accept(pipe[t], MetaOf(t))
         \/ \E t \in Threads : Emit(t) /\ Accept(pipe[t], EventOf(t))
<1>1. ASSUME NEW t \in Threads PROVE
        /\ SendMetadata(t) => Accept(pipe[t], MetaOf(t))
        /\ Emit(t) => stream' = stream \/ Accept(pipe[t], EventOf(t))
        /\ DropMetadata(t) => stream' = stream
  BY DEF SendMetadata, Emit, DropMetadata, Drop, MetaOf, EventOf
<1>2. ASSUME NEW t \in Threads PROVE
        Begins(t) \/ ResolveCached(t) \/ Ensure(t) \/ MarkEmitted(t) \/ BuildSpanContext(t)
          => stream' = stream
  BY DEF Begins, Begin, ResolveCached, Ensure, MarkEmitted, BuildSpanContext, output
<1>3. ASSUME NEW p \in Pipelines, NEW r, CloseSpan(p, r) PROVE stream' = stream
  BY <1>3 DEF CloseSpan, output
<1>4. ASSUME NEW p \in Pipelines PROVE
        /\ Receive(p) => stream' = stream
        /\ \A c \in Callsites : RegisterCallsite(p, c) => stream' = stream
  BY DEF Receive, RegisterCallsite, output
<1>5. UNCHANGED vars => stream' = stream BY DEF vars, output
<1> QED BY <1>1, <1>2, <1>3, <1>4, <1>5, Steps

LEMMA StreamGrows ==
  ASSUME TypeOK, CallOK, [Next]_vars, NEW p \in Pipelines
  PROVE  /\ Len(stream[p]) \in Nat /\ Len(stream'[p]) \in Nat
         /\ Len(stream[p]) <= Len(stream'[p])
         /\ \A i \in 1..Len(stream[p]) : stream'[p][i] = stream[p][i]
<1>1. Len(stream[p]) \in Nat BY Types DEF TypeOutput
<1>2. ASSUME NEW t \in Threads, NEW frame \in MetaFrame \union EventFrame,
             Accept(pipe[t], frame)
      PROVE  /\ Len(stream'[p]) \in Nat /\ Len(stream[p]) <= Len(stream'[p])
             /\ \A i \in 1..Len(stream[p]) : stream'[p][i] = stream[p][i]
  <2>1. pipe[t] \in Pipelines BY Types DEF TypeCall
  <2>2. CASE p = pipe[t] BY <1>1, <1>2, <2>1, <2>2, AcceptAppends
  <2>3. CASE p # pipe[t] BY <1>1, <1>2, <2>1, <2>3, AcceptAppends
  <2> QED BY <2>2, <2>3
<1> QED BY <1>1, <1>2, FrameOf, StreamSteps

-----------------------------------------------------------------------------
(* The stages of a call.                                                   *)

LEMMA CallOKStep ==
  ASSUME TypeOK, CallOK, [Next]_vars
  PROVE  CallOK'
<1> DEFINE Fine(t) ==
      /\ pc[t] \in {"resolve", "sendmeta", "mark"} => todo[t] # <<>>
      /\ pc[t] \in {"sendmeta", "mark"} =>
           pipe[t] \in Binary /\ Head(todo[t]) \in Registered(pipe[t])
      /\ pc[t] \in {"context", "emit"} => got[t] # <<>>
<1> SUFFICES ASSUME NEW t \in Threads PROVE Fine(t)'
  BY DEF CallOK
<1>1. Fine(t) BY DEF CallOK
<1>2. pipe[t] \in Pipelines /\ TypeCall BY Types DEF TypeCall
<1>3. Registered(pipe[t]) \subseteq DOMAIN idOf'[pipe[t]]
  BY <1>2, RegistryGrows DEF Registered
<1>4. CASE Kept(t)
  <2> QED BY <1>1, <1>3, <1>4 DEF Kept, Registered
<1>5. CASE Begins(t) BY <1>2, <1>5 DEF Begins, Begin, TypeCall
<1>6. CASE BuildSpanContext(t) BY <1>1, <1>2, <1>6 DEF BuildSpanContext, TypeCall
<1>8. ASSUME NEW r \in Ref, Resolved(t, r), todo[t] # <<>> PROVE Fine(t)'
  <2>1. /\ pc'[t] \in {"resolve", "context", "idle"}
        /\ pc'[t] = "resolve" => todo'[t] # <<>>
        /\ pc'[t] = "context" => got'[t] # <<>>
    BY <1>2, <1>8, ResolvedType, Types
  <2> QED BY <2>1
<1>9. CASE ResolveCached(t)
  <2>1. PICK r \in Cached(t, Head(todo[t])) : Resolved(t, r)
    BY <1>9 DEF ResolveCached
  <2>2. r \in Ref BY CachedHolds, Types
  <2>3. todo[t] # <<>> BY <1>1, <1>9 DEF ResolveCached
  <2> QED BY <1>8, <2>1, <2>2, <2>3
<1>10. CASE Ensure(t)
  <2> DEFINE p == pipe[t]
             c == Head(todo[t])
             r == [site |-> c, id |-> IdFor(p, c), by |-> t, refused |-> FALSE]
  <2>1. todo[t] # <<>> BY <1>1, <1>10 DEF Ensure
  <2>2. c \in Callsites BY <1>2, <2>1, HeadSite
  <2>3. r \in Ref BY <1>2, <2>2, IdForType, Types DEF Ref
  <2>4. EnsureCallsite(p, c) BY <1>10 DEF Ensure
  <2>5. c \in DOMAIN idOf'[p] BY <1>2, <2>2, <2>4, EnsureType, Types DEF Registered
  <2>6. CASE MetadataDue(p, c) /\ Goto(t, "sendmeta")
    <3>1. pc'[t] = "sendmeta" /\ pipe' = pipe /\ todo' = todo
      BY <1>2, <2>6 DEF Goto, TypeCall
    <3>2. p \in Binary BY <2>6 DEF MetadataDue
    <3> QED BY <2>1, <2>5, <3>1, <3>2 DEF Registered
  <2>7. CASE Resolved(t, r) BY <1>8, <2>1, <2>3, <2>7
  <2> QED BY <1>10, <2>6, <2>7 DEF Ensure
<1>11. CASE SendMetadata(t)
  <2>1. pc[t] = "sendmeta" /\ pc'[t] = "mark" /\ pipe' = pipe /\ todo' = todo
    BY <1>2, <1>11 DEF SendMetadata, Goto, TypeCall
  <2> QED BY <1>1, <1>3, <2>1 DEF Registered
<1>12. CASE DropMetadata(t)
  <2>1. [Current(t) EXCEPT !.refused = TRUE] \in Ref /\ todo[t] # <<>>
    BY <1>1, <1>12, CurrentType DEF DropMetadata
  <2> QED BY <1>8, <1>12, <2>1 DEF DropMetadata
<1>13. CASE MarkEmitted(t)
  <2>1. Current(t) \in Ref /\ todo[t] # <<>>
    BY <1>1, <1>13, CurrentType DEF MarkEmitted
  <2> QED BY <1>8, <1>13, <2>1 DEF MarkEmitted
<1>14. CASE Emit(t) BY <1>2, <1>14 DEF Emit, Return, TypeCall
<1> QED
  BY <1>4, <1>5, <1>6, <1>9, <1>10, <1>11, <1>12, <1>13, <1>14, CallSteps

LEMMA TypeStepped ==
  ASSUME TypeOK, CallOK, [Next]_vars
  PROVE  TypeOK' /\ CallOK'
<1>1. CASE UNCHANGED vars
  <2>1. TypeOK' BY <1>1, TypesAfter, Types DEF vars, registry, output, statics, call,
          TypeRegistry, TypeOutput, TypeStored, TypeStatics, TypeCall, Registered
  <2> QED BY <2>1, CallOKStep
<1>2. CASE Next BY <1>2, TypeStep, CallOKStep
<1> QED BY <1>1, <1>2

(* The pipeline's variables keep their types, whatever the sizes.          *)
THEOREM PipelineTypeCorrect == Spec => []TypeOK
<1>1. Init => TypeOK /\ CallOK BY TypeInit
<1>2. TypeOK /\ CallOK /\ [Next]_vars => TypeOK' /\ CallOK' BY TypeStepped
<1> QED BY <1>1, <1>2, PTL DEF Spec

(* An id, once given to a callsite, is that callsite's for good (IdsStable *)
(* of the runs): CallsiteRegistry never renumbers or forgets an entry.     *)
THEOREM IdsNeverChange == Spec => IdsStable
<1>1. Init => TypeOK /\ CallOK BY TypeInit
<1>2. TypeOK /\ CallOK /\ [Next]_vars => TypeOK' /\ CallOK' BY TypeStepped
<1>3. TypeOK /\ CallOK /\ [Next]_vars =>
        [\A p \in Pipelines : \A c \in Registered(p) :
           c \in DOMAIN idOf'[p] /\ idOf'[p][c] = idOf[p][c]]_vars
  BY RegistryGrows DEF Registered
<1> QED BY <1>1, <1>2, <1>3, PTL DEF Spec, IdsStable

-----------------------------------------------------------------------------
(* Two callsites never share an id.                                        *)

(* next_id counts the entries, so it never saturates: there are at most as *)
(* many callsites as ids.                                                  *)
Numbered(p) ==
  /\ Cardinality(Registered(p)) = nextId[p]
  /\ \A c \in Registered(p) : idOf[p][c] < nextId[p]
  /\ \A c, d \in Registered(p) : idOf[p][c] = idOf[p][d] => c = d

LEMMA NumberedSame ==
  ASSUME NEW p, idOf'[p] = idOf[p], nextId'[p] = nextId[p], Numbered(p)
  PROVE  Numbered(p)'
BY DEF Numbered, Registered

LEMMA EnsureNumbers ==
  ASSUME TypeRegistry, NEW q \in Pipelines, NEW c \in Callsites, EnsureCallsite(q, c),
         NEW p \in Pipelines, Numbered(p)
  PROVE  Numbered(p)'
<1>1. CASE c \in Registered(q)
  BY <1>1, NumberedSame DEF EnsureCallsite, registry
<1>2. CASE c \notin Registered(q) /\ p # q
  <2>1. idOf'[p] = idOf[p] /\ nextId'[p] = nextId[p]
    BY <1>2 DEF EnsureCallsite, TypeRegistry
  <2> QED BY <2>1, NumberedSame
<1>3. CASE c \notin Registered(q) /\ p = q
  <2> DEFINE ids == [x \in Registered(p) \union {c} |-> IdFor(p, x)]
  <2>1. /\ idOf' = [idOf EXCEPT ![p] = ids]
        /\ nextId'[p] = SaturatingSucc(nextId[p])
    BY <1>3 DEF EnsureCallsite, TypeRegistry
  <2>2. idOf'[p] = ids BY <2>1 DEF TypeRegistry
  <2>3. /\ Registered(p)' = Registered(p) \union {c}
        /\ \A x \in Registered(p) : idOf'[p][x] = idOf[p][x]
        /\ idOf'[p][c] = nextId[p]
    BY <1>3, <2>2 DEF Registered, IdFor
  <2> HIDE DEF ids
  <2>4. Registered(p) \union {c} \subseteq Callsites BY DEF TypeRegistry
  <2>5. /\ IsFiniteSet(Registered(p) \union {c}) /\ IsFiniteSet(Registered(p))
        /\ Cardinality(Registered(p) \union {c}) <= Cardinality(Callsites)
        /\ Cardinality(Callsites) \in Nat
    BY <2>4, PipelineAssumption, FS_Subset, FS_CardinalityType
  <2>6. Cardinality(Registered(p) \union {c}) = Cardinality(Registered(p)) + 1
    BY <1>3, <2>5, FS_AddElement
  <2>7. nextId[p] \in Nat /\ MaxId \in Nat /\ Cardinality(Callsites) <= MaxId
    BY PipelineAssumption DEF TypeRegistry
  <2>8. nextId'[p] = nextId[p] + 1
    BY <2>1, <2>5, <2>6, <2>7 DEF SaturatingSucc, Numbered
  <2>9. Cardinality(Registered(p)') = nextId'[p] BY <2>3, <2>6, <2>8 DEF Numbered
  <2>10. \A x \in Registered(p) : idOf[p][x] \in Nat /\ idOf[p][x] < nextId[p]
    BY DEF Numbered, TypeRegistry
  <2>11. \A x \in Registered(p)' : idOf'[p][x] < nextId'[p]
    BY <2>3, <2>7, <2>8, <2>10
  <2>12. \A x, y \in Registered(p)' : idOf'[p][x] = idOf'[p][y] => x = y
    BY <2>3, <2>7, <2>10 DEF Numbered
  <2> QED BY <2>9, <2>11, <2>12 DEF Numbered
<1> QED BY <1>1, <1>2, <1>3

LEMMA NumberedInit == Init => \A p \in Pipelines : Numbered(p)
<1> SUFFICES ASSUME Init, NEW p \in Pipelines PROVE Numbered(p)
  OBVIOUS
<1>1. idOf[p] = <<>> /\ nextId[p] = 0 BY DEF Init
<1>2. Registered(p) = {} BY <1>1 DEF Registered
<1> QED BY <1>1, <1>2, FS_EmptySet DEF Numbered

LEMMA NumberedStep ==
  ASSUME TypeOK, CallOK, [Next]_vars, \A p \in Pipelines : Numbered(p)
  PROVE  \A p \in Pipelines : Numbered(p)'
<1> SUFFICES ASSUME NEW p \in Pipelines PROVE Numbered(p)'
  OBVIOUS
<1>1. CASE UNCHANGED registry BY <1>1, NumberedSame DEF registry
<1>2. ASSUME NEW q \in Pipelines, NEW c \in Callsites, EnsureCallsite(q, c)
      PROVE  Numbered(p)'
  BY <1>2, EnsureNumbers, Types
<1>3. ASSUME NEW t \in Threads, MarkEmitted(t) PROVE Numbered(p)'
  BY <1>3, NumberedSame DEF MarkEmitted
<1> QED BY <1>1, <1>2, <1>3, RegistrySteps

(* Two callsites of a pipeline never share an id: ids are handed out in    *)
(* order by one counter under the registry's lock.                         *)
THEOREM IdsNeverShared == Spec => []IdsDistinct
<1> DEFINE Inv == TypeOK /\ CallOK /\ \A p \in Pipelines : Numbered(p)
<1>1. Init => Inv BY TypeInit, NumberedInit
<1>2. Inv /\ [Next]_vars => Inv' BY TypeStepped, NumberedStep
<1>3. Inv => IdsDistinct BY DEF Numbered, IdsDistinct
<1> QED BY <1>1, <1>2, <1>3, PTL DEF Spec

-----------------------------------------------------------------------------
(* What a thread may rely on without sending metadata.                     *)

(* The reference is the registered one and its metadata is in the channel. *)
Trusted(p, r) ==
  r.site \in Registered(p) /\ r.id = idOf[p][r.site] /\ Accepted(p, r.site)

(* A metadata frame carries the id registered for its callsite.            *)
Announced(p) ==
  \A i \in 1..Len(stream[p]) : stream[p][i].kind = "meta" =>
    /\ stream[p][i].site \in Registered(p)
    /\ stream[p][i].id = idOf[p][stream[p][i].site]

(* A marked callsite is registered and was announced.                      *)
Marked(p) == \A c \in emitted[p] : c \in Registered(p) /\ Accepted(p, c)

(* A call uses one of the thread's pipelines, it copies spans for its      *)
(* event only, and a callsite about to be marked was announced.            *)
InCall(t) ==
  /\ pc[t] # "idle" => pipe[t] \in used[t]
  /\ pc[t] # "emit" => context[t] = {}
  /\ pc[t] = "mark" => Accepted(pipe[t], Head(todo[t]))

(* Whoever resolved the reference: if loyal to p, it may be relied on.     *)
Reliable(p, r) == Loyal(r.by, p) => r.refused \/ Trusted(p, r)

(* What the caches of a thread hold, and what its call has resolved; what  *)
(* the shared store holds, and what a call has copied from there.          *)
CachesTrusted(t, p) ==
  \A r \in last[t] \union Range(cache[t]) : r.by = t /\ (Loyal(t, p) => Trusted(p, r))
GotTrusted(t, p) == \A r \in Range(got[t]) : r.by = t /\ Reliable(p, r)
StoredTrusted(p) == \A r \in stored[p] : Reliable(p, r)
ContextTrusted(t, p) == pipe[t] = p => \A r \in context[t] : Reliable(p, r)

(* References of an event that loyal threads resolved were announced       *)
(* before it.                                                              *)
Backed(p, i) ==
  \A r \in {stream[p][i].own} \union stream[p][i].spans : Loyal(r.by, p) =>
    \/ r.refused
    \/ /\ r.site \in Registered(p) /\ r.id = idOf[p][r.site]
       /\ \E j \in 1..i - 1 : stream[p][j].kind = "meta" /\ stream[p][j].site = r.site

Trust ==
  /\ \A t \in Threads : InCall(t)
  /\ \A p \in Binary :
       /\ Announced(p) /\ Marked(p)
       /\ \A t \in Threads : CachesTrusted(t, p) /\ GotTrusted(t, p) /\ ContextTrusted(t, p)
       /\ StoredTrusted(p)
       /\ \A i \in Events(p) : Backed(p, i)

LEMMA BinaryPipelines == ASSUME NEW p \in Binary PROVE p \in Pipelines
BY PipelineAssumption

LEMMA AcceptedAfter ==
  ASSUME TypeOK, CallOK, [Next]_vars, NEW p \in Pipelines, NEW c, Accepted(p, c)
  PROVE  \E i \in 1..Len(stream'[p]) :
           stream'[p][i].kind = "meta" /\ stream'[p][i].site = c
BY StreamGrows DEF Accepted

LEMMA AcceptedGrows ==
  ASSUME TypeOK, CallOK, [Next]_vars, NEW p \in Pipelines, NEW c, Accepted(p, c)
  PROVE  Accepted(p, c)'
BY AcceptedAfter DEF Accepted

LEMMA TrustedGrows ==
  ASSUME TypeOK, CallOK, [Next]_vars, NEW p \in Pipelines, NEW r, Trusted(p, r)
  PROVE  Trusted(p, r)'
BY RegistryGrows, AcceptedGrows DEF Trusted

(* used only grows, so whoever is loyal was.                               *)
LEMMA LoyalBefore ==
  ASSUME TypeOK, CallOK, [Next]_vars, NEW t \in Threads, NEW p, Loyal(t, p)'
  PROVE  Loyal(t, p)
<1>1. used[t] \subseteq used'[t]
  <2>1. CASE Kept(t) BY <2>1 DEF Kept
  <2>2. CASE Begins(t) BY <2>2, Types DEF TypeCall, Begins, Begin
  <2>3. ASSUME NEW r, Resolved(t, r) PROVE used' = used
    BY <2>3 DEF Resolved, Continue, StoreSpan, Return
  <2>4. CASE Ensure(t)
    <3>1. CASE Goto(t, "sendmeta") BY <3>1 DEF Goto
    <3>2. CASE \E r : Resolved(t, r) BY <2>3, <3>2
    <3> QED BY <2>4, <3>1, <3>2 DEF Ensure
  <2>5. CASE ResolveCached(t) \/ DropMetadata(t) \/ MarkEmitted(t)
    BY <2>3, <2>5 DEF ResolveCached, DropMetadata, MarkEmitted
  <2>6. CASE SendMetadata(t) \/ BuildSpanContext(t) \/ Emit(t)
    BY <2>6 DEF SendMetadata, BuildSpanContext, Emit, Return, Goto
  <2> QED BY <2>1, <2>2, <2>4, <2>5, <2>6, CallSteps
<1> QED BY <1>1 DEF Loyal

LEMMA LoyalPipe ==
  ASSUME NEW t \in Threads, NEW p, Loyal(t, p), InCall(t), pc[t] # "idle"
  PROVE  pipe[t] = p
BY DEF Loyal, InCall

LEMMA TrustInit == Init => Trust
<1> SUFFICES ASSUME Init PROVE Trust
  OBVIOUS
<1>1. \A t \in Threads : InCall(t) BY DEF Init, InCall
<1>2. ASSUME NEW p \in Binary
      PROVE  /\ Announced(p) /\ Marked(p)
             /\ \A t \in Threads :
                  CachesTrusted(t, p) /\ GotTrusted(t, p) /\ ContextTrusted(t, p)
             /\ StoredTrusted(p)
             /\ \A i \in Events(p) : Backed(p, i)
  <2>1. p \in Pipelines BY BinaryPipelines
  <2>2. Len(stream[p]) = 0 /\ emitted[p] = {} BY <2>1 DEF Init
  <2>3. \A i \in 1..Len(stream[p]) : FALSE BY <2>2
  <2>4. Range(<<>>) = {} BY DEF Range
  <2>5. /\ \A t \in Threads :
             CachesTrusted(t, p) /\ GotTrusted(t, p) /\ ContextTrusted(t, p)
        /\ StoredTrusted(p)
    BY <2>1, <2>4 DEF Init, CachesTrusted, GotTrusted, ContextTrusted, StoredTrusted
  <2> QED BY <2>2, <2>3, <2>5 DEF Announced, Marked, Events
<1> QED BY <1>1, <1>2 DEF Trust

LEMMA InCallStep ==
  ASSUME TypeOK, CallOK, [Next]_vars, NEW t \in Threads, InCall(t)
  PROVE  InCall(t)'
<1>0. TypeCall BY Types
<1>1. pipe[t] \in Pipelines BY <1>0 DEF TypeCall
<1>2. CASE Kept(t)
  <2>1. Accepted(pipe[t], Head(todo[t])) =>
          \E i \in 1..Len(stream'[pipe[t]]) :
            stream'[pipe[t]][i].kind = "meta" /\ stream'[pipe[t]][i].site = Head(todo[t])
    BY <1>1, AcceptedAfter
  <2>2. pc'[t] = pc[t] /\ pipe'[t] = pipe[t] /\ todo'[t] = todo[t]
        /\ used'[t] = used[t] /\ context'[t] = context[t]
    BY <1>2 DEF Kept
  <2> QED BY <2>1, <2>2 DEF InCall, Accepted
<1>3. CASE Begins(t) BY <1>0, <1>3 DEF Begins, Begin, InCall, TypeCall
<1>4. CASE BuildSpanContext(t) BY <1>0, <1>4 DEF BuildSpanContext, InCall, TypeCall
<1>6. ASSUME NEW r, Resolved(t, r), pc[t] \notin {"idle", "emit"} PROVE InCall(t)'
  BY <1>0, <1>6 DEF Resolved, Continue, StoreSpan, Return, InCall, TypeCall
<1>7. CASE ResolveCached(t) BY <1>6, <1>7 DEF ResolveCached
<1>8. CASE Ensure(t)
  <2>1. CASE Goto(t, "sendmeta") BY <1>0, <1>8, <2>1 DEF Ensure, Goto, InCall, TypeCall
  <2>2. ASSUME NEW r, Resolved(t, r) PROVE InCall(t)' BY <1>6, <1>8, <2>2 DEF Ensure
  <2> QED BY <1>8, <2>1, <2>2 DEF Ensure
<1>9. CASE SendMetadata(t)
  <2>1. Accept(pipe[t], MetaOf(t)) /\ pipe' = pipe /\ todo' = todo /\ used' = used
        /\ context' = context
    BY <1>9 DEF SendMetadata, MetaOf, Goto
  <2>2. MetaOf(t) \in MetaFrame \union EventFrame BY <1>9, FrameOf
  <2>3. /\ Len(stream'[pipe[t]]) = Len(stream[pipe[t]]) + 1
        /\ stream'[pipe[t]][Len(stream[pipe[t]]) + 1] = MetaOf(t)
    BY <1>1, <2>1, <2>2, AcceptAppends
  <2>4. Len(stream[pipe[t]]) \in Nat BY <1>1, Types DEF TypeOutput
  <2>5. MetaOf(t).kind = "meta" /\ MetaOf(t).site = Head(todo[t]) BY DEF MetaOf, Current
  <2>6. Len(stream[pipe[t]]) + 1 \in 1..Len(stream'[pipe[t]]) BY <2>3, <2>4
  <2>7. Accepted(pipe[t], Head(todo[t]))' BY <2>1, <2>3, <2>5, <2>6 DEF Accepted
  <2> QED BY <1>0, <1>9, <2>1, <2>7 DEF SendMetadata, InCall, TypeCall
<1>10. CASE DropMetadata(t) BY <1>6, <1>10 DEF DropMetadata
<1>11. CASE MarkEmitted(t) BY <1>6, <1>11 DEF MarkEmitted
<1>12. CASE Emit(t) BY <1>0, <1>12 DEF Emit, Return, InCall, TypeCall
<1> QED
  BY <1>2, <1>3, <1>4, <1>7, <1>8, <1>9, <1>10, <1>11, <1>12, CallSteps

LEMMA AnnouncedStep ==
  ASSUME TypeOK, CallOK, [Next]_vars, NEW p \in Pipelines, Announced(p)
  PROVE  Announced(p)'
<1> SUFFICES ASSUME NEW i \in 1..Len(stream'[p]), stream'[p][i].kind = "meta"
             PROVE  /\ stream'[p][i].site \in Registered(p)'
                    /\ stream'[p][i].id = idOf'[p][stream'[p][i].site]
  BY DEF Announced
<1>1. Len(stream[p]) \in Nat /\ i \in Nat /\ i >= 1 BY StreamGrows
<1>2. CASE i \in 1..Len(stream[p])
  <2>1. stream'[p][i] = stream[p][i] BY <1>2, StreamGrows
  <2> QED BY <1>2, <2>1, RegistryGrows DEF Announced
<1>3. ASSUME NEW t \in Threads, NEW frame \in MetaFrame \union EventFrame,
             Accept(pipe[t], frame), i \notin 1..Len(stream[p])
      PROVE  p = pipe[t] /\ stream'[p][i] = frame
  <2>1. pipe[t] \in Pipelines BY Types DEF TypeCall
  <2> QED BY <1>1, <1>3, <2>1, AcceptAppends
<1>4. ASSUME NEW t \in Threads, SendMetadata(t), Accept(pipe[t], MetaOf(t)),
             i \notin 1..Len(stream[p])
      PROVE  /\ stream'[p][i].site \in Registered(p)'
             /\ stream'[p][i].id = idOf'[p][stream'[p][i].site]
  <2>1. p = pipe[t] /\ stream'[p][i] = MetaOf(t) BY <1>3, <1>4, FrameOf
  <2>2. Head(todo[t]) \in Registered(p) BY <1>4, <2>1 DEF SendMetadata, CallOK
  <2>3. MetaOf(t).site = Head(todo[t]) /\ MetaOf(t).id = idOf[p][Head(todo[t])]
    BY <2>1 DEF MetaOf, Current
  <2> QED BY <2>1, <2>2, <2>3, RegistryGrows
<1>5. ASSUME NEW t \in Threads, Emit(t), Accept(pipe[t], EventOf(t)),
             i \notin 1..Len(stream[p])
      PROVE  FALSE
  <2>1. stream'[p][i] = EventOf(t) BY <1>3, <1>5, FrameOf
  <2>2. EventOf(t).kind = "event" BY DEF EventOf
  <2> QED BY <2>1, <2>2
<1> QED BY <1>2, <1>4, <1>5, StreamSteps

LEMMA MarkedStep ==
  ASSUME TypeOK, CallOK, [Next]_vars, \A t \in Threads : InCall(t),
         NEW p \in Pipelines, Marked(p)
  PROVE  Marked(p)'
<1> SUFFICES ASSUME NEW c \in emitted'[p] PROVE c \in Registered(p)' /\ Accepted(p, c)'
  BY DEF Marked
<1>1. CASE c \in emitted[p]
  BY <1>1, RegistryGrows, AcceptedGrows DEF Marked
<1>2. ASSUME NEW t \in Threads, MarkEmitted(t), c \notin emitted[p]
      PROVE  c \in Registered(p)' /\ Accepted(p, c)'
  <2>1. p = pipe[t] /\ c = Head(todo[t]) BY <1>2, Types DEF MarkEmitted, TypeRegistry
  <2>2. c \in Registered(p) /\ Accepted(p, c)
    BY <1>2, <2>1 DEF MarkEmitted, CallOK, InCall
  <2> QED BY <2>2, RegistryGrows, AcceptedGrows
<1>3. ASSUME NEW q \in Pipelines, NEW d \in Callsites, EnsureCallsite(q, d)
      PROVE  emitted' = emitted
  BY <1>3, EnsureGrows
<1> QED BY <1>1, <1>2, <1>3, RegistrySteps DEF registry

(* What metadata_id returns, and what it then caches.                      *)
Returns(t, p, r) ==
  /\ Resolved(t, r)
  /\ r.by = t
  /\ Loyal(t, p) => r.refused \/ Trusted(p, r)
  /\ \/ UNCHANGED statics
     \/ /\ Loyal(t, p) => Trusted(p, r)
        /\ \/ last' = [last EXCEPT ![t] = {r}] /\ cache' = cache
           \/ Cache(t, r)

LEMMA ReturnsTrusted ==
  ASSUME TypeOK, CallOK, Trust, NEW p \in Binary, NEW t \in Threads,
         ResolveCached(t) \/ Ensure(t) \/ DropMetadata(t) \/ MarkEmitted(t)
  PROVE  \/ Goto(t, "sendmeta") /\ UNCHANGED <<stored, statics>>
         \/ \E r \in Ref : Returns(t, p, r)
<1>1. /\ Loyal(t, p) => pipe[t] = p
      /\ todo[t] # <<>> /\ Head(todo[t]) \in Callsites
      /\ pipe[t] \in Pipelines /\ TypeCall /\ TypeStatics
  <2>1. pc[t] \in {"resolve", "sendmeta", "mark"}
    BY DEF ResolveCached, Ensure, DropMetadata, MarkEmitted
  <2>2. InCall(t) BY DEF Trust
  <2>3. TypeCall /\ TypeStatics BY Types
  <2>4. todo[t] # <<>> BY <2>1 DEF CallOK
  <2> QED BY <2>1, <2>2, <2>3, <2>4, LoyalPipe, HeadSite DEF TypeCall
<1>2. CASE ResolveCached(t)
  <2>1. PICK r \in Cached(t, Head(todo[t])) :
          last' = [last EXCEPT ![t] = {r}] /\ Resolved(t, r)
    BY <1>2 DEF ResolveCached
  <2>2. r \in Ref /\ r \in last[t] \union Range(cache[t]) BY <1>1, CachedHolds
  <2>3. r.by = t /\ (Loyal(t, p) => Trusted(p, r)) BY <2>2 DEF Trust, CachesTrusted
  <2>4. cache' = cache BY <1>2 DEF ResolveCached
  <2> QED BY <2>1, <2>2, <2>3, <2>4 DEF Returns
<1>3. CASE Ensure(t)
  <2> DEFINE q == pipe[t]
             c == Head(todo[t])
             r == [site |-> c, id |-> IdFor(q, c), by |-> t, refused |-> FALSE]
  <2>1. CASE MetadataDue(q, c) BY <1>3, <2>1 DEF Ensure
  <2>2. CASE ~MetadataDue(q, c)
    <3>1. q = p => c \in Registered(p) /\ Accepted(p, c)
      BY <2>2 DEF MetadataDue, Trust, Marked
    <3>2. r \in Ref BY <1>1, IdForType, Types DEF Ref
    <3>3. Loyal(t, p) => Trusted(p, r) BY <1>1, <3>1 DEF Trusted, IdFor
    <3>4. Resolved(t, r) /\ Cache(t, r) BY <1>3, <2>2 DEF Ensure
    <3> QED BY <3>2, <3>3, <3>4 DEF Returns
  <2> QED BY <2>1, <2>2
<1>4. CASE DropMetadata(t)
  <2> DEFINE r == [Current(t) EXCEPT !.refused = TRUE]
  <2>1. r \in Ref BY <1>4, CurrentType DEF DropMetadata
  <2>2. r.refused /\ r.by = t BY DEF Current
  <2>3. Resolved(t, r) /\ UNCHANGED statics BY <1>4 DEF DropMetadata
  <2> QED BY <2>1, <2>2, <2>3 DEF Returns
<1>5. CASE MarkEmitted(t)
  <2>1. Current(t) \in Ref BY <1>5, CurrentType DEF MarkEmitted
  <2>2. /\ Head(todo[t]) \in Registered(pipe[t])
        /\ Accepted(pipe[t], Head(todo[t]))
    BY <1>5 DEF MarkEmitted, CallOK, Trust, InCall
  <2>3. Current(t).by = t /\ (Loyal(t, p) => Trusted(p, Current(t)))
    BY <1>1, <2>2 DEF Trusted, Current
  <2>4. Resolved(t, Current(t)) /\ Cache(t, Current(t)) BY <1>5 DEF MarkEmitted
  <2> QED BY <2>1, <2>3, <2>4 DEF Returns
<1> QED BY <1>2, <1>3, <1>4, <1>5

(* What a step leaves in the thread's caches.                              *)
LEMMA CachesStep ==
  ASSUME TypeOK, CallOK, [Next]_vars, Trust, NEW p \in Binary, NEW t \in Threads
  PROVE  CachesTrusted(t, p)'
<1> DEFINE Fine(r) == r.by = t /\ (Loyal(t, p)' => Trusted(p, r)')
<1> SUFFICES \A r \in last'[t] \union Range(cache'[t]) : Fine(r)
  BY DEF CachesTrusted
<1>1. p \in Pipelines /\ (Loyal(t, p)' => Loyal(t, p)) BY BinaryPipelines, LoyalBefore
<1>2. ASSUME NEW r, r.by = t, Loyal(t, p) => Trusted(p, r) PROVE Fine(r)
  BY <1>1, <1>2, TrustedGrows
<1>3. \A r \in last[t] \union Range(cache[t]) : Fine(r)
  BY <1>2 DEF Trust, CachesTrusted
<1> HIDE DEF Fine
<1>4. CASE last'[t] = last[t] /\ cache'[t] = cache[t] BY <1>3, <1>4
<1>5. ASSUME NEW r \in Ref, Returns(t, p, r)
      PROVE  \A x \in last'[t] \union Range(cache'[t]) : Fine(x)
  <2>1. TypeStatics BY Types
  <2>2. CASE UNCHANGED statics BY <1>4, <2>2 DEF statics
  <2>3. CASE Loyal(t, p) => Trusted(p, r)
    <3>1. Fine(r) BY <1>2, <1>5, <2>3 DEF Returns
    <3>2. CASE last' = [last EXCEPT ![t] = {r}] /\ cache' = cache
      <4>1. last'[t] = {r} /\ cache'[t] = cache[t] BY <2>1, <3>2 DEF TypeStatics
      <4> QED BY <1>3, <3>1, <4>1
    <3>3. CASE Cache(t, r)
      <4>1. last'[t] = {r} /\ cache'[t] = CacheWith(t, r)
        BY <2>1, <3>3 DEF TypeStatics, Cache
      <4>2. Range(CacheWith(t, r)) \subseteq Range(cache[t]) \union {r}
        BY <2>1, CacheWithHolds
      <4> QED BY <1>3, <3>1, <4>1, <4>2
    <3> QED BY <1>5, <2>2, <3>2, <3>3 DEF Returns
  <2> QED BY <1>5, <2>2, <2>3 DEF Returns
<1>6. CASE ResolveCached(t) \/ Ensure(t) \/ DropMetadata(t) \/ MarkEmitted(t)
  BY <1>4, <1>5, <1>6, ReturnsTrusted DEF statics
<1>7. CASE Kept(t) \/ Begins(t) \/ SendMetadata(t) \/ BuildSpanContext(t) \/ Emit(t)
  BY <1>4, <1>7 DEF Kept, Begins, Begin, SendMetadata, BuildSpanContext, Emit, statics
<1> QED BY <1>6, <1>7, CallSteps

(* What may be relied on may be relied on later.                           *)
LEMMA ReliableGrows ==
  ASSUME TypeOK, CallOK, [Next]_vars, NEW p \in Pipelines, NEW r \in Ref, Reliable(p, r)
  PROVE  Reliable(p, r)'
<1>1. r.by \in Threads BY DEF Ref
<1>2. Loyal(r.by, p)' => Loyal(r.by, p) BY <1>1, LoyalBefore
<1> QED BY <1>2, TrustedGrows DEF Reliable

(* What a call holds after a reference is resolved.                        *)
LEMMA ResolvedLocals ==
  ASSUME TypeCall, TypeStored, NEW t \in Threads, NEW r \in Ref, Resolved(t, r)
  PROVE  /\ Range(got'[t]) \subseteq Range(got[t]) \union {r}
         /\ \A p \in Pipelines : stored'[p] \subseteq stored[p] \union {r}
         /\ context'[t] # {} => context'[t] = context[t] /\ pipe'[t] = pipe[t]
<1>1. got[t] \in Seq(Ref) BY DEF TypeCall
<1>2. CASE Continue(t, r)
  <2>1. /\ got'[t] = Append(got[t], r) /\ stored' = stored
        /\ context' = context /\ pipe' = pipe
    BY <1>2 DEF Continue, TypeCall
  <2>2. /\ Append(got[t], r) \in Seq(Ref) /\ Len(got[t]) \in Nat
        /\ Len(Append(got[t], r)) = Len(got[t]) + 1
        /\ \A i \in 1..Len(got[t]) : Append(got[t], r)[i] = got[t][i]
        /\ Append(got[t], r)[Len(got[t]) + 1] = r
    BY <1>1, AppendProperties
  <2>3. DOMAIN Append(got[t], r) = 1..Len(got[t]) + 1 /\ DOMAIN got[t] = 1..Len(got[t])
    BY <1>1, <2>2
  <2>4. Range(Append(got[t], r)) \subseteq Range(got[t]) \union {r}
    BY <2>2, <2>3 DEF Range
  <2> QED BY <2>1, <2>4
<1>3. CASE StoreSpan(t, r)
  <2>1. got'[t] = <<>> /\ context'[t] = {}
    BY <1>3 DEF StoreSpan, Return, TypeCall
  <2>2. Range(<<>>) = {} BY DEF Range
  <2>3. \A p \in Pipelines : stored'[p] \subseteq stored[p] \union {r}
    BY <1>3 DEF StoreSpan, TypeStored
  <2> QED BY <2>1, <2>2, <2>3
<1> QED BY <1>2, <1>3 DEF Resolved

LEMMA TailHolds ==
  ASSUME NEW S, NEW s \in Seq(S), s # <<>>
  PROVE  Range(Tail(s)) \subseteq Range(s)
<1>1. /\ DOMAIN Tail(s) = 1..Len(s) - 1 /\ DOMAIN s = 1..Len(s) /\ Len(s) \in Nat
      /\ \A i \in 1..Len(s) - 1 : Tail(s)[i] = s[i + 1]
  OBVIOUS
<1>2. \A i \in 1..Len(s) - 1 : i + 1 \in 1..Len(s) BY <1>1
<1> QED BY <1>1, <1>2 DEF Range

(* A call has resolved what it returned so far, and copied from the store  *)
(* what others have resolved.                                              *)
LEMMA LocalsStep ==
  ASSUME TypeOK, CallOK, [Next]_vars, Trust, NEW p \in Binary, NEW t \in Threads
  PROVE  GotTrusted(t, p)' /\ ContextTrusted(t, p)'
<1>0. p \in Pipelines /\ TypeCall /\ TypeStored BY BinaryPipelines, Types
<1>1. got[t] \in Seq(Ref) /\ context[t] \subseteq Ref /\ stored[p] \subseteq Ref
  BY <1>0 DEF TypeCall, TypeStored
<1>2. \A r \in Range(got[t]) : r \in Ref BY <1>1 DEF Range
<1>3. \A r \in Range(got[t]) : r.by = t /\ Reliable(p, r)'
  BY <1>0, <1>2, ReliableGrows DEF Trust, GotTrusted
<1>4. pipe[t] = p => \A r \in context[t] : Reliable(p, r)'
  BY <1>0, <1>1, ReliableGrows DEF Trust, ContextTrusted
<1>5. \A r \in stored[p] : Reliable(p, r)'
  BY <1>0, <1>1, ReliableGrows DEF Trust, StoredTrusted
<1>6. Range(<<>>) = {} BY DEF Range
<1> SUFFICES /\ \A r \in Range(got'[t]) : r.by = t /\ Reliable(p, r)'
             /\ pipe'[t] = p => \A r \in context'[t] : Reliable(p, r)'
  BY DEF GotTrusted, ContextTrusted
<1> HIDE DEF Reliable
<1>7. CASE \/ got'[t] = got[t] /\ context'[t] = context[t] /\ pipe'[t] = pipe[t]
           \/ got'[t] = <<>> /\ context'[t] = {}
  BY <1>3, <1>4, <1>6, <1>7
<1>8. ASSUME NEW r \in Ref, Returns(t, p, r)
      PROVE  /\ \A x \in Range(got'[t]) : x.by = t /\ Reliable(p, x)'
             /\ pipe'[t] = p => \A x \in context'[t] : Reliable(p, x)'
  <2>1. r.by = t /\ Reliable(p, r) BY <1>8 DEF Returns, Reliable
  <2>2. Reliable(p, r)' BY <1>0, <2>1, ReliableGrows
  <2>3. /\ Range(got'[t]) \subseteq Range(got[t]) \union {r}
        /\ context'[t] # {} => context'[t] = context[t] /\ pipe'[t] = pipe[t]
    BY <1>0, <1>8, ResolvedLocals DEF Returns
  <2> QED BY <1>3, <1>4, <2>1, <2>2, <2>3
<1>9. CASE ResolveCached(t) \/ Ensure(t) \/ DropMetadata(t) \/ MarkEmitted(t)
  <2>1. CASE Goto(t, "sendmeta") BY <1>7, <2>1 DEF Goto
  <2> QED BY <1>8, <1>9, <2>1, ReturnsTrusted
<1>10. CASE Kept(t) \/ SendMetadata(t) BY <1>7, <1>10 DEF Kept, SendMetadata, Goto
<1>11. CASE Emit(t) BY <1>0, <1>7, <1>11 DEF Emit, Return, TypeCall
<1>12. CASE Begins(t)
  <2>1. got'[t] = <<>> /\ context'[t] = context[t] /\ pc[t] = "idle"
    BY <1>0, <1>12 DEF Begins, Begin, TypeCall
  <2>2. context[t] = {} BY <2>1 DEF Trust, InCall
  <2> QED BY <1>7, <2>1, <2>2
<1>13. CASE BuildSpanContext(t)
  <2>1. PICK spans \in SpanContexts(t) : context' = [context EXCEPT ![t] = spans]
    BY <1>13 DEF BuildSpanContext
  <2>2. context'[t] = spans /\ got' = got /\ pipe' = pipe /\ got[t] # <<>>
    BY <1>0, <1>13, <2>1 DEF BuildSpanContext, TypeCall, CallOK
  <2>3. pipe[t] = p /\ p \notin Layers => spans \subseteq stored[p]
    BY DEF SpanContexts
  <2>4. p \in Layers /\ pipe[t] = p => spans \subseteq Range(got[t])
    <3>1. Range(Tail(got[t])) \subseteq Range(got[t]) BY <1>1, <2>2, TailHolds
    <3> QED BY <3>1 DEF SpanContexts
  <2> QED BY <1>3, <1>5, <2>2, <2>3, <2>4
<1> QED BY <1>9, <1>10, <1>11, <1>12, <1>13, CallSteps

(* The ids of the spans in the store are those their creators resolved.    *)
LEMMA StoredStep ==
  ASSUME TypeOK, CallOK, [Next]_vars, Trust, NEW p \in Binary
  PROVE  StoredTrusted(p)'
<1>0. p \in Pipelines /\ TypeCall /\ TypeStored BY BinaryPipelines, Types
<1>1. \A r \in stored[p] : Reliable(p, r)'
  <2>1. stored[p] \subseteq Ref BY <1>0 DEF TypeStored
  <2> QED BY <1>0, <2>1, ReliableGrows DEF Trust, StoredTrusted
<1> SUFFICES \A r \in stored'[p] : Reliable(p, r)'
  BY DEF StoredTrusted
<1> HIDE DEF Reliable
<1>2. CASE stored'[p] \subseteq stored[p] BY <1>1, <1>2
<1>3. ASSUME NEW t \in Threads,
             ResolveCached(t) \/ Ensure(t) \/ DropMetadata(t) \/ MarkEmitted(t)
      PROVE  \A r \in stored'[p] : Reliable(p, r)'
  <2>1. CASE stored' = stored BY <1>2, <2>1
  <2>2. ASSUME NEW r \in Ref, Returns(t, p, r) PROVE \A x \in stored'[p] : Reliable(p, x)'
    <3>1. Reliable(p, r) BY <2>2 DEF Returns, Reliable
    <3>2. Reliable(p, r)' BY <1>0, <3>1, ReliableGrows
    <3>3. stored'[p] \subseteq stored[p] \union {r}
      BY <1>0, <2>2, ResolvedLocals DEF Returns
    <3> QED BY <1>1, <3>2, <3>3
  <2> QED BY <1>3, <2>1, <2>2, ReturnsTrusted
<1>4. ASSUME NEW t \in Threads,
             Begins(t) \/ SendMetadata(t) \/ BuildSpanContext(t) \/ Emit(t)
      PROVE  stored' = stored
  BY <1>4 DEF Begins, Begin, SendMetadata, BuildSpanContext, Emit
<1>5. ASSUME NEW q \in Pipelines, NEW r, CloseSpan(q, r) PROVE stored'[p] \subseteq stored[p]
  BY <1>0, <1>5 DEF CloseSpan, TypeStored
<1>6. ASSUME NEW q \in Pipelines,
             Receive(q) \/ \E c \in Callsites : RegisterCallsite(q, c)
      PROVE  stored' = stored
  BY <1>6 DEF Receive, RegisterCallsite
<1>7. CASE UNCHANGED vars BY <1>2, <1>7 DEF vars
<1> QED BY <1>2, <1>3, <1>4, <1>5, <1>6, <1>7, Steps

(* The references an event carries are those the call holds.               *)
LEMMA EmitBacked ==
  ASSUME TypeOK, CallOK, Trust, NEW p \in Binary, NEW t \in Threads, pipe[t] = p, Emit(t)
  PROVE  \A r \in {Head(got[t])} \union context[t] : r \in Ref /\ Reliable(p, r)
<1>1. got[t] \in Seq(Ref) /\ got[t] # <<>> /\ context[t] \subseteq Ref
  BY Types DEF Emit, CallOK, TypeCall
<1>2. Head(got[t]) = got[t][1] /\ 1 \in DOMAIN got[t] /\ Head(got[t]) \in Ref BY <1>1
<1>3. Head(got[t]) \in Range(got[t]) BY <1>2 DEF Range
<1> QED BY <1>1, <1>2, <1>3 DEF Trust, GotTrusted, ContextTrusted

LEMMA BackedStep ==
  ASSUME TypeOK, CallOK, [Next]_vars, Trust, NEW p \in Binary, NEW i \in Events(p)'
  PROVE  Backed(p, i)'
<1> DEFINE Sent(r) == \E j \in 1..i - 1 : stream'[p][j].kind = "meta"
                                         /\ stream'[p][j].site = r.site
<1>1. /\ p \in Pipelines /\ Len(stream[p]) \in Nat /\ i \in 1..Len(stream'[p])
      /\ stream'[p][i].kind = "event"
  BY BinaryPipelines, StreamGrows DEF Events
<1>2. CASE i \in 1..Len(stream[p])
  <2> DEFINE f == stream[p][i]
  <2>1. stream'[p][i] = f BY <1>1, <1>2, StreamGrows
  <2>2. i \in Events(p) BY <1>1, <1>2, <2>1 DEF Events
  <2>3. \A j \in 1..i - 1 : stream'[p][j] = stream[p][j]
    <3>1. \A j \in 1..i - 1 : j \in 1..Len(stream[p]) BY <1>1, <1>2
    <3> QED BY <1>1, <3>1, StreamGrows
  <2>4. f.own \in Ref /\ f.spans \subseteq Ref
    <3>1. f \in MetaFrame \union EventFrame BY <1>1, <1>2, Types DEF TypeOutput
    <3>2. f.kind = "event" BY <1>1, <2>1
    <3> QED BY <3>1, <3>2 DEF MetaFrame, EventFrame
  <2>5. Backed(p, i) BY <2>2 DEF Trust
  <2> SUFFICES ASSUME NEW r \in {f.own} \union f.spans, Loyal(r.by, p)', ~r.refused
               PROVE  r.site \in Registered(p)' /\ r.id = idOf'[p][r.site] /\ Sent(r)
    BY <2>1 DEF Backed, Loyal
  <2>6. r.by \in Threads BY <2>4 DEF Ref
  <2>7. Loyal(r.by, p) BY <2>6, LoyalBefore
  <2>8. /\ r.site \in Registered(p) /\ r.id = idOf[p][r.site]
        /\ \E j \in 1..i - 1 : stream[p][j].kind = "meta" /\ stream[p][j].site = r.site
    BY <2>5, <2>7 DEF Backed
  <2> QED BY <1>1, <2>3, <2>8, RegistryGrows
<1>3. ASSUME NEW t \in Threads, NEW frame \in MetaFrame \union EventFrame,
             Accept(pipe[t], frame), i \notin 1..Len(stream[p])
      PROVE  p = pipe[t] /\ stream'[p][i] = frame /\ i = Len(stream[p]) + 1
  <2>1. pipe[t] \in Pipelines BY Types DEF TypeCall
  <2> QED BY <1>1, <1>3, <2>1, AcceptAppends
<1>4. ASSUME NEW t \in Threads, SendMetadata(t), Accept(pipe[t], MetaOf(t)),
             i \notin 1..Len(stream[p])
      PROVE  FALSE
  <2>1. stream'[p][i] = MetaOf(t) BY <1>3, <1>4, FrameOf
  <2>2. MetaOf(t).kind = "meta" BY DEF MetaOf
  <2> QED BY <1>1, <2>1, <2>2
<1>5. ASSUME NEW t \in Threads, Emit(t), Accept(pipe[t], EventOf(t)),
             i \notin 1..Len(stream[p])
      PROVE  Backed(p, i)'
  <2>1. p = pipe[t] /\ stream'[p][i] = EventOf(t) /\ i = Len(stream[p]) + 1
    BY <1>3, <1>5, FrameOf
  <2>2. EventOf(t).own = Head(got[t]) /\ EventOf(t).spans = context[t] BY DEF EventOf
  <2> SUFFICES ASSUME NEW r \in {Head(got[t])} \union context[t], Loyal(r.by, p)', ~r.refused
               PROVE  r.site \in Registered(p)' /\ r.id = idOf'[p][r.site] /\ Sent(r)
    BY <2>1, <2>2 DEF Backed, Loyal
  <2>3. r \in Ref /\ Reliable(p, r) BY <1>5, <2>1, EmitBacked
  <2>4. r.by \in Threads BY <2>3 DEF Ref
  <2>5. Trusted(p, r) BY <2>3, <2>4, LoyalBefore DEF Reliable
  <2>6. 1..i - 1 = 1..Len(stream[p]) BY <1>1, <2>1
  <2>7. Sent(r) BY <1>1, <2>5, <2>6, StreamGrows DEF Trusted, Accepted
  <2> QED BY <1>1, <2>5, <2>7, RegistryGrows DEF Trusted
<1>6. CASE stream' = stream BY <1>1, <1>2, <1>6
<1> QED BY <1>2, <1>4, <1>5, <1>6, StreamSteps

LEMMA TrustStep ==
  ASSUME TypeOK, CallOK, [Next]_vars, Trust
  PROVE  Trust'
<1>1. \A t \in Threads : InCall(t)' BY InCallStep DEF Trust
<1>2. ASSUME NEW p \in Binary
      PROVE  /\ Announced(p)' /\ Marked(p)'
             /\ \A t \in Threads :
                  CachesTrusted(t, p)' /\ GotTrusted(t, p)' /\ ContextTrusted(t, p)'
             /\ StoredTrusted(p)'
             /\ \A i \in Events(p)' : Backed(p, i)'
  <2>1. p \in Pipelines BY BinaryPipelines
  <2>2. Announced(p)' /\ Marked(p)' BY <2>1, AnnouncedStep, MarkedStep DEF Trust
  <2> QED BY <2>2, CachesStep, LocalsStep, StoredStep, BackedStep
<1> QED BY <1>1, <1>2 DEF Trust

(* What lets metadata_id skip the metadata frame (an entry marked emitted, *)
(* an id in a thread-local cache) is never ahead of the channel.           *)
THEOREM CachesNeverAhead == Spec => []TrustedMeansAccepted
<1> DEFINE Inv == TypeOK /\ CallOK /\ Trust
<1>1. Init => Inv BY TypeInit, TrustInit
<1>2. Inv /\ [Next]_vars => Inv' BY TypeStepped, TrustStep
<1>3. Inv => TrustedMeansAccepted
  BY DEF Trust, Marked, CachesTrusted, Trusted, TrustedMeansAccepted
<1> QED BY <1>1, <1>2, <1>3, PTL DEF Spec

-----------------------------------------------------------------------------
(* What the decoder makes of an event.                                     *)

LEMMA LastOf ==
  ASSUME NEW n \in Nat, NEW A \in SUBSET (1..n), A # {}
  PROVE  \E m \in A : \A k \in A : k <= m
<1> DEFINE after == {n - k : k \in A}
           less  == {x \in Nat \X Nat : x[1] < x[2]}
<1>1. after \subseteq Nat /\ after # {}
  <2>1. \A k \in A : n - k \in Nat /\ n - k \in after OBVIOUS
  <2> QED BY <2>1
<1>2. IsWellFoundedOn(less, Nat)
  <2>1. less = OpToRel(<, Nat) BY DEF OpToRel
  <2> HIDE DEF less
  <2> QED BY <2>1, NatLessThanWellFounded
<1>3. \A x, y \in after : <<x, y>> \notin less => ~(x < y)
  <2> HIDE DEF after
  <2> QED BY <1>1
<1>4. PICK b \in after : \A x \in after : ~(x < b)
  <2> HIDE DEF after, less
  <2> QED BY <1>1, <1>2, <1>3, WFMin
<1>5. PICK m \in A : b = n - m OBVIOUS
<1>6. ASSUME NEW k \in A PROVE k <= m
  <2>1. n - k \in after OBVIOUS
  <2> HIDE DEF after
  <2> QED BY <1>1, <1>4, <1>5, <2>1
<1> QED BY <1>6

LEMMA BackedDecodes ==
  ASSUME NEW p \in Pipelines, NEW i \in 1..Len(stream[p]), TypeOK, Announced(p), Numbered(p),
         NEW r, r.site \in Registered(p), r.id = idOf[p][r.site],
         NEW j \in 1..i - 1, stream[p][j].kind = "meta", stream[p][j].site = r.site
  PROVE  DecodesTo(p, i, r) \/ MetadataLost(p, r.site)
<1>1. Len(stream[p]) \in Nat BY Types DEF TypeOutput
<1>2. j \in 1..Len(stream[p]) BY <1>1
<1>3. CASE j \in lost[p] BY <1>2, <1>3 DEF MetadataLost
<1>4. CASE j \notin lost[p]
  <2> DEFINE A == {k \in (1..i - 1) \ lost[p] : Announces(p, k, r)}
  <2>1. j \in A BY <1>2, <1>4 DEF Announced, Announces
  <2>2. PICK m \in A : \A k \in A : k <= m
    <3>1. i - 1 \in Nat /\ A \in SUBSET (1..i - 1) BY <1>1
    <3> HIDE DEF A
    <3> QED BY <2>1, <3>1, LastOf
  <2>3. m \in (1..i - 1) \ lost[p] /\ m \in 1..Len(stream[p]) /\ Announces(p, m, r)
    BY <1>1
  <2>4. stream[p][m].site \in Registered(p) /\ idOf[p][stream[p][m].site] = idOf[p][r.site]
    BY <2>3 DEF Announced, Announces
  <2>5. stream[p][m].site = r.site BY <2>4 DEF Numbered
  <2>6. \A k \in (m + 1..i - 1) \ lost[p] : ~Announces(p, k, r)
    <3>1. \A k \in (m + 1..i - 1) \ lost[p] : k \in (1..i - 1) \ lost[p] /\ ~(k <= m)
      BY <1>1, <2>3
    <3> QED BY <2>2, <3>1
  <2> QED BY <2>3, <2>5, <2>6 DEF DecodesTo
<1> QED BY <1>3, <1>4

(* Every metadata id of an accepted event decodes to the callsite meant,   *)
(* whatever threads race and whichever of them resolved the id (a span's   *)
(* may have been stored by another), unless the metadata frame of the call *)
(* that resolved it was refused, a metadata frame of the callsite was lost *)
(* to a write error, or the thread that resolved it also logs through      *)
(* another pipeline.                                                       *)
THEOREM EventsAlwaysDecode == Spec => []EventsDecode
<1> DEFINE Inv == TypeOK /\ CallOK /\ Trust /\ \A p \in Pipelines : Numbered(p)
<1>1. Init => Inv BY TypeInit, TrustInit, NumberedInit
<1>2. Inv /\ [Next]_vars => Inv' BY TypeStepped, TrustStep, NumberedStep
<1>3. Inv => EventsDecode
  <2> SUFFICES ASSUME Inv, NEW p \in Binary, NEW i \in Events(p),
                      NEW r \in {stream[p][i].own} \union stream[p][i].spans,
                      Loyal(r.by, p), ~r.refused
               PROVE  DecodesTo(p, i, r) \/ MetadataLost(p, r.site)
    BY DEF EventsDecode
  <2>1. p \in Pipelines /\ i \in 1..Len(stream[p]) BY BinaryPipelines DEF Events
  <2>2. Announced(p) /\ Backed(p, i) /\ Numbered(p) BY <2>1 DEF Trust
  <2>3. /\ r.site \in Registered(p) /\ r.id = idOf[p][r.site]
        /\ \E j \in 1..i - 1 : stream[p][j].kind = "meta" /\ stream[p][j].site = r.site
    BY <2>2 DEF Backed
  <2> QED BY <2>1, <2>2, <2>3, BackedDecodes
<1> QED BY <1>1, <1>2, <1>3, PTL DEF Spec

-----------------------------------------------------------------------------
(* A thread sends the metadata of a callsite at most once.                 *)

(* Metadata sent by t is marked, or t is about to mark it.                 *)
SentThenMarked(p) ==
  \A i \in 1..Len(stream[p]) : stream[p][i].kind = "meta" =>
    \/ stream[p][i].site \in emitted[p]
    \/ LET t == stream[p][i].by
       IN pc[t] = "mark" /\ pipe[t] = p /\ Head(todo[t]) = stream[p][i].site

(* A thread about to send metadata has not sent it before.                 *)
NotSentYet(t) ==
  pc[t] = "sendmeta" =>
    \A i \in 1..Len(stream[pipe[t]]) :
      ( /\ stream[pipe[t]][i].kind = "meta"
        /\ stream[pipe[t]][i].site = Head(todo[t]) ) => stream[pipe[t]][i].by # t

(* The metadata frame of p that a step adds, if it adds one.               *)
LEMMA NewMeta ==
  ASSUME TypeOK, CallOK, [Next]_vars, NEW p \in Pipelines, NEW i \in 1..Len(stream'[p]),
         stream'[p][i].kind = "meta", i \notin 1..Len(stream[p])
  PROVE  \E t \in Threads :
           /\ SendMetadata(t) /\ pipe[t] = p /\ i = Len(stream[p]) + 1
           /\ stream'[p][i].by = t /\ stream'[p][i].site = Head(todo[t])
<1>1. Len(stream[p]) \in Nat BY StreamGrows
<1>2. ASSUME NEW t \in Threads, NEW frame \in MetaFrame \union EventFrame,
             Accept(pipe[t], frame)
      PROVE  p = pipe[t] /\ stream'[p][i] = frame /\ i = Len(stream[p]) + 1
  <2>1. pipe[t] \in Pipelines BY Types DEF TypeCall
  <2> QED BY <1>1, <1>2, <2>1, AcceptAppends
<1>3. ASSUME NEW t \in Threads, Emit(t), Accept(pipe[t], EventOf(t)) PROVE FALSE
  <2>1. stream'[p][i] = EventOf(t) BY <1>2, <1>3, FrameOf
  <2> QED BY <2>1 DEF EventOf
<1>4. PICK t \in Threads : SendMetadata(t) /\ Accept(pipe[t], MetaOf(t))
  BY <1>3, StreamSteps
<1>5. p = pipe[t] /\ stream'[p][i] = MetaOf(t) /\ i = Len(stream[p]) + 1
  BY <1>2, <1>4, FrameOf
<1>6. MetaOf(t).by = t /\ MetaOf(t).site = Head(todo[t]) BY DEF MetaOf, Current
<1> QED BY <1>4, <1>5, <1>6

LEMMA FrameBy ==
  ASSUME TypeOK, NEW p \in Pipelines, NEW i \in 1..Len(stream[p])
  PROVE  stream[p][i].by \in Threads
<1>1. stream[p][i] \in MetaFrame \union EventFrame BY Types DEF TypeOutput
<1> QED BY <1>1 DEF MetaFrame, EventFrame

LEMMA SentThenMarkedStep ==
  ASSUME TypeOK, CallOK, [Next]_vars, NEW p \in Pipelines, SentThenMarked(p)
  PROVE  SentThenMarked(p)'
<1> DEFINE Done(t, c) ==
      c \in emitted'[p] \/ (pc'[t] = "mark" /\ pipe'[t] = p /\ Head(todo'[t]) = c)
<1> SUFFICES ASSUME NEW i \in 1..Len(stream'[p]), stream'[p][i].kind = "meta"
             PROVE  Done(stream'[p][i].by, stream'[p][i].site)
  BY DEF SentThenMarked
<1>0. TypeCall /\ TypeRegistry BY Types
<1>1. ASSUME NEW t \in Threads, NEW c, pc[t] = "mark", pipe[t] = p, Head(todo[t]) = c
      PROVE  Done(t, c)
  <2>1. CASE Kept(t) BY <1>1, <2>1 DEF Kept
  <2>2. CASE MarkEmitted(t) BY <1>0, <1>1, <2>2 DEF MarkEmitted, TypeRegistry
  <2>3. CASE \/ Begins(t) \/ ResolveCached(t) \/ Ensure(t) \/ SendMetadata(t)
             \/ DropMetadata(t) \/ BuildSpanContext(t) \/ Emit(t)
    BY <1>1, <2>3 DEF Begins, Begin, ResolveCached, Ensure, SendMetadata, DropMetadata,
       BuildSpanContext, Emit
  <2> QED BY <2>1, <2>2, <2>3, CallSteps
<1>2. CASE i \in 1..Len(stream[p])
  <2>1. stream'[p][i] = stream[p][i] BY <1>2, StreamGrows
  <2>2. stream[p][i].by \in Threads BY <1>2, FrameBy
  <2>3. CASE stream[p][i].site \in emitted[p] BY <2>1, <2>3, RegistryGrows
  <2>4. CASE stream[p][i].site \notin emitted[p]
    BY <1>1, <1>2, <2>1, <2>2, <2>4 DEF SentThenMarked
  <2> QED BY <2>3, <2>4
<1>3. CASE i \notin 1..Len(stream[p])
  <2>1. PICK t \in Threads : /\ SendMetadata(t) /\ pipe[t] = p
                             /\ stream'[p][i].by = t /\ stream'[p][i].site = Head(todo[t])
    BY <1>3, NewMeta
  <2>2. pc'[t] = "mark" /\ pipe' = pipe /\ todo' = todo
    BY <1>0, <2>1 DEF SendMetadata, Goto, TypeCall
  <2> QED BY <2>1, <2>2
<1> QED BY <1>2, <1>3

LEMMA NotSentYetStep ==
  ASSUME TypeOK, CallOK, [Next]_vars, \A p \in Pipelines : SentThenMarked(p),
         NEW t \in Threads, NotSentYet(t)
  PROVE  NotSentYet(t)'
<1> SUFFICES ASSUME pc'[t] = "sendmeta", NEW i \in 1..Len(stream'[pipe'[t]]),
                    stream'[pipe'[t]][i].kind = "meta",
                    stream'[pipe'[t]][i].site = Head(todo'[t]),
                    stream'[pipe'[t]][i].by = t
             PROVE  FALSE
  BY DEF NotSentYet
<1>0. TypeCall BY Types
<1> DEFINE p == pipe[t]
           c == Head(todo[t])
<1>1. p \in Pipelines BY <1>0 DEF TypeCall
<1>2. /\ pc[t] = "sendmeta" \/ (pc[t] = "resolve" /\ c \notin emitted[p])
      /\ pipe'[t] = p /\ todo'[t] = todo[t] /\ ~SendMetadata(t)
  <2>1. CASE Kept(t)
    <3>1. ~SendMetadata(t) BY <1>0, <2>1 DEF Kept, SendMetadata, Goto, TypeCall
    <3> QED BY <2>1, <3>1 DEF Kept
  <2>2. ASSUME NEW r, Resolved(t, r) PROVE FALSE
    BY <1>0, <2>2 DEF Resolved, Continue, StoreSpan, Return, TypeCall
  <2>3. CASE Ensure(t)
    <3>1. MetadataDue(p, c) /\ Goto(t, "sendmeta") BY <2>2, <2>3 DEF Ensure
    <3> QED BY <2>3, <3>1 DEF Ensure, MetadataDue, Goto, SendMetadata
  <2>4. CASE ResolveCached(t) \/ DropMetadata(t) \/ MarkEmitted(t)
    BY <2>2, <2>4 DEF ResolveCached, DropMetadata, MarkEmitted
  <2>5. CASE Begins(t) \/ SendMetadata(t) \/ Emit(t)
    BY <1>0, <2>5 DEF Begins, Begin, SendMetadata, Goto, Emit, Return, TypeCall
  <2>6. CASE BuildSpanContext(t) BY <1>0, <2>6 DEF BuildSpanContext, TypeCall
  <2> QED BY <2>1, <2>3, <2>4, <2>5, <2>6, CallSteps
<1> HIDE DEF p, c
<1>3. i \in 1..Len(stream'[p]) /\ stream'[p][i].kind = "meta" /\ stream'[p][i].by = t
  BY <1>2
<1>4. stream'[p][i].site = c BY <1>2 DEF c
<1>5. i \in 1..Len(stream[p])
  <2> SUFFICES ASSUME i \notin 1..Len(stream[p]) PROVE FALSE
    OBVIOUS
  <2>1. \E u \in Threads : SendMetadata(u) /\ stream'[p][i].by = u
    BY <1>1, <1>3, NewMeta
  <2> QED BY <1>2, <1>3, <2>1
<1>6. stream[p][i].kind = "meta" /\ stream[p][i].by = t /\ stream[p][i].site = c
  BY <1>1, <1>3, <1>4, <1>5, StreamGrows
<1>7. CASE pc[t] = "sendmeta" BY <1>5, <1>6, <1>7 DEF NotSentYet, p, c
<1>8. CASE pc[t] = "resolve" /\ c \notin emitted[p]
  BY <1>1, <1>5, <1>6, <1>8 DEF SentThenMarked
<1> QED BY <1>2, <1>7, <1>8

LEMMA OnceStep ==
  ASSUME TypeOK, CallOK, [Next]_vars, \A t \in Threads : NotSentYet(t),
         MetadataOncePerThread
  PROVE  MetadataOncePerThread'
<1> SUFFICES ASSUME NEW p \in Pipelines, NEW i \in 1..Len(stream'[p]),
                    NEW j \in 1..Len(stream'[p]),
                    stream'[p][i].kind = "meta", stream'[p][j].kind = "meta",
                    stream'[p][i].site = stream'[p][j].site,
                    stream'[p][i].by = stream'[p][j].by
             PROVE  i = j
  BY DEF MetadataOncePerThread
<1> DEFINE Old(k) == k \in 1..Len(stream[p])
<1>1. \A k : Old(k) => stream'[p][k] = stream[p][k] BY StreamGrows
<1>2. ASSUME NEW k \in 1..Len(stream'[p]), NEW m, ~Old(k), Old(m),
             stream'[p][k].kind = "meta", stream'[p][m].kind = "meta",
             stream'[p][m].site = stream'[p][k].site,
             stream'[p][m].by = stream'[p][k].by
      PROVE  FALSE
  <2>1. PICK t \in Threads :
          /\ SendMetadata(t) /\ pipe[t] = p
          /\ stream'[p][k].by = t /\ stream'[p][k].site = Head(todo[t])
    BY <1>2, NewMeta
  <2>2. /\ stream[p][m].kind = "meta" /\ stream[p][m].by = t
        /\ stream[p][m].site = Head(todo[t])
    BY <1>1, <1>2, <2>1
  <2> QED BY <1>2, <2>1, <2>2 DEF SendMetadata, NotSentYet
<1>3. CASE Old(i) /\ Old(j) BY <1>1, <1>3 DEF MetadataOncePerThread
<1>4. CASE ~Old(i) /\ ~Old(j)
  <2>1. i = Len(stream[p]) + 1 /\ j = Len(stream[p]) + 1 BY <1>4, NewMeta
  <2> QED BY <2>1
<1>5. CASE ~Old(i) /\ Old(j) BY <1>2, <1>5
<1>6. CASE Old(i) /\ ~Old(j) BY <1>2, <1>6
<1> QED BY <1>3, <1>4, <1>5, <1>6

LEMMA OnceInit ==
  Init => /\ \A p \in Pipelines : SentThenMarked(p)
          /\ \A t \in Threads : NotSentYet(t)
          /\ MetadataOncePerThread
<1> SUFFICES ASSUME Init PROVE /\ \A p \in Pipelines : SentThenMarked(p)
                               /\ \A t \in Threads : NotSentYet(t)
                               /\ MetadataOncePerThread
  OBVIOUS
<1>1. ASSUME NEW p \in Pipelines, NEW i \in 1..Len(stream[p]) PROVE FALSE
  <2>1. Len(stream[p]) = 0 BY DEF Init
  <2> QED BY <2>1
<1> QED BY <1>1 DEF Init, SentThenMarked, NotSentYet, MetadataOncePerThread

(* Threads may race to announce a callsite, but none announces it twice to *)
(* a pipeline, even when the callsite was evicted from its cache.          *)
THEOREM AnnouncedOncePerThread == Spec => []MetadataOncePerThread
<1> DEFINE Inv == /\ TypeOK /\ CallOK
                  /\ \A p \in Pipelines : SentThenMarked(p)
                  /\ \A t \in Threads : NotSentYet(t)
                  /\ MetadataOncePerThread
<1>1. Init => Inv BY TypeInit, OnceInit
<1>2. Inv /\ [Next]_vars => Inv'
  BY TypeStepped, SentThenMarkedStep, NotSentYetStep, OnceStep
<1>3. Inv => MetadataOncePerThread OBVIOUS
<1> QED BY <1>1, <1>2, <1>3, PTL DEF Spec

=============================================================================

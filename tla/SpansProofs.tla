---------------------------- MODULE SpansProofs -----------------------------
(***************************************************************************)
(* Proofs about the spans, for every number of threads and subscribers,    *)
(* every configuration and every bound: types, contexts and parents; then  *)
(* what keeps a span in the store, how the stack of a thread goes with its *)
(* guards, which span an event names, and what its span list leaves out.   *)
(***************************************************************************)
EXTENDS SpanAncestry, FiniteSetTheorems, SequenceTheorems, TLAPS

-----------------------------------------------------------------------------
(* What exit makes of a stack.                                             *)

LEMMA LargestIndex ==
  ASSUME NEW n \in Nat, NEW I \in SUBSET (1..n), I # {}
  PROVE  Max(I) \in I /\ \A j \in I : Max(I) >= j
<1> DEFINE below == {n - i : i \in I}
           less  == {p \in Nat \X Nat : p[1] < p[2]}
<1>1. below \subseteq Nat
  <2>1. \A i \in I : n - i \in Nat OBVIOUS
  <2> QED BY <2>1
<1>2. below # {}
  <2>1. PICK i \in I : TRUE OBVIOUS
  <2>2. n - i \in below OBVIOUS
  <2> QED BY <2>2
<1>3. \A k \in below : \A m \in below : <<k, m>> \notin less => k >= m
  <2> HIDE DEF below
  <2> QED BY <1>1
<1>4. IsWellFoundedOn(less, Nat)
  <2>1. less = OpToRel(<, Nat) BY DEF OpToRel
  <2> HIDE DEF less
  <2> QED BY <2>1, NatLessThanWellFounded
<1>5. PICK m \in below : \A k \in below : k >= m
  <2> HIDE DEF below, less
  <2> QED BY <1>1, <1>2, <1>3, <1>4, WFMin
<1>6. PICK i \in I : m = n - i OBVIOUS
<1>7. \A j \in I : i >= j
  <2> TAKE j \in I
  <2>1. n - j \in below OBVIOUS
  <2> HIDE DEF below
  <2> QED BY <1>5, <1>6, <2>1
<1> HIDE DEF below
<1> QED BY <1>7 DEF Max

LEMMA PoppedSeq ==
  ASSUME NEW S, NEW st \in Seq(S), NEW id
  PROVE  Popped(st, id) \in Seq(S)
<1> DEFINE I == {i \in 1..Len(st) : st[i] = id}
           last == SelectLastInSeq(st, LAMBDA candidate : candidate = id)
<1>1. last = IF I # {} THEN Max(I) ELSE 0 BY DEF SelectLastInSeq
<1>2. last \in 0..Len(st)
  <2>1. CASE I # {}
    <3>1. I \in SUBSET (1..Len(st)) /\ Len(st) \in Nat OBVIOUS
    <3> HIDE DEF I
    <3>2. Max(I) \in I BY <2>1, <3>1, LargestIndex
    <3> QED BY <1>1, <2>1, <3>1, <3>2
  <2>2. CASE I = {} BY <1>1, <2>2
  <2> QED BY <2>1, <2>2
<1>3. Popped(st, id) = IF last = 0 THEN st ELSE RemoveAt(st, last)
  BY DEF Popped
<1> HIDE DEF last
<1>4. last # 0 => RemoveAt(st, last) \in Seq(S) BY <1>2 DEF RemoveAt
<1> QED BY <1>3, <1>4

-----------------------------------------------------------------------------
(* Type correctness.                                                       *)

LEMMA TypeInit == Init => TypeOK
<1> SUFFICES ASSUME Init PROVE TypeOK
  OBVIOUS
<1>1. NoSubscriber \in Subscribers BY SpansAssumption DEF NoSubscriber
<1>2. \A s \in Subscribers : Stored(s) \subseteq Id /\ entries[s] \in [Stored(s) -> SpanData]
  <2> TAKE s \in Subscribers
  <2>1. entries[s] = <<>> BY DEF Init
  <2>2. DOMAIN entries[s] = {} /\ entries[s] = [i \in {} |-> 0] BY <2>1
  <2> QED BY <2>2 DEF Stored
<1>3. MaxSpans \in Nat BY SpansAssumption
<1> QED BY <1>1, <1>2, <1>3 DEF Init, TypeOK, PcOfCall, Span

(* The id at the top of a stack.                                           *)
LEMMA CurrentId ==
  ASSUME TypeOK, NEW t \in Threads
  PROVE  Current(t) \in Id \union {0}
<1>1. stack[t] \in Seq(Id) BY DEF TypeOK
<1>2. stack[t] # <<>> => stack[t][Len(stack[t])] \in Id BY <1>1
<1> QED BY <1>2 DEF Current, Last

LEMMA TypeReturn ==
  ASSUME TypeOK, NEW t \in Threads, Return(t)
  PROVE  /\ pc' \in [Threads -> PcOfCall] /\ sub' \in [Threads -> Subscribers]
         /\ made' \in [Threads -> Id \union {0}] /\ cursor' \in [Threads -> Id \union {0}]
         /\ contextual' \in [Threads -> BOOLEAN]
         /\ chain' \in [Threads -> Seq([id : Id, fields : Nat])]
         /\ events' \in Nat /\ logging' \in Nat
<1>1. NoSubscriber \in Subscribers BY SpansAssumption DEF NoSubscriber
<1>2. chain' \in [Threads -> Seq([id : Id, fields : Nat])]
  <2> DEFINE Chains == Seq([id : Id, fields : Nat])
  <2>1. chain \in [Threads -> Chains] BY DEF TypeOK
  <2>2. <<>> \in Chains OBVIOUS
  <2>3. chain' = [chain EXCEPT ![t] = <<>>] BY DEF Return
  <2> HIDE DEF Chains
  <2>4. chain' \in [Threads -> Chains] BY <2>1, <2>2, <2>3
  <2> QED BY <2>4 DEF Chains
<1>3. contextual' \in [Threads -> BOOLEAN] BY DEF TypeOK, Return
<1>4. pc' \in [Threads -> PcOfCall] BY DEF TypeOK, Return, PcOfCall
<1> QED BY <1>1, <1>2, <1>3, <1>4 DEF TypeOK, Return

(* The store after a change to one of its entries.                         *)
TypeEntries ==
  /\ DOMAIN entries = Subscribers
  /\ \A s \in Subscribers :
       Stored(s) \subseteq Id /\ entries[s] \in [Stored(s) -> SpanData]

LEMMA EntriesUpdate ==
  ASSUME TypeEntries, NEW s \in Subscribers, NEW update,
         DOMAIN update \subseteq Id, update \in [DOMAIN update -> SpanData],
         entries' = [entries EXCEPT ![s] = update]
  PROVE  TypeEntries'
BY DEF TypeEntries, Stored

LEMMA ReferencedType ==
  ASSUME TypeEntries, NEW s \in Subscribers, NEW id, entries' = Referenced(s, id)
  PROVE  TypeEntries'
<1>1. CASE id \in Stored(s)
  <2> DEFINE update == [entries[s] EXCEPT ![id].refs = @ + 1]
  <2>1. entries' = [entries EXCEPT ![s] = update] BY <1>1 DEF Referenced
  <2>2. /\ Stored(s) \subseteq Id /\ entries[s] \in [Stored(s) -> SpanData]
    BY DEF TypeEntries
  <2>3. update \in [Stored(s) -> SpanData]
    <3>1. entries[s][id] \in SpanData BY <1>1, <2>2
    <3>2. [entries[s][id] EXCEPT !.refs = @ + 1] \in SpanData BY <3>1 DEF SpanData
    <3> QED BY <1>1, <2>2, <3>2
  <2>4. DOMAIN update = Stored(s) BY <2>3
  <2> HIDE DEF update
  <2> QED BY <2>1, <2>2, <2>3, <2>4, EntriesUpdate
<1>2. CASE id \notin Stored(s) BY <1>2 DEF Referenced, TypeEntries, Stored
<1> QED BY <1>1, <1>2

LEMMA ClosedType ==
  ASSUME TypeEntries, NEW s \in Subscribers, NEW id, entries' = Closed(s, id)
  PROVE  TypeEntries'
<1>1. /\ Stored(s) \subseteq Id /\ entries[s] \in [Stored(s) -> SpanData]
  BY DEF TypeEntries
<1>2. CASE id \in Stored(s) /\ entries[s][id].refs > 1
  <2> DEFINE update == [entries[s] EXCEPT ![id].refs = @ - 1]
  <2>1. entries' = [entries EXCEPT ![s] = update] BY <1>2 DEF Closed
  <2>2. update \in [Stored(s) -> SpanData] BY <1>1, <1>2 DEF SpanData
  <2>3. DOMAIN update = Stored(s) BY <2>2
  <2> HIDE DEF update
  <2> QED BY <1>1, <2>1, <2>2, <2>3, EntriesUpdate
<1>3. CASE ~ (id \in Stored(s) /\ entries[s][id].refs > 1)
  <2> DEFINE update == Restrict(entries[s], Stored(s) \ {id})
  <2>1. entries' = [entries EXCEPT ![s] = update] BY <1>3 DEF Closed
  <2>2. update \in [Stored(s) \ {id} -> SpanData] BY <1>1 DEF Restrict
  <2>3. DOMAIN update = Stored(s) \ {id} BY <2>2
  <2> HIDE DEF update
  <2> QED BY <1>1, <2>1, <2>2, <2>3, EntriesUpdate
<1> QED BY <1>2, <1>3

(* A span in the making has an id.                                         *)
Making == \A t \in Threads : pc[t] = "new" => made[t] # 0

LEMMA TypeStep == TypeOK /\ Making /\ [Next]_vars => TypeOK'
<1> SUFFICES ASSUME TypeOK, Making, [Next]_vars PROVE TypeOK'
  OBVIOUS
<1>1. MaxSpans \in Nat BY SpansAssumption
<1>2. TypeEntries BY DEF TypeOK, TypeEntries
<1>3. CASE UNCHANGED vars
  BY <1>3 DEF TypeOK, Stored, vars, store, client, entered, call
<1>4. ASSUME NEW t \in Threads, NEW s \in Subscribers, AllocateId(t, s) PROVE TypeOK'
  <2>1. next_span_id[s] \in 1..MaxSpans BY <1>1, <1>4 DEF TypeOK, AllocateId
  <2>2. ResolveParent(t, s) \subseteq Id \union {0}
    <3>1. Issued(s) \subseteq Id BY <1>1, <2>1 DEF Issued, Id
    <3> QED BY <3>1, CurrentId DEF ResolveParent
  <2>3. next_span_id' \in [Subscribers -> 1..MaxSpans + 1]
    BY <1>1, <1>4, <2>1 DEF TypeOK, AllocateId
  <2>4. made' \in [Threads -> Id \union {0}]
    BY <1>4, <2>1 DEF TypeOK, AllocateId, Id
  <2>5. cursor' \in [Threads -> Id \union {0}]
    BY <1>4, <2>2 DEF TypeOK, AllocateId
  <2>6. pc' \in [Threads -> PcOfCall] /\ sub' \in [Threads -> Subscribers]
    BY <1>4 DEF TypeOK, AllocateId, PcOfCall
  <2> QED
    BY <1>4, <2>3, <2>4, <2>5, <2>6 DEF TypeOK, AllocateId, Stored, client, entered
<1>5. ASSUME NEW t \in Threads, InsertSpan(t) PROVE TypeOK'
  <2> DEFINE s == sub[t]
             new == [parent |-> cursor[t], refs |-> 1, fields |-> 0]
             update == [id \in Stored(s) \union {made[t]} |->
                          IF id = made[t] THEN new ELSE entries[s][id]]
  <2>1. made[t] \in Id /\ s \in Subscribers /\ cursor[t] \in Id \union {0}
    BY <1>5 DEF TypeOK, Making, InsertSpan
  <2>2. new \in SpanData BY <2>1 DEF SpanData
  <2>3. entries' = [entries EXCEPT ![s] = update] BY <1>5 DEF InsertSpan, TypeOK
  <2>4. Stored(s) \subseteq Id /\ entries[s] \in [Stored(s) -> SpanData]
    BY <2>1 DEF TypeOK
  <2>5. DOMAIN update = Stored(s) \union {made[t]} OBVIOUS
  <2>6. update \in [DOMAIN update -> SpanData]
    <3> HIDE DEF new
    <3> QED BY <2>2, <2>4
  <2>7. TypeEntries'
    <3> HIDE DEF update, s
    <3> QED BY <1>2, <2>1, <2>3, <2>4, <2>5, <2>6, EntriesUpdate
  <2>8. handles' \in [Threads -> [Span -> Nat]] BY <1>5 DEF TypeOK, InsertSpan
  <2>9. Return(t) BY <1>5 DEF InsertSpan
  <2>10. /\ next_span_id' = next_span_id /\ readers' = readers /\ stack' = stack
         /\ guards' = guards /\ twice' = twice
    BY <1>5 DEF InsertSpan, entered
  <2> HIDE DEF s, new, update
  <2> QED BY <2>7, <2>8, <2>9, <2>10, TypeReturn DEF TypeOK, TypeEntries
<1>6. ASSUME NEW t \in Threads, NEW u \in Threads, NEW x \in Span, CloneSpan(t, u, x)
      PROVE TypeOK'
  <2>1. x[1] \in Subscribers BY DEF Span
  <2>2. TypeEntries' BY <1>2, <1>6, <2>1, ReferencedType DEF CloneSpan
  <2>3. handles' \in [Threads -> [Span -> Nat]] BY <1>6 DEF TypeOK, CloneSpan
  <2> QED BY <1>6, <2>2, <2>3 DEF TypeOK, TypeEntries, CloneSpan, entered, call
<1>7. ASSUME NEW t \in Threads, NEW x \in Span, TryClose(t, x) PROVE TypeOK'
  <2>1. x[1] \in Subscribers BY DEF Span
  <2>2. TypeEntries' BY <1>2, <1>7, <2>1, ClosedType DEF TryClose
  <2>3. handles' \in [Threads -> [Span -> Nat]]
    BY <1>7 DEF TypeOK, TryClose, Holds
  <2> QED BY <1>7, <2>2, <2>3 DEF TypeOK, TypeEntries, TryClose, entered, call
<1>8. ASSUME NEW t \in Threads, NEW x \in Span, BeginRecord(t, x) PROVE TypeOK'
  <2>1. x[1] \in Subscribers /\ x[2] \in Id BY DEF Span
  <2> QED
    BY <1>8, <2>1 DEF TypeOK, BeginRecord, PcOfCall, Stored, store, client, entered
<1>9. ASSUME NEW t \in Threads, DebugLogs(t) \/ DebugReturns(t) PROVE TypeOK'
  <2>1. CASE DebugLogs(t)
    <3>1. pc' \in [Threads -> PcOfCall] BY <2>1 DEF TypeOK, DebugLogs, PcOfCall
    <3>2. logging' \in Nat BY <2>1 DEF TypeOK, DebugLogs
    <3> QED BY <2>1, <3>1, <3>2 DEF TypeOK, DebugLogs, Stored, store, client, entered
  <2>2. CASE DebugReturns(t)
    BY <2>2 DEF TypeOK, DebugReturns, PcOfCall, Stored, store, client, entered
  <2> QED BY <1>9, <2>1, <2>2
<1>10. ASSUME NEW t \in Threads, EndRecord(t) PROVE TypeOK'
  <2> DEFINE s == sub[t]
             update == [entries[s] EXCEPT ![made[t]].fields = @ + 1]
  <2>1. s \in Subscribers /\ Stored(s) \subseteq Id /\ entries[s] \in [Stored(s) -> SpanData]
    BY DEF TypeOK
  <2>2. entries' = [entries EXCEPT ![s] = update] BY <1>10 DEF EndRecord
  <2>3. update \in [Stored(s) -> SpanData]
    <3>1. CASE made[t] \in Stored(s)
      <4>1. entries[s][made[t]] \in SpanData BY <2>1, <3>1
      <4>2. [entries[s][made[t]] EXCEPT !.fields = @ + 1] \in SpanData
        BY <4>1 DEF SpanData
      <4> HIDE DEF s
      <4> QED BY <2>1, <3>1, <4>2
    <3>2. CASE made[t] \notin Stored(s)
      <4> HIDE DEF s
      <4> QED BY <2>1, <3>2
    <3> QED BY <3>1, <3>2
  <2>4. TypeEntries'
    <3>1. DOMAIN update = Stored(s) BY <2>3
    <3> HIDE DEF update, s
    <3> QED BY <1>2, <2>1, <2>2, <2>3, <3>1, EntriesUpdate
  <2>5. Return(t) BY <1>10 DEF EndRecord
  <2> HIDE DEF s, update
  <2> QED BY <1>10, <2>4, <2>5, TypeReturn DEF TypeOK, TypeEntries, EndRecord, client, entered
<1>11. ASSUME NEW t \in Threads, NEW s \in Subscribers, CurrentSpan(t, s) PROVE TypeOK'
  <2>1. Current(t) \in Id \union {0} BY CurrentId
  <2> QED
    BY <1>11, <2>1 DEF TypeOK, CurrentSpan, PcOfCall, Stored, store, client, entered
<1>12. ASSUME NEW t \in Threads, CloneCurrent(t) PROVE TypeOK'
  <2>1. sub[t] \in Subscribers BY DEF TypeOK
  <2>2. TypeEntries' BY <1>2, <1>12, <2>1, ReferencedType DEF CloneCurrent
  <2>3. handles' \in [Threads -> [Span -> Nat]]
    <3> DEFINE x == <<sub[t], made[t]>>
    <3>1. handles' = [handles EXCEPT ![t][x] = @ + 1] BY <1>12 DEF CloneCurrent
    <3> HIDE DEF x
    <3>2. handles \in [Threads -> [Span -> Nat]] BY DEF TypeOK
    <3>3. [handles[t] EXCEPT ![x] = @ + 1] \in [Span -> Nat]
      <4>1. CASE x \in Span BY <3>2, <4>1
      <4>2. CASE x \notin Span BY <3>2, <4>2
      <4> QED BY <4>1, <4>2
    <3> QED BY <3>1, <3>2, <3>3
  <2>4. Return(t) BY <1>12 DEF CloneCurrent
  <2> QED BY <1>12, <2>2, <2>3, <2>4, TypeReturn DEF TypeOK, TypeEntries, CloneCurrent, entered
<1>13. ASSUME NEW t \in Threads, NEW x \in Span, Enter(t, x) PROVE TypeOK'
  <2>1. x[2] \in Id BY DEF Span
  <2>2. stack' \in [Threads -> Seq(Id)] BY <1>13, <2>1 DEF TypeOK, Enter
  <2>3. guards' \in [Threads -> Seq(Span)] BY <1>13 DEF TypeOK, Enter
  <2> QED BY <1>13, <2>2, <2>3 DEF TypeOK, Enter, Stored, store, call
<1>14. ASSUME NEW t \in Threads, NEW i \in 1..Len(guards[t]), Exit(t, i) PROVE TypeOK'
  <2>1. stack[t] \in Seq(Id) /\ guards[t] \in Seq(Span) BY DEF TypeOK
  <2>2. Popped(stack[t], guards[t][i][2]) \in Seq(Id) BY <2>1, PoppedSeq
  <2>3. RemoveAt(guards[t], i) \in Seq(Span) BY <2>1 DEF RemoveAt
  <2>4. stack' \in [Threads -> Seq(Id)] BY <1>14, <2>2 DEF TypeOK, Exit
  <2>5. guards' \in [Threads -> Seq(Span)] BY <1>14, <2>3 DEF TypeOK, Exit
  <2> QED BY <1>14, <2>4, <2>5 DEF TypeOK, Exit, Stored, store, call
<1>15. ASSUME NEW t \in Threads, NEW s \in Subscribers, BeginEvent(t, s) PROVE TypeOK'
  <2>1. Current(t) \in Id \union {0} BY CurrentId
  <2>2. Issued(s) \subseteq Id BY <1>1 DEF TypeOK, Issued, Id
  <2>3. cursor' \in [Threads -> Id \union {0}]
    BY <1>15, <2>1, <2>2 DEF TypeOK, BeginEvent
  <2>4. contextual' \in [Threads -> BOOLEAN] BY <1>15 DEF TypeOK, BeginEvent
  <2>5. pc' \in [Threads -> PcOfCall] /\ sub' \in [Threads -> Subscribers] /\ events' \in Nat
    BY <1>15 DEF TypeOK, BeginEvent, PcOfCall
  <2> QED
    BY <1>15, <2>3, <2>4, <2>5 DEF TypeOK, BeginEvent, Stored, store, client, entered
<1>16. ASSUME NEW t \in Threads, SkipContext(t) \/ ReadLock(t) \/ ReadUnlock(t) PROVE TypeOK'
  <2>1. pc' \in [Threads -> PcOfCall]
    BY <1>16 DEF TypeOK, SkipContext, ReadLock, ReadUnlock, PcOfCall
  <2>2. readers' \in [Subscribers -> SUBSET Threads]
    <3>1. CASE SkipContext(t) BY <3>1 DEF TypeOK, SkipContext, store
    <3>2. CASE ReadLock(t) BY <3>2 DEF TypeOK, ReadLock
    <3>3. CASE ReadUnlock(t) BY <3>3 DEF TypeOK, ReadUnlock
    <3> QED BY <1>16, <3>1, <3>2, <3>3
  <2> QED
    BY <1>16, <2>1, <2>2 DEF TypeOK, SkipContext, ReadLock, ReadUnlock, Stored, store, client, entered
<1>17. ASSUME NEW t \in Threads, Walk(t) PROVE TypeOK'
  <2>1. cursor[t] \in Stored(sub[t]) BY <1>17 DEF Walk, WalkOver
  <2>2. entries[sub[t]][cursor[t]] \in SpanData /\ cursor[t] \in Id
    BY <2>1 DEF TypeOK
  <2>3. Snapshot(t) \in [id : Id, fields : Nat] BY <2>2 DEF Snapshot, SpanData
  <2>4. chain' \in [Threads -> Seq([id : Id, fields : Nat])]
    <3> DEFINE D == [id : Id, fields : Nat]
    <3>1. Snapshot(t) \in D /\ chain \in [Threads -> Seq(D)] BY <2>3 DEF TypeOK
    <3>2. chain' = [chain EXCEPT ![t] = Append(chain[t], Snapshot(t))] BY <1>17 DEF Walk
    <3> HIDE DEF D
    <3>3. chain' \in [Threads -> Seq(D)] BY <3>1, <3>2
    <3> QED BY <3>3 DEF D
  <2>5. cursor' \in [Threads -> Id \union {0}]
    <3>1. entries[sub[t]][cursor[t]].parent \in Id \union {0} BY <2>2 DEF SpanData
    <3> QED BY <1>17, <3>1 DEF TypeOK, Walk
  <2> QED BY <1>17, <2>4, <2>5 DEF TypeOK, Walk, Stored, store, client, entered
<1>18. ASSUME NEW t \in Threads, Emit(t) PROVE TypeOK'
  BY <1>18, TypeReturn DEF Emit, TypeOK, Stored, store, client, entered
<1> QED
  BY <1>3, <1>4, <1>5, <1>6, <1>7, <1>8, <1>9, <1>10, <1>11, <1>12, <1>13, <1>14,
     <1>15, <1>16, <1>17, <1>18
  DEF Next, Quiescent, Thread, Step

-----------------------------------------------------------------------------
(* Whose step touches what.                                                *)

(* A thread's call, stack and guards are its own.                          *)
LEMMA Locals ==
  ASSUME TypeOK, NEW u \in Threads, Thread(u), NEW t \in Threads, t # u
  PROVE  /\ pc'[t] = pc[t] /\ sub'[t] = sub[t] /\ made'[t] = made[t]
         /\ cursor'[t] = cursor[t] /\ chain'[t] = chain[t] /\ contextual'[t] = contextual[t]
         /\ stack'[t] = stack[t] /\ guards'[t] = guards[t]
<1> USE DEF TypeOK, store, client, entered, call
<1>1. ASSUME Return(u)
      PROVE  /\ pc'[t] = pc[t] /\ sub'[t] = sub[t] /\ made'[t] = made[t]
             /\ cursor'[t] = cursor[t] /\ chain'[t] = chain[t] /\ contextual'[t] = contextual[t]
  BY <1>1 DEF Return
<1>2. ASSUME NEW s \in Subscribers, AllocateId(u, s) \/ CurrentSpan(u, s) \/ BeginEvent(u, s)
      PROVE  /\ pc'[t] = pc[t] /\ sub'[t] = sub[t] /\ made'[t] = made[t]
             /\ cursor'[t] = cursor[t] /\ chain'[t] = chain[t] /\ contextual'[t] = contextual[t]
             /\ stack'[t] = stack[t] /\ guards'[t] = guards[t]
  BY <1>2 DEF AllocateId, CurrentSpan, BeginEvent
<1>3. CASE InsertSpan(u) \/ CloneCurrent(u) \/ EndRecord(u) \/ Emit(u)
  BY <1>1, <1>3 DEF InsertSpan, CloneCurrent, EndRecord, Emit
<1>4. ASSUME NEW x \in Span, (\E v \in Threads : CloneSpan(u, v, x)) \/ TryClose(u, x)
      PROVE  stack' = stack /\ guards' = guards /\ UNCHANGED call
  BY <1>4 DEF CloneSpan, TryClose
<1>5. ASSUME NEW x \in Span, BeginRecord(u, x) \/ Enter(u, x)
      PROVE  /\ pc'[t] = pc[t] /\ sub'[t] = sub[t] /\ made'[t] = made[t]
             /\ cursor'[t] = cursor[t] /\ chain'[t] = chain[t] /\ contextual'[t] = contextual[t]
             /\ stack'[t] = stack[t] /\ guards'[t] = guards[t]
  BY <1>5 DEF BeginRecord, Enter
<1>6. ASSUME NEW i \in 1..Len(guards[u]), Exit(u, i)
      PROVE  stack'[t] = stack[t] /\ guards'[t] = guards[t] /\ UNCHANGED call
  BY <1>6 DEF Exit
<1>7. CASE DebugLogs(u) \/ DebugReturns(u) BY <1>7 DEF DebugLogs, DebugReturns
<1>8. CASE SkipContext(u) \/ ReadLock(u) BY <1>8 DEF SkipContext, ReadLock
<1>9. CASE Walk(u) \/ ReadUnlock(u) BY <1>9 DEF Walk, ReadUnlock
<1> QED
  BY <1>2, <1>3, <1>4, <1>5, <1>6, <1>7, <1>8, <1>9 DEF Thread, Step

(* A thread walks after taking the lock or a step of the walk.             *)
LEMMA WalkerSteps ==
  ASSUME TypeOK, [Next]_vars, NEW t \in Threads, pc'[t] = "walk"
  PROVE  \/ ReadLock(t)
         \/ Walk(t)
         \/ /\ pc[t] = "walk" /\ sub'[t] = sub[t]
            /\ cursor'[t] = cursor[t] /\ chain'[t] = chain[t]
<1>1. CASE UNCHANGED vars BY <1>1 DEF vars, call
<1>2. ASSUME NEW u \in Threads, Thread(u), u # t
      PROVE  pc[t] = "walk" /\ sub'[t] = sub[t]
             /\ cursor'[t] = cursor[t] /\ chain'[t] = chain[t]
  BY <1>2, Locals
<1>3. CASE Thread(t)
  <2> USE DEF TypeOK, call
  <2>1. ~Return(t) BY DEF Return
  <2>2. ASSUME NEW s \in Subscribers
        PROVE  ~AllocateId(t, s) /\ ~CurrentSpan(t, s) /\ ~BeginEvent(t, s)
    BY DEF AllocateId, CurrentSpan, BeginEvent
  <2>3. ~InsertSpan(t) /\ ~CloneCurrent(t) /\ ~EndRecord(t) /\ ~Emit(t)
    BY <2>1 DEF InsertSpan, CloneCurrent, EndRecord, Emit
  <2>4. ASSUME NEW x \in Span
        PROVE  /\ \A u \in Threads : ~CloneSpan(t, u, x)
               /\ ~TryClose(t, x) /\ ~BeginRecord(t, x) /\ ~Enter(t, x)
    BY DEF CloneSpan, TryClose, BeginRecord, Enter
  <2>5. \A i \in 1..Len(guards[t]) : ~Exit(t, i) BY DEF Exit
  <2>6. ~DebugLogs(t) /\ ~DebugReturns(t) /\ ~SkipContext(t) /\ ~ReadUnlock(t)
    BY DEF DebugLogs, DebugReturns, SkipContext, ReadUnlock
  <2> QED BY <1>3, <2>2, <2>3, <2>4, <2>5, <2>6 DEF Thread, Step
<1> QED BY <1>1, <1>2, <1>3 DEF Next, Quiescent

(* What becomes of the read lock.                                          *)
LEMMA ReaderSteps ==
  ASSUME [Next]_vars
  PROVE  readers' = readers \/ \E t \in Threads : ReadLock(t) \/ ReadUnlock(t)
<1>1. CASE UNCHANGED vars BY <1>1 DEF vars, store
<1>2. ASSUME NEW t \in Threads, Thread(t)
      PROVE  readers' = readers \/ ReadLock(t) \/ ReadUnlock(t)
  BY <1>2 DEF Thread, Step, AllocateId, InsertSpan, CloneSpan, TryClose, BeginRecord,
     DebugLogs, DebugReturns, EndRecord, CurrentSpan, CloneCurrent, Enter, Exit,
     BeginEvent, SkipContext, Walk, Emit, store
<1> QED BY <1>1, <1>2 DEF Next, Quiescent

(* What becomes of the entries.                                            *)
LEMMA EntrySteps ==
  ASSUME [Next]_vars
  PROVE  \/ entries' = entries
         \/ \E t \in Threads : InsertSpan(t) \/ CloneCurrent(t) \/ EndRecord(t)
         \/ \E t, u \in Threads, x \in Span : CloneSpan(t, u, x)
         \/ \E t \in Threads, x \in Span : TryClose(t, x)
<1>1. CASE UNCHANGED vars BY <1>1 DEF vars, store
<1>2. ASSUME NEW t \in Threads, Thread(t)
      PROVE  \/ entries' = entries
             \/ InsertSpan(t) \/ CloneCurrent(t) \/ EndRecord(t)
             \/ \E u \in Threads, x \in Span : CloneSpan(t, u, x)
             \/ \E x \in Span : TryClose(t, x)
  BY <1>2 DEF Thread, Step, AllocateId, BeginRecord, DebugLogs, DebugReturns,
     CurrentSpan, Enter, Exit, BeginEvent, SkipContext, ReadLock, Walk, ReadUnlock,
     Emit, store
<1> QED BY <1>1, <1>2 DEF Next, Quiescent

-----------------------------------------------------------------------------
(* The lock.                                                               *)

(* Nobody reads a store that record() is writing, and who walks reads.     *)
Locked ==
  /\ \A s \in Subscribers : readers[s] # {} => Readable(s)
  /\ \A t \in Threads : pc[t] = "walk" => t \in readers[sub[t]]

LEMMA WriterSteps ==
  ASSUME TypeOK, [Next]_vars, NEW t \in Threads, NEW s \in Subscribers,
         ~Writing(t, s), Writing(t, s)'
  PROVE  readers[s] = {} /\ \E x \in Span : BeginRecord(t, x)
<1> USE DEF Writing
<1>1. CASE UNCHANGED vars BY <1>1 DEF vars, call
<1>2. ASSUME NEW u \in Threads, Thread(u), u # t PROVE FALSE
  BY <1>2, Locals
<1>3. CASE Thread(t)
  <2> USE DEF TypeOK, call
  <2>1. ~Return(t) BY DEF Return
  <2>2. ASSUME NEW v \in Subscribers
        PROVE  ~AllocateId(t, v) /\ ~CurrentSpan(t, v) /\ ~BeginEvent(t, v)
    BY DEF AllocateId, CurrentSpan, BeginEvent
  <2>3. ~InsertSpan(t) /\ ~CloneCurrent(t) /\ ~EndRecord(t) /\ ~Emit(t)
    BY <2>1 DEF InsertSpan, CloneCurrent, EndRecord, Emit
  <2>4. ASSUME NEW x \in Span
        PROVE  /\ \A u \in Threads : ~CloneSpan(t, u, x)
               /\ ~TryClose(t, x) /\ ~Enter(t, x)
    BY DEF CloneSpan, TryClose, Enter
  <2>5. \A i \in 1..Len(guards[t]) : ~Exit(t, i) BY DEF Exit
  <2>6. ~DebugLogs(t) /\ ~DebugReturns(t) BY DEF DebugLogs, DebugReturns
  <2>7. ~SkipContext(t) /\ ~ReadLock(t) /\ ~Walk(t) /\ ~ReadUnlock(t)
    BY DEF SkipContext, ReadLock, Walk, ReadUnlock
  <2>8. PICK x \in Span : BeginRecord(t, x)
    BY <1>3, <2>2, <2>3, <2>4, <2>5, <2>6, <2>7 DEF Thread, Step
  <2>9. s = x[1] BY <2>8 DEF BeginRecord
  <2> QED BY <2>8, <2>9 DEF BeginRecord, Writable
<1> QED BY <1>1, <1>2, <1>3 DEF Next, Quiescent

LEMMA LockedStep == TypeOK /\ Locked /\ [Next]_vars => Locked'
<1> SUFFICES ASSUME TypeOK, Locked, [Next]_vars PROVE Locked'
  OBVIOUS
<1>1. ASSUME NEW s \in Subscribers, readers'[s] # {} PROVE Readable(s)'
  <2> SUFFICES ASSUME NEW t \in Threads, Writing(t, s)' PROVE FALSE
    BY DEF Readable
  <2>1. CASE ~Writing(t, s)
    <3>1. readers[s] = {} /\ \E x \in Span : BeginRecord(t, x)
      BY <2>1, WriterSteps
    <3>2. readers' = readers BY <3>1 DEF BeginRecord, store
    <3> QED BY <1>1, <3>1, <3>2
  <2>2. CASE Writing(t, s)
    <3>1. readers[s] = {} BY <2>2 DEF Locked, Readable
    <3>2. PICK u \in Threads : ReadLock(u) \/ ReadUnlock(u)
      BY <1>1, <3>1, ReaderSteps
    <3>3. ReadLock(u) /\ sub[u] = s
      <4>1. sub[u] \in Subscribers BY DEF TypeOK
      <4>2. ASSUME ReadUnlock(u) PROVE FALSE
        <5>1. readers'[s] = IF s = sub[u] THEN readers[s] \ {u} ELSE readers[s]
          BY <4>1, <4>2 DEF ReadUnlock, TypeOK
        <5> QED BY <1>1, <3>1, <5>1
      <4>3. ReadLock(u) BY <3>2, <4>2
      <4> QED BY <1>1, <3>1, <4>1, <4>3 DEF ReadLock, TypeOK
    <3> QED BY <2>2, <3>3 DEF ReadLock, Readable
  <2> QED BY <2>1, <2>2
<1>2. ASSUME NEW t \in Threads, pc'[t] = "walk" PROVE t \in readers'[sub'[t]]
  <2>1. CASE ReadLock(t) BY <2>1 DEF ReadLock, TypeOK
  <2>2. CASE Walk(t) BY <2>2 DEF Walk, Locked, store
  <2>3. CASE pc[t] = "walk" /\ sub'[t] = sub[t]
    <3>1. t \in readers[sub[t]] BY <2>3 DEF Locked
    <3>2. ASSUME NEW u \in Threads, ReadLock(u) PROVE t \in readers'[sub'[t]]
      BY <2>3, <3>1, <3>2 DEF ReadLock, TypeOK
    <3>3. ASSUME NEW u \in Threads, ReadUnlock(u) PROVE t \in readers'[sub'[t]]
      <4>1. u # t BY <1>2, <3>3 DEF ReadUnlock, TypeOK
      <4> QED BY <2>3, <3>1, <3>3, <4>1 DEF ReadUnlock, TypeOK
    <3> QED BY <2>3, <3>1, <3>2, <3>3, ReaderSteps
  <2> QED BY <1>2, <2>1, <2>2, <2>3, WalkerSteps
<1> QED BY <1>1, <1>2 DEF Locked

(* Nobody changes a store that somebody reads.                             *)
LEMMA StoreKept ==
  ASSUME TypeOK, Locked, [Next]_vars, NEW s \in Subscribers, readers[s] # {}
  PROVE  entries'[s] = entries[s]
<1>1. Readable(s) BY DEF Locked
<1>2. ~Writable(s) BY DEF Writable
<1> USE DEF TypeOK
<1>3. ASSUME NEW t \in Threads, InsertSpan(t) PROVE entries'[s] = entries[s]
  BY <1>2, <1>3 DEF InsertSpan
<1>4. ASSUME NEW t \in Threads, CloneCurrent(t) PROVE entries'[s] = entries[s]
  BY <1>2, <1>4 DEF CloneCurrent, Referenced
<1>5. ASSUME NEW t \in Threads, EndRecord(t) PROVE entries'[s] = entries[s]
  <2>1. sub[t] # s BY <1>1, <1>5 DEF EndRecord, Readable, Writing
  <2> QED BY <1>5, <2>1 DEF EndRecord
<1>6. ASSUME NEW t \in Threads, NEW u \in Threads, NEW x \in Span, CloneSpan(t, u, x)
      PROVE  entries'[s] = entries[s]
  BY <1>2, <1>6 DEF CloneSpan, Referenced
<1>7. ASSUME NEW t \in Threads, NEW x \in Span, TryClose(t, x)
      PROVE  entries'[s] = entries[s]
  <2>1. x[1] # s BY <1>2, <1>7 DEF TryClose
  <2> QED BY <1>7, <2>1 DEF TryClose, Closed
<1> QED BY <1>3, <1>4, <1>5, <1>6, <1>7, EntrySteps

-----------------------------------------------------------------------------
(* The span context.                                                       *)

(* Outside of a walk nothing has been copied yet; during the walk the      *)
(* cursor is at the parent of what was copied last.                        *)
ChainFollows ==
  \A t \in Threads :
    /\ pc[t] \notin {"walk", "emit"} => chain[t] = <<>>
    /\ pc[t] = "walk" /\ chain[t] # <<>> =>
         entries[sub[t]][chain[t][Len(chain[t])].id].parent = cursor[t]

WalkChain == ChainFollows /\ ContextIsConsistent

LEMMA EmptyChains ==
  ASSUME TypeOK, ChainFollows, [Next]_vars, NEW t \in Threads,
         pc'[t] \notin {"walk", "emit"}
  PROVE  chain'[t] = <<>>
<1>2. ASSUME NEW u \in Threads, Thread(u), u # t PROVE chain'[t] = <<>>
  <2>1. pc'[t] = pc[t] /\ chain'[t] = chain[t] BY <1>2, Locals
  <2> QED BY <2>1 DEF ChainFollows
<1> USE DEF TypeOK, ChainFollows
<1>1. CASE UNCHANGED vars BY <1>1 DEF vars, call
<1>3. CASE Thread(t)
  <2>1. CASE Return(t) BY <2>1, SMTT(30) DEF Return
  <2>2. CASE pc[t] \in {"walk", "emit"} /\ ~Return(t)
    <3> USE DEF store, client, entered, call
    <3>1. ASSUME NEW s \in Subscribers
          PROVE  ~AllocateId(t, s) /\ ~CurrentSpan(t, s) /\ ~BeginEvent(t, s)
      BY <2>2 DEF AllocateId, CurrentSpan, BeginEvent
    <3>2. ASSUME NEW x \in Span
          PROVE  /\ \A u \in Threads : ~CloneSpan(t, u, x)
                 /\ ~TryClose(t, x) /\ ~BeginRecord(t, x) /\ ~Enter(t, x)
      BY <2>2 DEF CloneSpan, TryClose, BeginRecord, Enter
    <3>3. \A i \in 1..Len(guards[t]) : ~Exit(t, i) BY <2>2 DEF Exit
    <3>4. ~InsertSpan(t) /\ ~CloneCurrent(t) /\ ~EndRecord(t) /\ ~Emit(t)
      BY <2>2 DEF InsertSpan, CloneCurrent, EndRecord, Emit
    <3>5. ~DebugLogs(t) /\ ~DebugReturns(t) /\ ~SkipContext(t) /\ ~ReadLock(t)
      BY <2>2 DEF DebugLogs, DebugReturns, SkipContext, ReadLock
    <3>6. ~Walk(t) /\ ~ReadUnlock(t) BY <2>2 DEF Walk, ReadUnlock
    <3> QED BY <1>3, <3>1, <3>2, <3>3, <3>4, <3>5, <3>6 DEF Thread, Step
  <2>3. CASE pc[t] \notin {"walk", "emit"} /\ ~Return(t)
    <3>1. chain' = chain
      BY <1>3, <2>3 DEF Thread, Step, AllocateId, InsertSpan, CloneSpan, TryClose,
         BeginRecord, DebugLogs, DebugReturns, EndRecord, CurrentSpan, CloneCurrent,
         Enter, Exit, BeginEvent, SkipContext, ReadLock, Walk, ReadUnlock, Emit, call
    <3> QED BY <2>3, <3>1
  <2> QED BY <2>1, <2>2, <2>3
<1> QED BY <1>1, <1>2, <1>3 DEF Next, Quiescent

(* One step of the walk copies the next span of the chain.                 *)
LEMMA WalkStep ==
  ASSUME TypeOK, TypeOK', WalkChain, NEW t \in Threads, Walk(t)
  PROVE  /\ entries'[sub'[t]][chain'[t][Len(chain'[t])].id].parent = cursor'[t]
         /\ \A i \in 1..Len(chain'[t]) :
              /\ chain'[t][i].id \in Stored(sub[t])
              /\ chain'[t][i].fields = entries[sub[t]][chain'[t][i].id].fields
              /\ i < Len(chain'[t]) =>
                   entries[sub[t]][chain'[t][i].id].parent = chain'[t][i + 1].id
<1> DEFINE c == chain[t]
           d == chain'[t]
           data == entries[sub[t]]
<1>1. cursor[t] \in Stored(sub[t]) /\ pc[t] = "walk" BY DEF Walk, WalkOver
<1>2. c \in Seq([id : Id, fields : Nat]) BY DEF TypeOK
<1>3. d = Append(c, Snapshot(t)) BY DEF Walk, TypeOK
<1>4. /\ Len(c) \in Nat /\ Len(d) = Len(c) + 1
      /\ \A i \in 1..Len(c) : d[i] = c[i]
      /\ d[Len(c) + 1] = Snapshot(t)
  BY <1>2, <1>3, AppendProperties
<1>5. Snapshot(t).id = cursor[t] /\ Snapshot(t).fields = data[cursor[t]].fields
  BY DEF Snapshot
<1>6. cursor'[t] = data[cursor[t]].parent /\ sub' = sub /\ entries' = entries
  BY DEF Walk, TypeOK, store
<1>7. \A i \in 1..Len(c) :
        /\ c[i].id \in Stored(sub[t])
        /\ c[i].fields = data[c[i].id].fields
        /\ i < Len(c) => data[c[i].id].parent = c[i + 1].id
  BY <1>1 DEF WalkChain, ContextIsConsistent
<1>8. Len(c) # 0 => data[c[Len(c)].id].parent = cursor[t]
  BY <1>1, <1>2 DEF WalkChain, ChainFollows
<1> HIDE DEF c, d, data
<1>9. entries'[sub'[t]][d[Len(d)].id].parent = cursor'[t]
  BY <1>4, <1>5, <1>6 DEF data
<1>10. ASSUME NEW i \in 1..Len(d)
       PROVE  /\ d[i].id \in Stored(sub[t])
              /\ d[i].fields = data[d[i].id].fields
              /\ i < Len(d) => data[d[i].id].parent = d[i + 1].id
  <2>1. CASE i = Len(c) + 1 BY <1>1, <1>4, <1>5, <2>1
  <2>2. CASE i = Len(c) BY <1>4, <1>5, <1>7, <1>8, <2>2
  <2>3. CASE i < Len(c)
    <3>1. i \in 1..Len(c) /\ i + 1 \in 1..Len(c) BY <1>4, <2>3
    <3> QED BY <1>4, <1>7, <2>3, <3>1
  <2> QED BY <1>4, <2>1, <2>2, <2>3
<1> QED BY <1>9, <1>10 DEF c, d, data

LEMMA WalkChainStep ==
  ASSUME TypeOK, TypeOK', Locked, WalkChain, [Next]_vars
  PROVE  WalkChain'
<1> USE DEF WalkChain
<1>1. ASSUME NEW t \in Threads, pc'[t] = "walk"
      PROVE  /\ chain'[t] # <<>> =>
                  entries'[sub'[t]][chain'[t][Len(chain'[t])].id].parent = cursor'[t]
             /\ \A i \in 1..Len(chain'[t]) :
                  /\ chain'[t][i].id \in Stored(sub[t])'
                  /\ chain'[t][i].fields = entries'[sub'[t]][chain'[t][i].id].fields
                  /\ i < Len(chain'[t]) =>
                       entries'[sub'[t]][chain'[t][i].id].parent = chain'[t][i + 1].id
  <2>1. CASE ReadLock(t)
    <3>1. chain'[t] = <<>> BY <2>1 DEF ReadLock, ChainFollows
    <3> QED BY <3>1
  <2>2. CASE Walk(t)
    <3>1. sub' = sub /\ entries' = entries BY <2>2 DEF Walk, store
    <3> QED BY <2>2, <3>1, WalkStep DEF Stored
  <2>3. CASE /\ pc[t] = "walk" /\ sub'[t] = sub[t]
             /\ cursor'[t] = cursor[t] /\ chain'[t] = chain[t]
    <3>1. sub[t] \in Subscribers /\ readers[sub[t]] # {}
      BY <2>3 DEF Locked, TypeOK
    <3>2. entries'[sub[t]] = entries[sub[t]] BY <3>1, StoreKept
    <3>3. Stored(sub[t])' = Stored(sub[t]) BY <2>3, <3>2 DEF Stored
    <3> QED BY <2>3, <3>2, <3>3 DEF ChainFollows, ContextIsConsistent
  <2> QED BY <1>1, <2>1, <2>2, <2>3, WalkerSteps
<1>2. ChainFollows' BY <1>1, EmptyChains DEF ChainFollows
<1>3. ContextIsConsistent' BY <1>1 DEF ContextIsConsistent
<1> QED BY <1>2, <1>3

-----------------------------------------------------------------------------
(* Ids.                                                                    *)

Known(s) == 1..next_span_id[s] - 1

(* Only ids that were handed out are in use.                               *)
Numbered ==
  /\ \A s \in Subscribers : Stored(s) \subseteq Known(s)
  /\ \A t \in Threads : made[t] < next_span_id[sub[t]]
  /\ \A t \in Threads : pc[t] = "idle" => made[t] = 0
  /\ \A t \in Threads : \A x \in Span : Holds(t, x) => x[2] \in Known(x[1])

(* With one subscriber stacks hold its ids, and a parent was named before  *)
(* its child.                                                              *)
Rooted ==
  OneSubscriber =>
    \A s \in Subscribers :
      /\ \A t \in Threads :
           stack[t] \in Seq(Known(s)) /\ (pc[t] = "new" => cursor[t] < made[t])
      /\ \A id \in Stored(s) : entries[s][id].parent < id

LEMMA OnlySubscriber ==
  ASSUME OneSubscriber, NEW s \in Subscribers, NEW r \in Subscribers
  PROVE  s = r
<1>1. PICK x : Subscribers = {x}
  BY SpansAssumption, FS_Singleton DEF OneSubscriber
<1> QED BY <1>1

(* Ids are handed out in order.                                            *)
LEMMA KnownGrows ==
  ASSUME TypeOK, [Next]_vars, NEW s \in Subscribers
  PROVE  next_span_id[s] <= next_span_id'[s] /\ Known(s) \subseteq Known(s)'
<1>1. next_span_id[s] \in Nat BY SpansAssumption DEF TypeOK
<1>2. next_span_id' = next_span_id \/ \E t \in Threads, r \in Subscribers : AllocateId(t, r)
  <2> SUFFICES ASSUME next_span_id' # next_span_id,
                      \A t \in Threads, r \in Subscribers : ~AllocateId(t, r)
               PROVE  FALSE
    OBVIOUS
  <2> USE DEF store
  <2>1. ASSUME NEW t \in Threads PROVE ~Thread(t)
    <3>1. ~Step(t)
      BY DEF Step, InsertSpan, CloneCurrent, DebugReturns, EndRecord, SkipContext,
         ReadLock, Walk, ReadUnlock, Emit
    <3>2. ASSUME NEW r \in Subscribers
          PROVE  ~AllocateId(t, r) /\ ~CurrentSpan(t, r) /\ ~BeginEvent(t, r)
      BY DEF CurrentSpan, BeginEvent
    <3>3. ASSUME NEW x \in Span
          PROVE  /\ ~TryClose(t, x) /\ ~BeginRecord(t, x) /\ ~Enter(t, x)
                 /\ \A u \in Threads : ~CloneSpan(t, u, x)
      BY DEF TryClose, BeginRecord, Enter, CloneSpan
    <3>4. ~DebugLogs(t) /\ \A i \in 1..Len(guards[t]) : ~Exit(t, i) BY DEF DebugLogs, Exit
    <3> QED BY <3>1, <3>2, <3>3, <3>4 DEF Thread
  <2> QED BY <2>1 DEF Next, Quiescent, vars
<1>3. next_span_id'[s] \in {next_span_id[s], next_span_id[s] + 1}
  BY <1>2 DEF AllocateId, TypeOK
<1> QED BY <1>1, <1>3 DEF Known

(* What a step puts in the place of a thread's id.                         *)
LEMMA MadeSteps ==
  ASSUME TypeOK, [Next]_vars, NEW t \in Threads
  PROVE  \/ made'[t] = made[t] /\ sub'[t] = sub[t]
         \/ made'[t] = 0
         \/ \E s \in Subscribers : AllocateId(t, s) \/ CurrentSpan(t, s)
         \/ \E x \in Span : BeginRecord(t, x)
         \/ \E s \in Subscribers : BeginEvent(t, s)
<1>1. CASE UNCHANGED vars BY <1>1 DEF vars, call
<1>2. ASSUME NEW u \in Threads, Thread(u), u # t
      PROVE  made'[t] = made[t] /\ sub'[t] = sub[t]
  BY <1>2, Locals
<1>3. CASE Thread(t)
  <2>1. Return(t) => made'[t] = 0 BY DEF Return, TypeOK
  <2> QED
    BY <1>3, <2>1 DEF Thread, Step, InsertSpan, CloneSpan, TryClose, DebugLogs,
       DebugReturns, EndRecord, CloneCurrent, Enter, Exit, SkipContext, ReadLock,
       Walk, ReadUnlock, Emit, call
<1> QED BY <1>1, <1>2, <1>3 DEF Next, Quiescent

(* A span in the making was begun by this step, or goes on as it was.      *)
LEMMA NewSteps ==
  ASSUME TypeOK, [Next]_vars, NEW t \in Threads, pc'[t] = "new"
  PROVE  \/ \E s \in Subscribers : AllocateId(t, s)
         \/ /\ pc[t] = "new" /\ sub'[t] = sub[t]
            /\ made'[t] = made[t] /\ cursor'[t] = cursor[t]
<1>1. CASE UNCHANGED vars BY <1>1 DEF vars, call
<1>2. ASSUME NEW u \in Threads, Thread(u), u # t
      PROVE  /\ pc[t] = "new" /\ sub'[t] = sub[t]
             /\ made'[t] = made[t] /\ cursor'[t] = cursor[t]
  BY <1>2, Locals
<1>3. CASE Thread(t)
  <2> USE DEF TypeOK
  <2>1. ~Return(t) BY DEF Return
  <2>2. ASSUME NEW s \in Subscribers PROVE ~CurrentSpan(t, s) /\ ~BeginEvent(t, s)
    BY DEF CurrentSpan, BeginEvent
  <2>3. ~InsertSpan(t) /\ ~CloneCurrent(t) /\ ~EndRecord(t) /\ ~Emit(t)
    BY <2>1 DEF InsertSpan, CloneCurrent, EndRecord, Emit
  <2>4. ASSUME NEW x \in Span
        PROVE  /\ \A u \in Threads : ~CloneSpan(t, u, x)
               /\ ~TryClose(t, x) /\ ~BeginRecord(t, x) /\ ~Enter(t, x)
    BY DEF CloneSpan, TryClose, BeginRecord, Enter, call
  <2>5. \A i \in 1..Len(guards[t]) : ~Exit(t, i) BY DEF Exit, call
  <2>6. ~DebugLogs(t) /\ ~DebugReturns(t) /\ ~SkipContext(t)
    BY DEF DebugLogs, DebugReturns, SkipContext
  <2>7. ~ReadLock(t) /\ ~Walk(t) /\ ~ReadUnlock(t)
    BY DEF ReadLock, Walk, ReadUnlock
  <2> QED BY <1>3, <2>2, <2>3, <2>4, <2>5, <2>6, <2>7 DEF Thread, Step
<1> QED BY <1>1, <1>2, <1>3 DEF Next, Quiescent

LEMMA IdleSteps ==
  ASSUME TypeOK, [Next]_vars, NEW t \in Threads, pc'[t] = "idle"
  PROVE  made'[t] = 0 \/ (pc[t] = "idle" /\ made'[t] = made[t])
<1>1. CASE UNCHANGED vars BY <1>1 DEF vars, call
<1>2. ASSUME NEW u \in Threads, Thread(u), u # t
      PROVE  pc[t] = "idle" /\ made'[t] = made[t]
  BY <1>2, Locals
<1>3. CASE Thread(t)
  <2> USE DEF TypeOK
  <2>1. Return(t) => made'[t] = 0 BY DEF Return
  <2>2. ASSUME NEW s \in Subscribers
        PROVE  ~AllocateId(t, s) /\ ~CurrentSpan(t, s) /\ ~BeginEvent(t, s)
    BY DEF AllocateId, CurrentSpan, BeginEvent
  <2>3. InsertSpan(t) \/ CloneCurrent(t) \/ EndRecord(t) \/ Emit(t) => made'[t] = 0
    BY <2>1 DEF InsertSpan, CloneCurrent, EndRecord, Emit
  <2>4. ASSUME NEW x \in Span
        PROVE  /\ ~BeginRecord(t, x)
               /\ (\E u \in Threads : CloneSpan(t, u, x)) \/ TryClose(t, x) \/ Enter(t, x)
                    => pc[t] = "idle" /\ made'[t] = made[t]
    BY DEF CloneSpan, TryClose, BeginRecord, Enter, call
  <2>5. \A i \in 1..Len(guards[t]) : Exit(t, i) => pc[t] = "idle" /\ made'[t] = made[t]
    BY DEF Exit, call
  <2>6. ~DebugLogs(t) /\ ~DebugReturns(t) /\ ~SkipContext(t)
    BY DEF DebugLogs, DebugReturns, SkipContext
  <2>7. ~ReadLock(t) /\ ~ReadUnlock(t) BY DEF ReadLock, ReadUnlock
  <2>8. Walk(t) => pc[t] = "idle" BY DEF Walk
  <2>9. Walk(t) => pc[t] = "walk" BY DEF Walk
  <2> QED BY <1>3, <2>2, <2>3, <2>4, <2>5, <2>6, <2>7, <2>8, <2>9 DEF Thread, Step
<1> QED BY <1>1, <1>2, <1>3 DEF Next, Quiescent

(* A span in the store was there, with the same parent, or is inserted.    *)
LEMMA StoredSteps ==
  ASSUME TypeOK, [Next]_vars, NEW s \in Subscribers, NEW id \in Stored(s)'
  PROVE  \/ id \in Stored(s) /\ entries'[s][id].parent = entries[s][id].parent
         \/ \E t \in Threads :
              /\ InsertSpan(t) /\ s = sub[t] /\ id = made[t]
              /\ entries'[s][id].parent = cursor[t]
<1> USE DEF TypeOK, Stored
<1>1. CASE entries' = entries BY <1>1
<1>2. ASSUME NEW t \in Threads, InsertSpan(t)
      PROVE  \/ id \in Stored(s) /\ entries'[s][id].parent = entries[s][id].parent
             \/ s = sub[t] /\ id = made[t] /\ entries'[s][id].parent = cursor[t]
  BY <1>2 DEF InsertSpan
<1>3. ASSUME NEW r \in Subscribers, NEW x, entries' = Referenced(r, x)
      PROVE  id \in Stored(s) /\ entries'[s][id].parent = entries[s][id].parent
  BY <1>3 DEF Referenced, SpanData
<1>4. ASSUME NEW t \in Threads, CloneCurrent(t)
      PROVE  id \in Stored(s) /\ entries'[s][id].parent = entries[s][id].parent
  BY <1>3, <1>4 DEF CloneCurrent
<1>5. ASSUME NEW t \in Threads, NEW u \in Threads, NEW x \in Span, CloneSpan(t, u, x)
      PROVE  id \in Stored(s) /\ entries'[s][id].parent = entries[s][id].parent
  BY <1>3, <1>5 DEF CloneSpan, Span
<1>6. ASSUME NEW t \in Threads, EndRecord(t)
      PROVE  id \in Stored(s) /\ entries'[s][id].parent = entries[s][id].parent
  BY <1>6 DEF EndRecord, SpanData
<1>7. ASSUME NEW t \in Threads, NEW x \in Span, TryClose(t, x)
      PROVE  id \in Stored(s) /\ entries'[s][id].parent = entries[s][id].parent
  BY <1>7, SMTT(30) DEF TryClose, Closed, Restrict, SpanData
<1> QED BY <1>1, <1>2, <1>4, <1>5, <1>6, <1>7, EntrySteps

(* Where a handle comes from.                                              *)
LEMMA HandleSteps ==
  ASSUME TypeOK, [Next]_vars, NEW t \in Threads, NEW x \in Span, Holds(t, x)'
  PROVE  \/ \E u \in Threads : Holds(u, x)
         \/ (InsertSpan(t) \/ CloneCurrent(t)) /\ x = <<sub[t], made[t]>>
<1> USE DEF TypeOK, Holds, client, entered
<1>1. CASE UNCHANGED vars BY <1>1 DEF vars
<1>2. ASSUME NEW u \in Threads, InsertSpan(u) \/ CloneCurrent(u)
      PROVE  Holds(t, x) \/ (u = t /\ x = <<sub[t], made[t]>>)
  <2> DEFINE y == <<sub[u], made[u]>>
  <2>1. PICK n : handles' = [handles EXCEPT ![u][y] = n]
    BY <1>2 DEF InsertSpan, CloneCurrent
  <2>2. CASE u = t /\ x = y BY <2>2
  <2>3. CASE ~ (u = t /\ x = y)
    <3> HIDE DEF y
    <3>1. handles'[t][x] = handles[t][x] BY <2>1, <2>3
    <3> QED BY <3>1
  <2> QED BY <2>2, <2>3
<1>3. ASSUME NEW u \in Threads, NEW v \in Threads, NEW y \in Span, CloneSpan(u, v, y)
      PROVE  Holds(t, x) \/ Holds(u, x)
  BY <1>3 DEF CloneSpan
<1>4. ASSUME NEW u \in Threads, NEW y \in Span, TryClose(u, y)
      PROVE  Holds(t, x)
  BY <1>4 DEF TryClose
<1>5. CASE handles' = handles BY <1>5
<1>6. ASSUME handles' # handles,
             \A u \in Threads : ~InsertSpan(u) /\ ~CloneCurrent(u),
             \A u, v \in Threads, y \in Span : ~CloneSpan(u, v, y),
             \A u \in Threads, y \in Span : ~TryClose(u, y)
      PROVE  FALSE
  <2>1. ASSUME NEW u \in Threads PROVE ~Thread(u)
    <3>1. ~Step(u)
      BY <1>6 DEF Step, DebugReturns, EndRecord, SkipContext, ReadLock, Walk, ReadUnlock, Emit
    <3>2. ASSUME NEW r \in Subscribers
          PROVE  ~AllocateId(u, r) /\ ~CurrentSpan(u, r) /\ ~BeginEvent(u, r)
      BY <1>6 DEF AllocateId, CurrentSpan, BeginEvent
    <3>3. ASSUME NEW y \in Span
          PROVE  /\ ~TryClose(u, y) /\ ~BeginRecord(u, y) /\ ~Enter(u, y)
                 /\ \A v \in Threads : ~CloneSpan(u, v, y)
      BY <1>6 DEF BeginRecord, Enter
    <3>4. ~DebugLogs(u) /\ \A i \in 1..Len(guards[u]) : ~Exit(u, i)
      BY <1>6 DEF DebugLogs, Exit
    <3> QED BY <3>1, <3>2, <3>3, <3>4 DEF Thread
  <2> QED BY <1>1, <1>6, <2>1 DEF Next, Quiescent, vars
<1> QED BY <1>2, <1>3, <1>4, <1>5, <1>6

LEMMA PositiveIds ==
  /\ TypeOK => \A s \in Subscribers : next_span_id[s] \in Nat \ {0}
  /\ TypeOK' => \A s \in Subscribers : next_span_id'[s] \in Nat \ {0}
<1>1. \A n \in 1..MaxSpans + 1 : n \in Nat \ {0} BY SpansAssumption
<1> QED BY <1>1 DEF TypeOK

LEMMA NumberedStep ==
  ASSUME TypeOK, Making, Numbered, [Next]_vars
  PROVE  Making' /\ Numbered'
<1> USE DEF Numbered
<1>0. TypeOK' BY TypeStep
<1>1. \A s \in Subscribers : next_span_id[s] \in Nat \ {0} /\ next_span_id'[s] \in Nat \ {0}
  BY <1>0, PositiveIds
<1>2. ASSUME NEW s \in Subscribers, NEW id \in Stored(s)' PROVE id \in Known(s)'
  <2>1. CASE id \in Stored(s) BY <2>1, KnownGrows
  <2>2. ASSUME NEW t \in Threads, InsertSpan(t), s = sub[t], id = made[t]
        PROVE  id \in Known(s)
    BY <1>1, <2>2 DEF InsertSpan, Making, Known, TypeOK, Id
  <2> QED BY <2>1, <2>2, StoredSteps, KnownGrows
<1>3. ASSUME NEW t \in Threads PROVE made'[t] < next_span_id'[sub'[t]]
  <2>1. sub[t] \in Subscribers /\ sub'[t] \in Subscribers BY <1>0 DEF TypeOK
  <2>2. made[t] \in Nat /\ made'[t] \in Nat
    <3>1. \A n \in Id \union {0} : n \in Nat BY SpansAssumption DEF Id
    <3> QED BY <1>0, <3>1 DEF TypeOK
  <2>3. CASE made'[t] = made[t] /\ sub'[t] = sub[t]
    <3>1. next_span_id[sub[t]] <= next_span_id'[sub[t]] BY <2>1, KnownGrows
    <3> QED BY <1>1, <2>1, <2>2, <2>3, <3>1
  <2>4. CASE made'[t] = 0 BY <1>1, <2>1, <2>4
  <2>5. ASSUME NEW s \in Subscribers, AllocateId(t, s)
        PROVE  made'[t] < next_span_id'[sub'[t]]
    <3>1. made'[t] = next_span_id[s] /\ sub'[t] = s /\ next_span_id'[s] = next_span_id[s] + 1
      BY <2>5 DEF AllocateId, TypeOK
    <3> QED BY <1>1, <3>1
  <2>6. ASSUME NEW s \in Subscribers, CurrentSpan(t, s)
        PROVE  made'[t] < next_span_id'[sub'[t]]
    <3>1. made'[t] \in Stored(s) /\ sub'[t] = s /\ next_span_id' = next_span_id
      BY <2>6 DEF CurrentSpan, TypeOK, store
    <3> QED BY <1>1, <3>1 DEF Known
  <2>7. ASSUME NEW x \in Span, BeginRecord(t, x)
        PROVE  made'[t] < next_span_id'[sub'[t]]
    <3>1. /\ x[1] \in Subscribers /\ x[2] \in Known(x[1])
          /\ made'[t] = x[2] /\ sub'[t] = x[1] /\ next_span_id' = next_span_id
      BY <2>7 DEF BeginRecord, TypeOK, Span, store
    <3> QED BY <1>1, <3>1 DEF Known
  <2>8. ASSUME NEW s \in Subscribers, BeginEvent(t, s)
        PROVE  made'[t] < next_span_id'[sub'[t]]
    <3>1. made'[t] = 0 BY <2>8 DEF BeginEvent
    <3> QED BY <1>1, <2>1, <3>1
  <2> QED BY <2>3, <2>4, <2>5, <2>6, <2>7, <2>8, MadeSteps
<1>4. ASSUME NEW t \in Threads, pc'[t] = "idle" PROVE made'[t] = 0
  BY <1>4, IdleSteps
<1>5. ASSUME NEW t \in Threads, pc'[t] = "new" PROVE made'[t] # 0
  <2>1. ASSUME NEW s \in Subscribers, AllocateId(t, s) PROVE made'[t] # 0
    BY <1>1, <2>1 DEF AllocateId, TypeOK
  <2> QED BY <1>5, <2>1, NewSteps DEF Making
<1>6. ASSUME NEW t \in Threads, NEW x \in Span, Holds(t, x)' PROVE x[2] \in Known(x[1])'
  <2>1. x[1] \in Subscribers BY DEF Span
  <2>2. CASE \E u \in Threads : Holds(u, x) BY <2>1, <2>2, KnownGrows
  <2>3. CASE x = <<sub[t], made[t]>>
    <3>1. x[2] \in 1..MaxSpans /\ x[2] < next_span_id[x[1]] BY <2>3 DEF Span, Id
    <3>2. x[2] \in Known(x[1]) BY <1>1, <2>1, <3>1, SpansAssumption DEF Known
    <3> QED BY <2>1, <3>2, KnownGrows
  <2> QED BY <1>6, <2>2, <2>3, HandleSteps
<1>7. Making' BY <1>5 DEF Making
<1> QED BY <1>2, <1>3, <1>4, <1>6, <1>7

-----------------------------------------------------------------------------
(* Parents.                                                                *)

LEMMA RootedStep ==
  ASSUME TypeOK, Making, Numbered, Rooted, [Next]_vars
  PROVE  Rooted'
<1> SUFFICES ASSUME OneSubscriber, NEW s \in Subscribers
    PROVE  /\ \A t \in Threads :
                stack'[t] \in Seq(Known(s)') /\ (pc'[t] = "new" => cursor'[t] < made'[t])
           /\ \A id \in Stored(s)' : entries'[s][id].parent < id
  BY DEF Rooted, OneSubscriber
<1>1. /\ \A t \in Threads :
           stack[t] \in Seq(Known(s)) /\ (pc[t] = "new" => cursor[t] < made[t])
      /\ \A id \in Stored(s) : entries[s][id].parent < id
  BY DEF Rooted
<1>2. Known(s) \subseteq Known(s)' /\ next_span_id[s] \in Nat \ {0}
  BY KnownGrows, PositiveIds
<1>3. ASSUME NEW t \in Threads PROVE stack'[t] \in Seq(Known(s)')
  <2>1. stack[t] \in Seq(Known(s)) BY <1>1
  <2>2. stack'[t] \in Seq(Known(s))
    <3>1. ASSUME NEW x \in Span, Enter(t, x) PROVE stack'[t] \in Seq(Known(s))
      <4>1. x[1] = s BY OnlySubscriber DEF Span
      <4>2. x[2] \in Known(s) BY <3>1, <4>1 DEF Enter, Numbered
      <4>3. stack'[t] = Append(stack[t], x[2]) BY <3>1 DEF Enter, TypeOK
      <4> QED BY <2>1, <4>2, <4>3
    <3>2. ASSUME NEW i \in 1..Len(guards[t]), Exit(t, i) PROVE stack'[t] \in Seq(Known(s))
      <4>1. stack'[t] = Popped(stack[t], guards[t][i][2]) BY <3>2 DEF Exit, TypeOK
      <4> QED BY <2>1, <4>1, PoppedSeq
    <3>3. ASSUME NEW u \in Threads, Thread(u), u # t PROVE stack'[t] = stack[t]
      BY <3>3, Locals
    <3>4. \/ stack' = stack
          \/ \E u \in Threads : Thread(u) /\ u # t
          \/ \E x \in Span : Enter(t, x)
          \/ \E i \in 1..Len(guards[t]) : Exit(t, i)
      <4>1. Step(t) => stack' = stack
        BY DEF Step, InsertSpan, CloneCurrent, DebugReturns, EndRecord, SkipContext,
           ReadLock, Walk, ReadUnlock, Emit
      <4>2. ASSUME NEW r \in Subscribers
            PROVE  AllocateId(t, r) \/ CurrentSpan(t, r) \/ BeginEvent(t, r) => stack' = stack
        BY DEF AllocateId, CurrentSpan, BeginEvent
      <4>3. ASSUME NEW x \in Span
            PROVE  /\ TryClose(t, x) \/ BeginRecord(t, x) => stack' = stack
                   /\ \A u \in Threads : CloneSpan(t, u, x) => stack' = stack
        BY DEF TryClose, BeginRecord, CloneSpan
      <4>4. DebugLogs(t) => stack' = stack BY DEF DebugLogs
      <4>5. UNCHANGED vars => stack' = stack BY DEF vars
      <4>6. ASSUME Thread(t), stack' # stack,
                   \A x \in Span : ~Enter(t, x), \A i \in 1..Len(guards[t]) : ~Exit(t, i)
            PROVE  FALSE
        <5>1. ~Step(t) /\ ~DebugLogs(t) BY <4>1, <4>4, <4>6
        <5>2. \A r \in Subscribers : ~AllocateId(t, r) /\ ~CurrentSpan(t, r) /\ ~BeginEvent(t, r)
          BY <4>2, <4>6
        <5>3. \A x \in Span : /\ ~TryClose(t, x) /\ ~BeginRecord(t, x) /\ ~Enter(t, x)
                              /\ \A u \in Threads : ~CloneSpan(t, u, x)
          BY <4>3, <4>6
        <5> QED BY <4>6, <5>1, <5>2, <5>3 DEF Thread
      <4> QED BY <4>5, <4>6 DEF Next, Quiescent
    <3> QED BY <2>1, <3>1, <3>2, <3>3, <3>4
  <2> QED BY <1>2, <2>2
<1>4. ASSUME NEW t \in Threads, pc'[t] = "new" PROVE cursor'[t] < made'[t]
  <2>1. ASSUME NEW r \in Subscribers, AllocateId(t, r) PROVE cursor'[t] < made'[t]
    <3>1. r = s BY OnlySubscriber
    <3>2. made'[t] = next_span_id[s] /\ cursor'[t] \in ResolveParent(t, s)
      BY <2>1, <3>1 DEF AllocateId, TypeOK
    <3>3. Issued(s) \subseteq Known(s) BY DEF Issued, Known
    <3>4. Current(t) \in Known(s) \union {0}
      <4>1. stack[t] \in Seq(Known(s)) BY <1>1
      <4>2. stack[t] # <<>> => stack[t][Len(stack[t])] \in Known(s) BY <4>1
      <4> QED BY <4>2 DEF Current, Last
    <3>5. cursor'[t] \in Known(s) \union {0} BY <3>2, <3>3, <3>4 DEF ResolveParent
    <3> QED BY <1>2, <3>2, <3>5 DEF Known
  <2> QED BY <1>1, <1>4, <2>1, NewSteps
<1>5. ASSUME NEW id \in Stored(s)' PROVE entries'[s][id].parent < id
  <2>1. CASE id \in Stored(s) /\ entries'[s][id].parent = entries[s][id].parent
    BY <1>1, <2>1
  <2>2. ASSUME NEW t \in Threads, InsertSpan(t), id = made[t],
               entries'[s][id].parent = cursor[t]
        PROVE  entries'[s][id].parent < id
    BY <1>1, <2>2 DEF InsertSpan
  <2> QED BY <2>1, <2>2, StoredSteps
<1> QED BY <1>3, <1>4, <1>5

-----------------------------------------------------------------------------
(* The invariant.                                                          *)

IInv ==
  /\ TypeOK
  /\ Making /\ Numbered /\ Rooted
  /\ Locked /\ WalkChain

LEMMA InitInv == Init => IInv
<1> SUFFICES ASSUME Init PROVE IInv
  OBVIOUS
<1>1. TypeOK BY TypeInit
<1>2. \A s \in Subscribers : Stored(s) = {} BY DEF Init, Stored
<1>3. \A t \in Threads : sub[t] \in Subscribers BY <1>1 DEF TypeOK
<1>4. Making /\ Numbered BY <1>2, <1>3 DEF Init, Making, Numbered, Holds
<1>5. Rooted
  <2>1. \A s \in Subscribers : \A t \in Threads : stack[t] \in Seq(Known(s))
    BY DEF Init
  <2> QED BY <1>2, <2>1 DEF Init, Rooted
<1>6. Locked /\ WalkChain
  BY DEF Init, Locked, WalkChain, ChainFollows, ContextIsConsistent
<1> QED BY <1>1, <1>4, <1>5, <1>6 DEF IInv

LEMMA StepInv == IInv /\ [Next]_vars => IInv'
<1> SUFFICES ASSUME IInv, [Next]_vars PROVE IInv'
  OBVIOUS
<1>1. TypeOK /\ Making /\ Numbered /\ Rooted /\ Locked /\ WalkChain BY DEF IInv
<1>2. TypeOK' BY <1>1, TypeStep
<1>3. Making' /\ Numbered' BY <1>1, NumberedStep
<1>4. Rooted' BY <1>1, RootedStep
<1>5. Locked' BY <1>1, LockedStep
<1>6. WalkChain' BY <1>1, <1>2, WalkChainStep
<1> QED BY <1>2, <1>3, <1>4, <1>5, <1>6 DEF IInv

LEMMA Invariance == Spec => []IInv
BY InitInv, StepInv, PTL DEF Spec

(* Every variable keeps its type: ids in the store, on the stacks and in   *)
(* calls are ids that new_span can hand out, whoever closes, clones,       *)
(* records and enters.                                                     *)
THEOREM SpansTypeCorrect == Spec => []TypeOK
<1>1. IInv => TypeOK BY DEF IInv
<1> QED BY <1>1, Invariance, PTL

(* The span context of an event is one moment's: what build_span_context   *)
(* has copied is true of the store until it gives the read lock back,      *)
(* with any number of threads, spans and subscribers.                      *)
THEOREM ContextOfOneMoment == Spec => []ContextIsConsistent
<1>1. IInv => ContextIsConsistent BY DEF IInv, WalkChain
<1> QED BY <1>1, Invariance, PTL

(* With one subscriber every span is younger than its parent, so that no   *)
(* chain of parents is a circle and build_span_context ends.               *)
THEOREM ParentsComeFirst == Spec => []ParentsOlder
<1>1. IInv => ParentsOlder BY DEF IInv, Rooted, ParentsOlder
<1> QED BY <1>1, Invariance, PTL


-----------------------------------------------------------------------------
(* Sequences that lose an element.                                         *)

LEMMA RemovedAt ==
  ASSUME NEW S, NEW q \in Seq(S), NEW k \in 1..Len(q)
  PROVE  /\ RemoveAt(q, k) \in Seq(S)
         /\ Len(RemoveAt(q, k)) = Len(q) - 1
         /\ \A j \in 1..Len(q) - 1 :
              RemoveAt(q, k)[j] = q[IF j < k THEN j ELSE j + 1]
<1> DEFINE before == SubSeq(q, 1, k - 1)
           after  == SubSeq(q, k + 1, Len(q))
<1>1. before \in Seq(S) /\ Len(before) = k - 1 /\ \A j \in 1..k - 1 : before[j] = q[j]
  OBVIOUS
<1>2. /\ after \in Seq(S) /\ Len(after) = Len(q) - k
      /\ \A j \in 1..Len(q) - k : after[j] = q[j + k]
  OBVIOUS
<1>3. RemoveAt(q, k) = before \o after BY DEF RemoveAt
<1>4. Len(q) \in Nat OBVIOUS
<1> HIDE DEF before, after
<1>5. /\ before \o after \in Seq(S)
      /\ Len(before \o after) = Len(before) + Len(after)
      /\ \A j \in 1..Len(before) + Len(after) :
           (before \o after)[j] = IF j <= Len(before) THEN before[j]
                                 ELSE after[j - Len(before)]
  BY <1>1, <1>2, ConcatProperties
<1>6. ASSUME NEW j \in 1..Len(q) - 1
      PROVE  (before \o after)[j] = q[IF j < k THEN j ELSE j + 1]
  <2>1. CASE j < k
    <3>1. j \in 1..k - 1 /\ j \in 1..Len(before) + Len(after) BY <1>1, <1>2, <1>4, <2>1
    <3> QED BY <1>1, <1>5, <2>1, <3>1
  <2>2. CASE ~ (j < k)
    <3>1. /\ j \in 1..Len(before) + Len(after) /\ ~ (j <= Len(before))
          /\ j - Len(before) \in 1..Len(q) - k /\ j - Len(before) + k = j + 1
      BY <1>1, <1>2, <1>4, <2>2
    <3>2. (before \o after)[j] = after[j - Len(before)] BY <1>5, <3>1
    <3>3. after[j - Len(before)] = q[j + 1] BY <1>2, <3>1
    <3> QED BY <2>2, <3>2, <3>3
  <2> QED BY <2>1, <2>2
<1>7. Len(before) + Len(after) = Len(q) - 1 BY <1>1, <1>2, <1>4
<1> QED BY <1>3, <1>5, <1>6, <1>7

(* How many of some positions are left when position k is taken away.      *)
LEMMA CountRemoved ==
  ASSUME NEW n \in Nat, NEW k \in 1..n, NEW A \in SUBSET (1..n)
  PROVE  Cardinality({j \in 1..n - 1 : (IF j < k THEN j ELSE j + 1) \in A})
           = Cardinality(A) - (IF k \in A THEN 1 ELSE 0)
<1> DEFINE B == {j \in 1..n - 1 : (IF j < k THEN j ELSE j + 1) \in A}
           C == A \ {k}
           f == [i \in C |-> IF i < k THEN i ELSE i - 1]
<1>1. \A i \in C : i \in Nat /\ i # k /\ f[i] \in B OBVIOUS
<1>2. f \in [C -> B] BY <1>1
<1>3. \A i, j \in C : f[i] = f[j] => i = j BY <1>1
<1>4. \A j \in B : \E i \in C : f[i] = j
  <2> TAKE j \in B
  <2>1. CASE j < k
    <3>1. j \in C /\ f[j] = j BY <2>1
    <3> QED BY <3>1
  <2>2. CASE ~ (j < k)
    <3>1. j + 1 \in C /\ f[j + 1] = j BY <2>2
    <3> QED BY <3>1
  <2> QED BY <2>1, <2>2
<1>5. f \in Bijection(C, B)
  <2> HIDE DEF B, C, f
  <2>1. f \in Injection(C, B) BY <1>2, <1>3 DEF Injection, IsInjective
  <2>2. f \in Surjection(C, B) BY <1>2, <1>4 DEF Surjection
  <2> QED BY <2>1, <2>2 DEF Bijection
<1>6. IsFiniteSet(A)
  <2>1. IsFiniteSet(1..n) BY FS_Interval
  <2> QED BY <2>1, FS_Subset
<1>7. /\ IsFiniteSet(C)
      /\ Cardinality(C) = IF k \in A THEN Cardinality(A) - 1 ELSE Cardinality(A)
  BY <1>6, FS_RemoveElement
<1>8. Cardinality(A) \in Nat BY <1>6, FS_CardinalityType
<1>9. Cardinality(B) = Cardinality(C)
  <2> HIDE DEF B, C, f
  <2> QED BY <1>5, <1>7, FS_Bijection DEF ExistsBijection
<1> QED BY <1>7, <1>8, <1>9

(* How many there are when position n + 1 is added.                        *)
LEMMA CountAppended ==
  ASSUME NEW n \in Nat, NEW A \in SUBSET (1..n), NEW more \in BOOLEAN
  PROVE  Cardinality(A \union {i \in {n + 1} : more})
           = Cardinality(A) + (IF more THEN 1 ELSE 0)
<1>1. IsFiniteSet(A) /\ Cardinality(A) \in Nat
  <2>1. IsFiniteSet(1..n) BY FS_Interval
  <2> QED BY <2>1, FS_Subset, FS_CardinalityType
<1>2. n + 1 \notin A OBVIOUS
<1>3. CASE more
  <2>1. Cardinality(A \union {n + 1}) = Cardinality(A) + 1 BY <1>1, <1>2, FS_AddElement
  <2>2. A \union {i \in {n + 1} : more} = A \union {n + 1} BY <1>3
  <2> QED BY <1>3, <2>1, <2>2
<1>4. CASE ~more
  <2>1. A \union {i \in {n + 1} : more} = A BY <1>4
  <2> QED BY <1>1, <1>4, <2>1
<1> QED BY <1>3, <1>4


(* exit takes away the last occurrence of the id.                          *)
LEMMA PoppedLast ==
  ASSUME NEW S, NEW st \in Seq(S), NEW i \in 1..Len(st)
  PROVE  \E k \in 1..Len(st) :
           /\ st[k] = st[i]
           /\ \A j \in 1..Len(st) : st[j] = st[i] => k >= j
           /\ Popped(st, st[i]) = RemoveAt(st, k)
<1> DEFINE id == st[i]
           I == {j \in 1..Len(st) : st[j] = id}
           last == SelectLastInSeq(st, LAMBDA candidate : candidate = id)
<1>1. last = Max(I)
  <2>1. i \in I OBVIOUS
  <2> QED BY <2>1 DEF SelectLastInSeq
<1>2. Max(I) \in I /\ \A j \in I : Max(I) >= j
  <2>1. I \in SUBSET (1..Len(st)) /\ I # {} /\ Len(st) \in Nat OBVIOUS
  <2> HIDE DEF I
  <2> QED BY <2>1, LargestIndex
<1>3. Popped(st, id) = IF last = 0 THEN st ELSE RemoveAt(st, last)
  BY DEF Popped
<1> HIDE DEF last
<1>4. /\ last \in 1..Len(st) /\ st[last] = id
      /\ \A j \in 1..Len(st) : st[j] = id => last >= j
  BY <1>1, <1>2
<1> QED BY <1>3, <1>4

-----------------------------------------------------------------------------
(* The stack of a thread and its guards.                                   *)

(* As many positions of the stack hold an id as there are guards with it.  *)
Match(st, g) ==
  /\ Len(st) = Len(g)
  /\ \A id \in Id :
       Cardinality({i \in 1..Len(st) : st[i] = id})
         = Cardinality({i \in 1..Len(g) : g[i][2] = id})

LEMMA MatchedIds ==
  ASSUME NEW st \in Seq(Id), NEW g \in Seq(Span), Match(st, g), NEW id \in Id
  PROVE  (\E i \in 1..Len(st) : st[i] = id) <=> (\E i \in 1..Len(g) : g[i][2] = id)
<1> DEFINE A == {i \in 1..Len(st) : st[i] = id}
           B == {i \in 1..Len(g) : g[i][2] = id}
<1>1. IsFiniteSet(A) /\ IsFiniteSet(B)
  <2>1. IsFiniteSet(1..Len(st)) /\ IsFiniteSet(1..Len(g)) BY FS_Interval
  <2>2. A \in SUBSET (1..Len(st)) /\ B \in SUBSET (1..Len(g)) OBVIOUS
  <2> HIDE DEF A, B
  <2> QED BY <2>1, <2>2, FS_Subset
<1>2. Cardinality(A) = Cardinality(B) BY DEF Match
<1>3. A = {} <=> B = {}
  <2> HIDE DEF A, B
  <2> QED BY <1>1, <1>2, FS_EmptySet
<1> QED BY <1>3

LEMMA MatchEntered ==
  ASSUME NEW st \in Seq(Id), NEW g \in Seq(Span), Match(st, g), NEW x \in Span
  PROVE  Match(Append(st, x[2]), Append(g, x))
<1> DEFINE n == Len(st)
           st2 == Append(st, x[2])
           g2 == Append(g, x)
<1>1. n \in Nat /\ Len(g) = n BY DEF Match
<1>2. /\ Len(st2) = n + 1 /\ Len(g2) = n + 1
      /\ st2[n + 1] = x[2] /\ g2[n + 1] = x
      /\ \A i \in 1..n : st2[i] = st[i] /\ g2[i] = g[i]
  BY <1>1
<1> HIDE DEF st2, g2
<1>3. ASSUME NEW id \in Id
      PROVE  Cardinality({i \in 1..Len(st2) : st2[i] = id})
               = Cardinality({i \in 1..Len(g2) : g2[i][2] = id})
  <2> DEFINE A == {i \in 1..n : st[i] = id}
             B == {i \in 1..n : g[i][2] = id}
             more == x[2] = id
  <2>1. {i \in 1..Len(st2) : st2[i] = id} = A \union {i \in {n + 1} : more}
    BY <1>1, <1>2
  <2>2. {i \in 1..Len(g2) : g2[i][2] = id} = B \union {i \in {n + 1} : more}
    BY <1>1, <1>2
  <2>3. Cardinality(A) = Cardinality(B) BY <1>1 DEF Match
  <2>4. A \in SUBSET (1..n) /\ B \in SUBSET (1..n) /\ more \in BOOLEAN OBVIOUS
  <2> HIDE DEF A, B, more, n
  <2>5. /\ Cardinality(A \union {i \in {n + 1} : more}) = Cardinality(A) + (IF more THEN 1 ELSE 0)
        /\ Cardinality(B \union {i \in {n + 1} : more}) = Cardinality(B) + (IF more THEN 1 ELSE 0)
    BY <1>1, <2>4, CountAppended
  <2> QED BY <2>1, <2>2, <2>3, <2>5
<1> QED BY <1>2, <1>3 DEF Match, st2, g2

LEMMA MatchLeft ==
  ASSUME NEW st \in Seq(Id), NEW g \in Seq(Span), Match(st, g), NEW i \in 1..Len(g)
  PROVE  Match(Popped(st, g[i][2]), RemoveAt(g, i))
<1> DEFINE n == Len(st)
           st2 == Popped(st, g[i][2])
           g2 == RemoveAt(g, i)
<1>1. n \in Nat /\ Len(g) = n BY DEF Match
<1>2. g[i] \in Span /\ g[i][2] \in Id BY DEF Span
<1>3. PICK h \in 1..n : st[h] = g[i][2] BY <1>2, MatchedIds
<1>4. PICK k \in 1..n : st[k] = g[i][2] /\ st2 = RemoveAt(st, k)
  BY <1>3, PoppedLast
<1>5. /\ Len(st2) = n - 1
      /\ \A j \in 1..n - 1 : st2[j] = st[IF j < k THEN j ELSE j + 1]
  BY <1>4, RemovedAt
<1>6. /\ Len(g2) = n - 1
      /\ \A j \in 1..n - 1 : g2[j] = g[IF j < i THEN j ELSE j + 1]
  BY <1>1, RemovedAt
<1> HIDE DEF st2, g2
<1>7. ASSUME NEW id \in Id
      PROVE  Cardinality({j \in 1..Len(st2) : st2[j] = id})
               = Cardinality({j \in 1..Len(g2) : g2[j][2] = id})
  <2> DEFINE A == {j \in 1..n : st[j] = id}
             B == {j \in 1..n : g[j][2] = id}
  <2>1. {j \in 1..Len(st2) : st2[j] = id} = {j \in 1..n - 1 : (IF j < k THEN j ELSE j + 1) \in A}
    BY <1>1, <1>5
  <2>2. {j \in 1..Len(g2) : g2[j][2] = id} = {j \in 1..n - 1 : (IF j < i THEN j ELSE j + 1) \in B}
    BY <1>1, <1>6
  <2>3. Cardinality(A) = Cardinality(B) BY <1>1 DEF Match
  <2>4. A \in SUBSET (1..n) /\ B \in SUBSET (1..n) /\ i \in 1..n /\ (k \in A <=> i \in B)
    BY <1>1, <1>4
  <2> HIDE DEF A, B, n
  <2>5. /\ Cardinality({j \in 1..n - 1 : (IF j < k THEN j ELSE j + 1) \in A})
             = Cardinality(A) - (IF k \in A THEN 1 ELSE 0)
        /\ Cardinality({j \in 1..n - 1 : (IF j < i THEN j ELSE j + 1) \in B})
             = Cardinality(B) - (IF i \in B THEN 1 ELSE 0)
    BY <1>1, <2>4, CountRemoved
  <2> QED BY <2>1, <2>2, <2>3, <2>4, <2>5
<1> QED BY <1>5, <1>6, <1>7 DEF Match, st2, g2

-----------------------------------------------------------------------------
(* Which steps move handles, and which move guards.                        *)

LEMMA HandleMoves ==
  ASSUME [Next]_vars
  PROVE  \/ handles' = handles
         \/ \E t \in Threads : InsertSpan(t) \/ CloneCurrent(t)
         \/ \E t, u \in Threads, x \in Span : CloneSpan(t, u, x)
         \/ \E t \in Threads, x \in Span : TryClose(t, x)
<1> USE DEF client
<1> SUFFICES ASSUME handles' # handles,
                    \A t \in Threads : ~InsertSpan(t) /\ ~CloneCurrent(t),
                    \A t, u \in Threads, x \in Span : ~CloneSpan(t, u, x),
                    \A t \in Threads, x \in Span : ~TryClose(t, x)
             PROVE  FALSE
  OBVIOUS
<1>1. ASSUME NEW t \in Threads PROVE ~Thread(t)
  <2>1. ~Step(t)
    BY DEF Step, DebugReturns, EndRecord, SkipContext, ReadLock, Walk, ReadUnlock, Emit
  <2>2. ASSUME NEW s \in Subscribers
        PROVE  ~AllocateId(t, s) /\ ~CurrentSpan(t, s) /\ ~BeginEvent(t, s)
    BY DEF AllocateId, CurrentSpan, BeginEvent
  <2>3. ASSUME NEW x \in Span
        PROVE  /\ ~TryClose(t, x) /\ ~BeginRecord(t, x) /\ ~Enter(t, x)
               /\ \A u \in Threads : ~CloneSpan(t, u, x)
    BY DEF BeginRecord, Enter
  <2>4. ~DebugLogs(t) /\ \A i \in 1..Len(guards[t]) : ~Exit(t, i) BY DEF DebugLogs, Exit
  <2> QED BY <2>1, <2>2, <2>3, <2>4 DEF Thread
<1> QED BY <1>1 DEF Next, Quiescent, vars

LEMMA GuardMoves ==
  ASSUME [Next]_vars
  PROVE  \/ stack' = stack /\ guards' = guards /\ twice' = twice
         \/ \E t \in Threads, x \in Span : Enter(t, x)
         \/ \E t \in Threads : \E i \in 1..Len(guards[t]) : Exit(t, i)
<1> USE DEF client, entered
<1> SUFFICES ASSUME ~ (stack' = stack /\ guards' = guards /\ twice' = twice),
                    \A t \in Threads, x \in Span : ~Enter(t, x),
                    \A t \in Threads : \A i \in 1..Len(guards[t]) : ~Exit(t, i)
             PROVE  FALSE
  OBVIOUS
<1>1. ASSUME NEW t \in Threads PROVE ~Thread(t)
  <2>1. ~InsertSpan(t) /\ ~CloneCurrent(t) /\ ~DebugReturns(t) /\ ~EndRecord(t)
    BY DEF InsertSpan, CloneCurrent, DebugReturns, EndRecord
  <2>2. ~SkipContext(t) /\ ~ReadLock(t) /\ ~Walk(t) /\ ~ReadUnlock(t) /\ ~Emit(t)
    BY DEF SkipContext, ReadLock, Walk, ReadUnlock, Emit
  <2>3. ASSUME NEW s \in Subscribers
        PROVE  ~AllocateId(t, s) /\ ~CurrentSpan(t, s) /\ ~BeginEvent(t, s)
    BY DEF AllocateId, CurrentSpan, BeginEvent
  <2>4. ASSUME NEW x \in Span
        PROVE  /\ ~TryClose(t, x) /\ ~BeginRecord(t, x)
               /\ \A u \in Threads : ~CloneSpan(t, u, x)
    BY DEF TryClose, BeginRecord, CloneSpan
  <2>5. ~DebugLogs(t) BY DEF DebugLogs
  <2> QED BY <2>1, <2>2, <2>3, <2>4, <2>5 DEF Thread, Step
<1> QED BY <1>1 DEF Next, Quiescent, vars

LEMMA StackMatchesStep == TypeOK /\ StackMatchesGuards /\ [Next]_vars => StackMatchesGuards'
<1> SUFFICES ASSUME TypeOK, StackMatchesGuards, [Next]_vars, NEW t \in Threads
             PROVE  Match(stack'[t], guards'[t])
  BY DEF StackMatchesGuards, Match
<1>1. /\ stack[t] \in Seq(Id) /\ guards[t] \in Seq(Span)
      /\ Match(stack[t], guards[t])
  BY DEF TypeOK, StackMatchesGuards, Match
<1>2. ASSUME NEW u \in Threads, NEW x \in Span, Enter(u, x)
      PROVE  Match(stack'[t], guards'[t])
  <2>1. CASE u = t
    <3>1. stack'[t] = Append(stack[t], x[2]) /\ guards'[t] = Append(guards[t], x)
      BY <1>2, <2>1 DEF Enter, TypeOK
    <3> QED BY <1>1, <3>1, MatchEntered
  <2>2. CASE u # t
    <3>1. stack'[t] = stack[t] /\ guards'[t] = guards[t] BY <1>2, <2>2 DEF Enter, TypeOK
    <3> QED BY <1>1, <3>1
  <2> QED BY <2>1, <2>2
<1>3. ASSUME NEW u \in Threads, NEW i \in 1..Len(guards[u]), Exit(u, i)
      PROVE  Match(stack'[t], guards'[t])
  <2>1. CASE u = t
    <3>1. /\ stack'[t] = Popped(stack[t], guards[t][i][2])
          /\ guards'[t] = RemoveAt(guards[t], i)
      BY <1>3, <2>1 DEF Exit, TypeOK
    <3> QED BY <1>1, <2>1, <3>1, MatchLeft
  <2>2. CASE u # t
    <3>1. stack'[t] = stack[t] /\ guards'[t] = guards[t] BY <1>3, <2>2 DEF Exit, TypeOK
    <3> QED BY <1>1, <3>1
  <2> QED BY <2>1, <2>2
<1> QED BY <1>1, <1>2, <1>3, GuardMoves

(* A guard borrows a handle of its thread.                                 *)
Guarding == \A t \in Threads : \A i \in 1..Len(guards[t]) : Holds(t, guards[t][i])

LEMMA GuardingStep == TypeOK /\ Guarding /\ [Next]_vars => Guarding'
<1> SUFFICES ASSUME TypeOK, Guarding, [Next]_vars, NEW t \in Threads,
                    NEW i \in 1..Len(guards'[t])
             PROVE  handles'[t][guards'[t][i]] > 0
  BY DEF Guarding, Holds
<1>0. guards[t] \in Seq(Span) BY DEF TypeOK
<1>1. CASE handles' # handles
  <2>1. guards' = guards
    BY <1>1, HandleMoves DEF InsertSpan, CloneCurrent, CloneSpan, TryClose, entered
  <2> DEFINE x == guards[t][i]
  <2>2. x \in Span /\ Holds(t, x) /\ x \in Range(guards[t])
    BY <1>0, <2>1 DEF Guarding, Range
  <2> HIDE DEF x
  <2>3. handles'[t][x] > 0
    <3> USE DEF TypeOK, Holds
    <3>1. ASSUME NEW u \in Threads, InsertSpan(u) PROVE handles'[t][x] > 0
      BY <2>2, <3>1 DEF InsertSpan
    <3>2. ASSUME NEW u \in Threads, CloneCurrent(u) PROVE handles'[t][x] > 0
      <4> DEFINE y == <<sub[u], made[u]>>
      <4>1. handles' = [handles EXCEPT ![u][y] = @ + 1] BY <3>2 DEF CloneCurrent
      <4> HIDE DEF y
      <4> QED BY <2>2, <4>1
    <3>3. ASSUME NEW u \in Threads, NEW v \in Threads, NEW y \in Span, CloneSpan(u, v, y)
          PROVE  handles'[t][x] > 0
      BY <2>2, <3>3 DEF CloneSpan
    <3>4. ASSUME NEW u \in Threads, NEW y \in Span, TryClose(u, y)
          PROVE  handles'[t][x] > 0
      BY <2>2, <3>4 DEF TryClose, Borrowed
    <3> QED BY <1>1, <3>1, <3>2, <3>3, <3>4, HandleMoves
  <2> QED BY <2>1, <2>3 DEF x
<1>2. CASE handles' = handles
  <2>1. ASSUME NEW u \in Threads, NEW x \in Span, Enter(u, x) PROVE Holds(t, guards'[t][i])
    <3>1. CASE u = t
      <4>1. guards'[t] = Append(guards[t], x) BY <2>1, <3>1 DEF Enter, TypeOK
      <4>2. i \in 1..Len(guards[t]) \/ guards'[t][i] = x BY <1>0, <4>1
      <4>3. i \in 1..Len(guards[t]) => guards'[t][i] = guards[t][i] BY <1>0, <4>1
      <4> QED BY <2>1, <3>1, <4>2, <4>3 DEF Guarding, Enter
    <3>2. CASE u # t BY <2>1, <3>2 DEF Enter, TypeOK, Guarding
    <3> QED BY <3>1, <3>2
  <2>2. ASSUME NEW u \in Threads, NEW k \in 1..Len(guards[u]), Exit(u, k)
        PROVE  Holds(t, guards'[t][i])
    <3>1. CASE u = t
      <4>1. guards'[t] = RemoveAt(guards[t], k) BY <2>2, <3>1 DEF Exit, TypeOK
      <4>2. /\ i \in 1..Len(guards[t]) - 1
            /\ guards'[t][i] = guards[t][IF i < k THEN i ELSE i + 1]
        BY <1>0, <3>1, <4>1, RemovedAt
      <4>3. (IF i < k THEN i ELSE i + 1) \in 1..Len(guards[t]) BY <1>0, <4>2
      <4> QED BY <4>2, <4>3 DEF Guarding
    <3>2. CASE u # t BY <2>2, <3>2 DEF Exit, TypeOK, Guarding
    <3> QED BY <3>1, <3>2
  <2>3. guards' = guards => Holds(t, guards'[t][i]) BY DEF Guarding
  <2> QED BY <1>2, <2>1, <2>2, <2>3, GuardMoves DEF Holds
<1> QED BY <1>1, <1>2

-----------------------------------------------------------------------------
(* Counting the handles of a span.                                         *)

LEMMA HandlesPairs ==
  ASSUME TypeOK, NEW x \in Span, NEW p
  PROVE  p \in HandlesOf(x) <=>
           \E t \in Threads : \E n \in 1..handles[t][x] : p = <<t, n>>
BY DEF HandlesOf

LEMMA HandlesFinite ==
  ASSUME TypeOK, NEW x \in Span
  PROVE  IsFiniteSet(HandlesOf(x))
<1> DEFINE own == [t \in Threads |-> {t} \X (1..handles[t][x])]
           all == {own[t] : t \in Threads}
<1>1. \A S \in all : IsFiniteSet(S)
  <2> SUFFICES ASSUME NEW t \in Threads PROVE IsFiniteSet({t} \X (1..handles[t][x]))
    OBVIOUS
  <2>1. handles[t][x] \in Nat BY DEF TypeOK
  <2>2. IsFiniteSet({t}) BY FS_Singleton
  <2>3. IsFiniteSet(1..handles[t][x]) BY <2>1, FS_Interval
  <2> QED BY <2>2, <2>3, FS_Product
<1>2. IsFiniteSet(all)
  <2>1. own \in Surjection(Threads, all) BY DEF Surjection
  <2>2. IsFiniteSet(Threads) BY SpansAssumption
  <2> HIDE DEF own, all
  <2> QED BY <2>1, <2>2, FS_Surjection
<1>3. HandlesOf(x) = UNION all BY DEF HandlesOf
<1> HIDE DEF all
<1> QED BY <1>1, <1>2, <1>3, FS_UNION

LEMMA NoReference ==
  ASSUME TypeOK, NEW x \in Span
  PROVE  /\ References(x) \in Nat
         /\ References(x) = 0 <=> \A t \in Threads : ~Holds(t, x)
<1>1. IsFiniteSet(HandlesOf(x)) BY HandlesFinite
<1>2. References(x) \in Nat /\ (References(x) = 0 <=> HandlesOf(x) = {})
  BY <1>1, FS_CardinalityType, FS_EmptySet DEF References
<1>3. HandlesOf(x) = {} <=> \A t \in Threads : ~Holds(t, x)
  <2>1. \A t \in Threads : handles[t][x] \in Nat BY DEF TypeOK
  <2>2. ASSUME HandlesOf(x) = {}, NEW t \in Threads PROVE ~Holds(t, x)
    <3>1. <<t, 1>> \notin HandlesOf(x) BY <2>2
    <3>2. 1 \notin 1..handles[t][x] BY <3>1, HandlesPairs
    <3> QED BY <2>1, <3>2 DEF Holds
  <2>3. ASSUME \A t \in Threads : ~Holds(t, x) PROVE HandlesOf(x) = {}
    <3>1. \A t \in Threads : 1..handles[t][x] = {} BY <2>1, <2>3 DEF Holds
    <3> QED BY <3>1 DEF HandlesOf
  <2> QED BY <2>2, <2>3
<1> QED BY <1>2, <1>3

LEMMA HandleAdded ==
  ASSUME TypeOK, NEW u \in Threads, NEW x \in Span,
         handles' = [handles EXCEPT ![u][x] = handles[u][x] + 1]
  PROVE  /\ References(x)' = References(x) + 1
         /\ \A y \in Span : y # x => References(y)' = References(y)
<1>1. \A t \in Threads : \A y \in Span : handles[t][y] \in Nat BY DEF TypeOK
<1>2. \A t \in Threads : \A y \in Span :
        handles'[t][y] = IF t = u /\ y = x THEN handles[u][x] + 1 ELSE handles[t][y]
  BY DEF TypeOK
<1> DEFINE p == <<u, handles[u][x] + 1>>
<1>3. p \notin HandlesOf(x) BY <1>1, HandlesPairs
<1>4. HandlesOf(x)' = HandlesOf(x) \union {p}
  <2>1. (1..handles'[u][x]) = (1..handles[u][x]) \union {handles[u][x] + 1} BY <1>1, <1>2
  <2>2. \A t \in Threads : t # u => handles'[t][x] = handles[t][x] BY <1>2
  <2>3. HandlesOf(x)' = UNION {{t} \X (1..handles'[t][x]) : t \in Threads}
    BY DEF HandlesOf
  <2>4. {u} \X (1..handles'[u][x]) = ({u} \X (1..handles[u][x])) \union {p} BY <2>1
  <2>5. ASSUME NEW q
        PROVE  (\E t \in Threads : q \in {t} \X (1..handles'[t][x]))
                 <=> (\E t \in Threads : q \in {t} \X (1..handles[t][x])) \/ q = p
    BY <2>2, <2>4
  <2> QED BY <2>3, <2>5 DEF HandlesOf
<1>5. \A y \in Span : y # x => HandlesOf(y)' = HandlesOf(y)
  BY <1>2 DEF HandlesOf
<1>6. IsFiniteSet(HandlesOf(x)) BY HandlesFinite
<1>7. Cardinality(HandlesOf(x) \union {p}) = References(x) + 1
  BY <1>3, <1>6, FS_AddElement DEF References
<1> QED BY <1>4, <1>5, <1>7 DEF References

LEMMA HandleDropped ==
  ASSUME TypeOK, NEW u \in Threads, NEW x \in Span, Holds(u, x),
         handles' = [handles EXCEPT ![u][x] = handles[u][x] - 1]
  PROVE  /\ References(x)' = References(x) - 1
         /\ \A y \in Span : y # x => References(y)' = References(y)
<1>1. \A t \in Threads : \A y \in Span : handles[t][y] \in Nat BY DEF TypeOK
<1>2. \A t \in Threads : \A y \in Span :
        handles'[t][y] = IF t = u /\ y = x THEN handles[u][x] - 1 ELSE handles[t][y]
  BY DEF TypeOK
<1> DEFINE p == <<u, handles[u][x]>>
<1>3. p \in HandlesOf(x) BY <1>1, HandlesPairs DEF Holds
<1>4. HandlesOf(x)' = HandlesOf(x) \ {p}
  <2>1. (1..handles'[u][x]) = (1..handles[u][x]) \ {handles[u][x]} BY <1>1, <1>2 DEF Holds
  <2>2. \A t \in Threads : t # u => handles'[t][x] = handles[t][x] BY <1>2
  <2>3. HandlesOf(x)' = UNION {{t} \X (1..handles'[t][x]) : t \in Threads}
    BY DEF HandlesOf
  <2>4. {u} \X (1..handles'[u][x]) = ({u} \X (1..handles[u][x])) \ {p} BY <2>1
  <2>5. ASSUME NEW q
        PROVE  (\E t \in Threads : q \in {t} \X (1..handles'[t][x]))
                 <=> (\E t \in Threads : q \in {t} \X (1..handles[t][x])) /\ q # p
    BY <2>2, <2>4
  <2> QED BY <2>3, <2>5 DEF HandlesOf
<1>5. \A y \in Span : y # x => HandlesOf(y)' = HandlesOf(y)
  BY <1>2 DEF HandlesOf
<1>6. IsFiniteSet(HandlesOf(x)) BY HandlesFinite
<1>7. Cardinality(HandlesOf(x) \ {p}) = References(x) - 1
  BY <1>3, <1>6, FS_RemoveElement DEF References
<1> QED BY <1>4, <1>5, <1>7 DEF References

-----------------------------------------------------------------------------
(* Ids in use.                                                             *)

(* Every id that is stored, held or on its way into a handle was given out *)
(* and its span inserted; a span in the making has an id of its own.       *)
Issuance ==
  /\ \A s \in Subscribers : Stored(s) \subseteq Issued(s)
  /\ \A t \in Threads : \A x \in Span : Holds(t, x) => x[2] \in Issued(x[1])
  /\ \A t \in Threads : \A s \in Subscribers :
       pc[t] = "current" /\ sub[t] = s => made[t] \in Issued(s)
  /\ \A t, u \in Threads :
       pc[t] = "new" /\ pc[u] = "new" /\ sub[t] = sub[u] /\ made[t] = made[u] => t = u

LEMMA InIssued ==
  ASSUME NEW s \in Subscribers, NEW id
  PROVE  id \in Issued(s) <=>
           /\ id \in Known(s)
           /\ \A u \in Threads : pc[u] = "new" /\ sub[u] = s => made[u] # id
BY DEF Issued, Known

LEMMA InIssuedAfter ==
  ASSUME NEW s \in Subscribers, NEW id
  PROVE  id \in Issued(s)' <=>
           /\ id \in Known(s)'
           /\ \A u \in Threads : pc'[u] = "new" /\ sub'[u] = s => made'[u] # id
BY DEF Issued, Known

(* An id once in use can always be named.                                  *)
LEMMA IssuedGrows ==
  ASSUME TypeOK, [Next]_vars, NEW s \in Subscribers
  PROVE  Issued(s) \subseteq Issued(s)'
<1> SUFFICES ASSUME NEW id \in Issued(s) PROVE id \in Issued(s)'
  OBVIOUS
<1>1. id \in Known(s) /\ id \in Known(s)' BY InIssued, KnownGrows
<1>2. ASSUME NEW u \in Threads, pc'[u] = "new", sub'[u] = s PROVE made'[u] # id
  <2>1. ASSUME NEW r \in Subscribers, AllocateId(u, r) PROVE made'[u] # id
    <3>1. r = s /\ made'[u] = next_span_id[s] BY <1>2, <2>1 DEF AllocateId, TypeOK
    <3>2. next_span_id[s] \in Nat \ {0} BY PositiveIds
    <3> QED BY <1>1, <3>1, <3>2 DEF Known
  <2>2. CASE pc[u] = "new" /\ sub'[u] = sub[u] /\ made'[u] = made[u]
    BY <1>2, <2>2, InIssued
  <2> QED BY <1>2, <2>1, <2>2, NewSteps
<1> QED BY <1>1, <1>2, InIssuedAfter

(* The span that new_span inserts has not been in use before, and is now.  *)
LEMMA InsertedIsFresh ==
  ASSUME TypeOK, TypeOK', Making, Numbered, Issuance, [Next]_vars,
         NEW t \in Threads, InsertSpan(t), NEW s \in Subscribers, sub[t] = s,
         NEW id, made[t] = id
  PROVE  id \in Id /\ id \notin Issued(s) /\ id \in Issued(s)'
<1>1. id \in Id /\ pc[t] = "new" BY DEF TypeOK, Making, InsertSpan
<1>2. id \notin Issued(s) BY <1>1, InIssued
<1>3. id \in Known(s)
  <2>1. next_span_id[s] \in Nat /\ id \in Nat \ {0}
    BY <1>1, PositiveIds, SpansAssumption DEF Id
  <2> QED BY <2>1 DEF Numbered, Known
<1>4. id \in Known(s)' BY <1>3, KnownGrows
<1>5. ASSUME NEW u \in Threads, pc'[u] = "new", sub'[u] = s PROVE made'[u] # id
  <2>1. u # t BY <1>5 DEF InsertSpan, Return, TypeOK
  <2>2. pc[u] = "new" /\ sub'[u] = sub[u] /\ made'[u] = made[u]
    BY <1>5, <2>1 DEF InsertSpan, Return, TypeOK
  <2> QED BY <1>1, <1>5, <2>1, <2>2 DEF Issuance
<1> QED BY <1>1, <1>2, <1>4, <1>5, InIssuedAfter

(* A thread that asks for the current span was asking, or has found it.    *)
LEMMA CurrentSteps ==
  ASSUME TypeOK, [Next]_vars, NEW t \in Threads, pc'[t] = "current"
  PROVE  \/ \E s \in Subscribers : CurrentSpan(t, s)
         \/ pc[t] = "current" /\ sub'[t] = sub[t] /\ made'[t] = made[t]
<1>1. CASE UNCHANGED vars BY <1>1 DEF vars, call
<1>2. ASSUME NEW u \in Threads, Thread(u), u # t
      PROVE  pc[t] = "current" /\ sub'[t] = sub[t] /\ made'[t] = made[t]
  BY <1>2, Locals
<1>3. CASE Thread(t)
  <2> USE DEF TypeOK
  <2>1. ~Return(t) BY DEF Return
  <2>2. ASSUME NEW s \in Subscribers PROVE ~AllocateId(t, s) /\ ~BeginEvent(t, s)
    BY DEF AllocateId, BeginEvent
  <2>3. ~InsertSpan(t) /\ ~CloneCurrent(t) /\ ~EndRecord(t) /\ ~Emit(t)
    BY <2>1 DEF InsertSpan, CloneCurrent, EndRecord, Emit
  <2>4. ASSUME NEW x \in Span
        PROVE  /\ \A u \in Threads : ~CloneSpan(t, u, x)
               /\ ~TryClose(t, x) /\ ~BeginRecord(t, x) /\ ~Enter(t, x)
    BY DEF CloneSpan, TryClose, BeginRecord, Enter, call
  <2>5. \A i \in 1..Len(guards[t]) : ~Exit(t, i) BY DEF Exit, call
  <2>6. ~DebugLogs(t) /\ ~DebugReturns(t) /\ ~SkipContext(t)
    BY DEF DebugLogs, DebugReturns, SkipContext
  <2>7. ~ReadLock(t) /\ ~Walk(t) /\ ~ReadUnlock(t)
    BY DEF ReadLock, Walk, ReadUnlock
  <2> QED BY <1>3, <2>2, <2>3, <2>4, <2>5, <2>6, <2>7 DEF Thread, Step
<1> QED BY <1>1, <1>2, <1>3 DEF Next, Quiescent

LEMMA IssuanceStep ==
  ASSUME TypeOK, TypeOK', Making, Numbered, Issuance, [Next]_vars
  PROVE  Issuance'
<1>1. ASSUME NEW s \in Subscribers, NEW id \in Stored(s)' PROVE id \in Issued(s)'
  <2>1. CASE id \in Stored(s) BY <2>1, IssuedGrows DEF Issuance
  <2>2. ASSUME NEW t \in Threads, InsertSpan(t), s = sub[t], id = made[t]
        PROVE  id \in Issued(s)'
    BY <2>2, InsertedIsFresh
  <2> QED BY <2>1, <2>2, StoredSteps
<1>2. ASSUME NEW t \in Threads, NEW x \in Span, Holds(t, x)' PROVE x[2] \in Issued(x[1])'
  <2>1. x[1] \in Subscribers BY DEF Span
  <2>2. CASE \E u \in Threads : Holds(u, x) BY <2>1, <2>2, IssuedGrows DEF Issuance
  <2>3. CASE InsertSpan(t) /\ x = <<sub[t], made[t]>>
    <3>1. sub[t] = x[1] /\ made[t] = x[2] BY <2>3
    <3> QED BY <2>1, <2>3, <3>1, InsertedIsFresh
  <2>4. CASE CloneCurrent(t) /\ x = <<sub[t], made[t]>>
    <3>1. x[2] \in Issued(x[1]) BY <2>1, <2>4 DEF CloneCurrent, Issuance
    <3> QED BY <2>1, <3>1, IssuedGrows
  <2> QED BY <1>2, <2>2, <2>3, <2>4, HandleSteps
<1>3. ASSUME NEW t \in Threads, NEW s \in Subscribers, pc'[t] = "current", sub'[t] = s
      PROVE  made'[t] \in Issued(s)'
  <2>1. ASSUME NEW r \in Subscribers, CurrentSpan(t, r) PROVE made'[t] \in Issued(s)
    <3>1. made'[t] \in Stored(r) /\ sub'[t] = r BY <2>1 DEF CurrentSpan, TypeOK
    <3> QED BY <1>3, <3>1 DEF Issuance
  <2>2. CASE pc[t] = "current" /\ sub'[t] = sub[t] /\ made'[t] = made[t]
    <3>1. pc[t] = "current" /\ sub[t] = s BY <1>3, <2>2
    <3>2. made[t] \in Issued(s) BY <3>1 DEF Issuance
    <3> QED BY <2>2, <3>2, IssuedGrows
  <2> QED BY <1>3, <2>1, <2>2, CurrentSteps, IssuedGrows
<1>4. ASSUME NEW t \in Threads, NEW u \in Threads, pc'[t] = "new", pc'[u] = "new",
             sub'[t] = sub'[u], made'[t] = made'[u], t # u
      PROVE  FALSE
  <2>1. ASSUME NEW v \in Threads, NEW w \in Threads, v # w, pc'[w] = "new",
               sub'[v] = sub'[w], NEW r \in Subscribers, AllocateId(v, r)
        PROVE  made'[v] # made'[w]
    <3>1. /\ sub'[v] = r /\ made'[v] = next_span_id[r]
          /\ pc[w] = "new" /\ sub'[w] = sub[w] /\ made'[w] = made[w]
      BY <2>1 DEF AllocateId, TypeOK
    <3>2. made[w] < next_span_id[r] BY <2>1, <3>1 DEF Numbered
    <3>3. made[w] \in Nat /\ next_span_id[r] \in Nat
      <4>1. \A n \in Id \union {0} : n \in Nat BY SpansAssumption DEF Id
      <4> QED BY <4>1, PositiveIds DEF TypeOK
    <3> QED BY <3>1, <3>2, <3>3
  <2>2. CASE \E r \in Subscribers : AllocateId(t, r) \/ AllocateId(u, r)
    BY <1>4, <2>1, <2>2
  <2>3. CASE \A r \in Subscribers : ~AllocateId(t, r) /\ ~AllocateId(u, r)
    <3>1. /\ pc[t] = "new" /\ sub'[t] = sub[t] /\ made'[t] = made[t]
          /\ pc[u] = "new" /\ sub'[u] = sub[u] /\ made'[u] = made[u]
      BY <1>4, <2>3, NewSteps
    <3> QED BY <1>4, <3>1 DEF Issuance
  <2> QED BY <2>2, <2>3
<1> QED BY <1>1, <1>2, <1>3, <1>4 DEF Issuance

-----------------------------------------------------------------------------
(* A store of one subscriber holds what is referenced.                     *)

LEMMA StackHeld ==
  ASSUME TypeOK, OneSubscriber, StackMatchesGuards, Guarding,
         NEW t \in Threads, NEW s \in Subscribers, NEW k \in 1..Len(stack[t])
  PROVE  <<s, stack[t][k]>> \in Span /\ Holds(t, <<s, stack[t][k]>>)
<1>1. /\ stack[t] \in Seq(Id) /\ guards[t] \in Seq(Span)
      /\ Match(stack[t], guards[t])
  BY DEF TypeOK, StackMatchesGuards, Match
<1>2. stack[t][k] \in Id BY <1>1
<1>3. PICK i \in 1..Len(guards[t]) : guards[t][i][2] = stack[t][k]
  BY <1>1, <1>2, MatchedIds
<1>4. guards[t][i] \in Span BY <1>1
<1>5. guards[t][i][1] = s BY <1>4, OnlySubscriber DEF Span
<1>6. guards[t][i] = <<s, stack[t][k]>> BY <1>3, <1>4, <1>5 DEF Span
<1> QED BY <1>4, <1>6 DEF Guarding

(* The current span of a thread that has guards is held by the thread.     *)
LEMMA CurrentIsHeld ==
  ASSUME TypeOK, OneSubscriber, StackMatchesGuards, Guarding,
         NEW t \in Threads, NEW s \in Subscribers, stack[t] # <<>>
  PROVE  <<s, Current(t)>> \in Span /\ Holds(t, <<s, Current(t)>>)
<1>1. stack[t] \in Seq(Id) BY DEF TypeOK
<1>2. Len(stack[t]) \in 1..Len(stack[t]) BY <1>1
<1> QED BY <1>2, StackHeld DEF Current, Last

(* A thread that is about to clone the current span has a handle of it.    *)
FoundIsHeld ==
  OneSubscriber =>
    \A t \in Threads : \A x \in Span :
      pc[t] = "current" /\ x = <<sub[t], made[t]>> => Holds(t, x)

LEMMA FoundIsHeldStep ==
  ASSUME TypeOK, StackMatchesGuards, Guarding, FoundIsHeld, [Next]_vars
  PROVE  FoundIsHeld'
<1> SUFFICES ASSUME OneSubscriber, NEW t \in Threads, NEW x \in Span,
                    pc'[t] = "current", x = <<sub'[t], made'[t]>>
             PROVE  handles'[t][x] > 0
  BY DEF FoundIsHeld, Holds, OneSubscriber
<1>1. ASSUME NEW s \in Subscribers, CurrentSpan(t, s) PROVE handles'[t][x] > 0
  <2>1. handles' = handles /\ x = <<s, Current(t)>>
    BY <1>1 DEF CurrentSpan, TypeOK, client
  <2>2. x[2] # 0 BY DEF Span, Id
  <2>3. stack[t] # <<>> BY <2>1, <2>2 DEF Current
  <2> QED BY <2>1, <2>3, CurrentIsHeld DEF Holds
<1>2. CASE pc[t] = "current" /\ sub'[t] = sub[t] /\ made'[t] = made[t]
  <2>1. handles[t][x] > 0 BY <1>2 DEF FoundIsHeld, Holds
  <2> USE DEF TypeOK
  <2>2. ASSUME NEW u \in Threads, InsertSpan(u) PROVE handles'[t][x] > 0
    BY <2>1, <2>2 DEF InsertSpan
  <2>3. ASSUME NEW u \in Threads, CloneCurrent(u) PROVE handles'[t][x] > 0
    <3> DEFINE y == <<sub[u], made[u]>>
    <3>1. handles' = [handles EXCEPT ![u][y] = @ + 1] BY <2>3 DEF CloneCurrent
    <3> HIDE DEF y
    <3>2. handles'[t][x] \in {handles[t][x], handles[t][x] + 1} BY <3>1
    <3>3. handles[t][x] \in Nat OBVIOUS
    <3> QED BY <2>1, <3>2, <3>3
  <2>4. ASSUME NEW u \in Threads, NEW v \in Threads, NEW y \in Span, CloneSpan(u, v, y)
        PROVE  handles'[t][x] > 0
    BY <2>1, <2>4 DEF CloneSpan
  <2>5. ASSUME NEW u \in Threads, NEW y \in Span, TryClose(u, y)
        PROVE  handles'[t][x] > 0
    <3>1. u # t BY <1>2, <2>5 DEF TryClose
    <3> QED BY <2>1, <2>5, <3>1 DEF TryClose
  <2> QED BY <2>1, <2>2, <2>3, <2>4, <2>5, HandleMoves
<1> QED BY <1>1, <1>2, CurrentSteps

(* What the count of a span's references makes of its entry.               *)
Accounted(s, id) ==
  IF References(<<s, id>>) = 0
  THEN id \notin Stored(s)
  ELSE id \in Stored(s) /\ entries[s][id].refs = References(<<s, id>>)

LEMMA AccountedAfter ==
  ASSUME NEW s \in Subscribers, NEW id \in Id
  PROVE  Accounted(s, id)' <=>
           (IF References(<<s, id>>)' = 0
            THEN id \notin Stored(s)'
            ELSE id \in Stored(s)' /\ entries'[s][id].refs = References(<<s, id>>)')
BY DEF Accounted

LEMMA AccountedInsert ==
  ASSUME TypeOK, Making, Issuance, NEW t \in Threads, InsertSpan(t),
         NEW s \in Subscribers, s = sub[t], NEW new, new = made[t],
         NEW id \in Id, Accounted(s, id)
  PROVE  Accounted(s, id)'
<1> DEFINE x == <<s, new>>
<1>1. x \in Span /\ new \in Id /\ pc[t] = "new" BY DEF TypeOK, Making, InsertSpan, Span
<1>2. new \notin Issued(s) BY <1>1, InIssued
<1>3. \A u \in Threads : ~Holds(u, x) BY <1>1, <1>2 DEF Issuance
<1>4. References(x) = 0 BY <1>1, <1>3, NoReference
<1>5. handles' = [handles EXCEPT ![t][x] = handles[t][x] + 1]
  <2>1. handles' = [handles EXCEPT ![t][x] = 1] BY DEF InsertSpan
  <2> HIDE DEF x
  <2>2. handles[t][x] = 0 BY <1>1, <1>3 DEF TypeOK, Holds
  <2>3. handles[t][x] + 1 = 1 BY <2>2
  <2> QED BY <2>1, <2>3
<1>6. /\ References(x)' = References(x) + 1
      /\ \A y \in Span : y # x => References(y)' = References(y)
  <2> HIDE DEF x
  <2> QED BY <1>1, <1>5, HandleAdded
<1>7. entries'[s] = [i \in Stored(s) \union {new} |->
          IF i = new THEN [parent |-> cursor[t], refs |-> 1, fields |-> 0]
          ELSE entries[s][i]]
  BY DEF InsertSpan, TypeOK
<1>8. /\ Stored(s)' = Stored(s) \union {new}
      /\ entries'[s][new].refs = 1
      /\ id # new /\ id \in Stored(s) => entries'[s][id] = entries[s][id]
  BY <1>7 DEF Stored
<1> HIDE DEF x
<1>9. CASE id = new
  <2>1. <<s, id>> = x BY <1>9 DEF x
  <2>2. References(<<s, id>>)' = 1 BY <1>4, <1>6, <2>1
  <2> QED BY <1>8, <1>9, <2>2, AccountedAfter
<1>10. CASE id # new
  <2>1. <<s, id>> # x /\ <<s, id>> \in Span BY <1>10 DEF x, Span
  <2>2. References(<<s, id>>)' = References(<<s, id>>) BY <1>6, <2>1
  <2>3. Accounted(s, id) OBVIOUS
  <2> QED BY <1>8, <1>10, <2>2, <2>3, AccountedAfter DEF Accounted
<1> QED BY <1>9, <1>10

LEMMA AccountedClone ==
  ASSUME TypeOK, NEW u \in Threads, NEW x \in Span, \E t \in Threads : Holds(t, x),
         entries' = Referenced(x[1], x[2]),
         handles' = [handles EXCEPT ![u][x] = handles[u][x] + 1],
         NEW s \in Subscribers, s = x[1], NEW id \in Id, Accounted(s, id),
         Accounted(x[1], x[2])
  PROVE  Accounted(s, id)'
<1>1. x[2] \in Id /\ x = <<s, x[2]>> BY DEF Span
<1>2. /\ References(x)' = References(x) + 1
      /\ \A y \in Span : y # x => References(y)' = References(y)
  BY HandleAdded
<1>3. References(x) \in Nat /\ References(x) # 0 BY NoReference
<1>4. x[2] \in Stored(s) /\ entries[s][x[2]].refs = References(x)
  BY <1>1, <1>3 DEF Accounted
<1>5. entries' = [entries EXCEPT ![s][x[2]].refs = @ + 1] BY <1>4 DEF Referenced
<1>6. s \in DOMAIN entries /\ entries[s] \in [Stored(s) -> SpanData] BY DEF TypeOK
<1>7. /\ Stored(s)' = Stored(s)
      /\ entries'[s][x[2]].refs = entries[s][x[2]].refs + 1
      /\ id # x[2] => entries'[s][id] = entries[s][id]
  BY <1>4, <1>5, <1>6 DEF Stored, SpanData
<1>8. CASE id = x[2]
  <2>1. References(<<s, id>>)' = References(x) + 1 BY <1>1, <1>2, <1>8
  <2> QED BY <1>3, <1>4, <1>7, <1>8, <2>1, AccountedAfter
<1>9. CASE id # x[2]
  <2>1. <<s, id>> # x /\ <<s, id>> \in Span BY <1>1, <1>9 DEF Span
  <2>2. References(<<s, id>>)' = References(<<s, id>>) BY <1>2, <2>1
  <2>3. Accounted(s, id) OBVIOUS
  <2> QED BY <1>7, <1>9, <2>2, <2>3, AccountedAfter DEF Accounted
<1> QED BY <1>8, <1>9

LEMMA AccountedClose ==
  ASSUME TypeOK, NEW t \in Threads, NEW x \in Span, TryClose(t, x),
         NEW s \in Subscribers, s = x[1], NEW id \in Id, Accounted(s, id),
         Accounted(x[1], x[2])
  PROVE  Accounted(s, id)'
<1>1. x[2] \in Id /\ x = <<s, x[2]>> BY DEF Span
<1>2. Holds(t, x) /\ handles' = [handles EXCEPT ![t][x] = handles[t][x] - 1]
  BY DEF TryClose
<1>3. /\ References(x)' = References(x) - 1
      /\ \A y \in Span : y # x => References(y)' = References(y)
  BY <1>2, HandleDropped
<1>4. References(x) \in Nat /\ References(x) # 0 BY <1>2, NoReference
<1>5. x[2] \in Stored(s) /\ entries[s][x[2]].refs = References(x)
  BY <1>1, <1>4 DEF Accounted
<1>6. s \in DOMAIN entries /\ entries[s] \in [Stored(s) -> SpanData] BY DEF TypeOK
<1>7. entries' = Closed(s, x[2]) BY DEF TryClose
<1>8. CASE id # x[2]
  <2>1. <<s, id>> # x /\ <<s, id>> \in Span BY <1>1, <1>8 DEF Span
  <2>2. References(<<s, id>>)' = References(<<s, id>>) BY <1>3, <2>1
  <2>3. (id \in Stored(s)' <=> id \in Stored(s))
        /\ (id \in Stored(s) => entries'[s][id] = entries[s][id])
    BY <1>6, <1>7, <1>8 DEF Closed, Stored, Restrict, SpanData
  <2>4. Accounted(s, id) OBVIOUS
  <2> QED BY <2>2, <2>3, <2>4, AccountedAfter DEF Accounted
<1>9. CASE id = x[2] /\ References(x) = 1
  <2>1. References(<<s, id>>)' = 0 BY <1>1, <1>3, <1>9
  <2>2. entries' = [entries EXCEPT ![s] = Restrict(@, Stored(s) \ {id})]
    BY <1>5, <1>7, <1>9 DEF Closed
  <2>3. id \notin Stored(s)' BY <1>6, <2>2 DEF Stored, Restrict
  <2> QED BY <2>1, <2>3, AccountedAfter
<1>10. CASE id = x[2] /\ References(x) # 1
  <2>1. References(<<s, id>>)' = References(x) - 1 BY <1>1, <1>3, <1>10
  <2>2. entries' = [entries EXCEPT ![s][id].refs = @ - 1]
    <3>1. entries[s][id].refs > 1 BY <1>4, <1>5, <1>10
    <3> QED BY <1>5, <1>7, <1>10, <3>1 DEF Closed
  <2>3. id \in Stored(s)' /\ entries'[s][id].refs = entries[s][id].refs - 1
    BY <1>5, <1>6, <1>10, <2>2 DEF Stored, SpanData
  <2> QED BY <1>4, <1>5, <1>10, <2>1, <2>3, AccountedAfter
<1> QED BY <1>8, <1>9, <1>10

LEMMA StoredStep ==
  ASSUME TypeOK, Making, Issuance, FoundIsHeld, StoredWhileReferenced, [Next]_vars
  PROVE  StoredWhileReferenced'
<1> SUFFICES ASSUME OneSubscriber, NEW s \in Subscribers, NEW id \in Id
             PROVE  Accounted(s, id)'
  BY DEF StoredWhileReferenced, Accounted, OneSubscriber
<1>1. \A i \in Id : Accounted(s, i) BY DEF StoredWhileReferenced, Accounted
<1>2. \A x \in Span : x[1] = s /\ x[2] \in Id BY OnlySubscriber DEF Span
<1>3. \A t \in Threads : sub[t] = s BY OnlySubscriber DEF TypeOK
<1>4. ASSUME NEW t \in Threads, InsertSpan(t) PROVE Accounted(s, id)'
  BY <1>1, <1>3, <1>4, AccountedInsert
<1>5. ASSUME NEW t \in Threads, CloneCurrent(t) PROVE Accounted(s, id)'
  <2> DEFINE x == <<sub[t], made[t]>>
  <2>1. x \in Span
    <3>1. made[t] \in Issued(s) BY <1>3, <1>5 DEF CloneCurrent, Issuance
    <3>2. next_span_id[s] \in 1..MaxSpans + 1 BY DEF TypeOK
    <3>3. made[t] \in Id BY <3>1, <3>2, SpansAssumption DEF Issued, Id
    <3> QED BY <1>3, <3>3 DEF Span
  <2>2. Holds(t, x) BY <1>5, <2>1 DEF CloneCurrent, FoundIsHeld
  <2>3. entries' = Referenced(x[1], x[2]) /\ handles' = [handles EXCEPT ![t][x] = handles[t][x] + 1]
    BY <1>5 DEF CloneCurrent
  <2> HIDE DEF x
  <2> QED BY <1>1, <1>2, <2>1, <2>2, <2>3, AccountedClone
<1>6. ASSUME NEW t \in Threads, NEW u \in Threads, NEW x \in Span, CloneSpan(t, u, x)
      PROVE  Accounted(s, id)'
  <2>1. /\ Holds(t, x) /\ entries' = Referenced(x[1], x[2])
        /\ handles' = [handles EXCEPT ![u][x] = handles[u][x] + 1]
    BY <1>6 DEF CloneSpan
  <2> QED BY <1>1, <1>2, <2>1, AccountedClone
<1>7. ASSUME NEW t \in Threads, NEW x \in Span, TryClose(t, x) PROVE Accounted(s, id)'
  BY <1>1, <1>2, <1>7, AccountedClose
<1>8. ASSUME NEW t \in Threads, EndRecord(t) PROVE Accounted(s, id)'
  <2>1. handles' = handles BY <1>8 DEF EndRecord, client
  <2>2. entries' = [entries EXCEPT ![s][made[t]].fields = @ + 1] BY <1>3, <1>8 DEF EndRecord
  <2>3. s \in DOMAIN entries /\ entries[s] \in [Stored(s) -> SpanData] BY DEF TypeOK
  <2>4. Stored(s)' = Stored(s) /\ (id \in Stored(s) => entries'[s][id].refs = entries[s][id].refs)
    BY <2>2, <2>3 DEF Stored, SpanData
  <2>5. References(<<s, id>>)' = References(<<s, id>>)
    BY <2>1 DEF References, HandlesOf
  <2>6. Accounted(s, id) BY <1>1
  <2> QED BY <2>4, <2>5, <2>6, AccountedAfter DEF Accounted
<1>9. CASE entries' = entries /\ handles' = handles
  <2>1. Accounted(s, id) BY <1>1
  <2> QED BY <1>9, <2>1 DEF Accounted, References, HandlesOf, Stored
<1> QED BY <1>4, <1>5, <1>6, <1>7, <1>8, <1>9, EntrySteps, HandleMoves

-----------------------------------------------------------------------------
(* Which span an event names.                                              *)

InEvent == {"event", "walk", "emit"}

LEMMA EventSteps ==
  ASSUME TypeOK, [Next]_vars, NEW t \in Threads, pc'[t] \in InEvent
  PROVE  \/ \E s \in Subscribers : BeginEvent(t, s)
         \/ SkipContext(t) \/ ReadLock(t) \/ Walk(t) \/ ReadUnlock(t)
         \/ /\ pc'[t] = pc[t] /\ sub'[t] = sub[t] /\ cursor'[t] = cursor[t]
            /\ chain'[t] = chain[t] /\ contextual'[t] = contextual[t]
            /\ stack'[t] = stack[t] /\ guards'[t] = guards[t]
<1> USE DEF InEvent
<1>1. CASE UNCHANGED vars BY <1>1 DEF vars, call, client, entered
<1>2. ASSUME NEW u \in Threads, Thread(u), u # t
      PROVE  /\ pc'[t] = pc[t] /\ sub'[t] = sub[t] /\ cursor'[t] = cursor[t]
             /\ chain'[t] = chain[t] /\ contextual'[t] = contextual[t]
             /\ stack'[t] = stack[t] /\ guards'[t] = guards[t]
  BY <1>2, Locals
<1>3. CASE Thread(t)
  <2> USE DEF TypeOK
  <2>1. ~Return(t) BY DEF Return
  <2>2. ASSUME NEW s \in Subscribers PROVE ~AllocateId(t, s) /\ ~CurrentSpan(t, s)
    BY DEF AllocateId, CurrentSpan
  <2>3. ~InsertSpan(t) /\ ~CloneCurrent(t) /\ ~EndRecord(t) /\ ~Emit(t)
    BY <2>1 DEF InsertSpan, CloneCurrent, EndRecord, Emit
  <2>4. ASSUME NEW x \in Span
        PROVE  /\ \A u \in Threads : ~CloneSpan(t, u, x)
               /\ ~TryClose(t, x) /\ ~BeginRecord(t, x) /\ ~Enter(t, x)
    BY DEF CloneSpan, TryClose, BeginRecord, Enter, call
  <2>5. \A i \in 1..Len(guards[t]) : ~Exit(t, i) BY DEF Exit, call
  <2>6. ~DebugLogs(t) /\ ~DebugReturns(t) BY DEF DebugLogs, DebugReturns
  <2> QED BY <1>3, <2>2, <2>3, <2>4, <2>5, <2>6 DEF Thread, Step
<1> QED BY <1>1, <1>2, <1>3 DEF Next, Quiescent

(* Every id a walk or a parent can lead to was given out to a span that    *)
(* has been inserted.                                                      *)
Named ==
  OneSubscriber =>
    \A s \in Subscribers :
      /\ \A t \in Threads :
           pc[t] \in InEvent \union {"new"} => cursor[t] \in Issued(s) \union {0}
      /\ \A id \in Stored(s) : entries[s][id].parent \in Issued(s) \union {0}

LEMMA CurrentIssued ==
  ASSUME TypeOK, OneSubscriber, StackMatchesGuards, Guarding, Issuance,
         NEW t \in Threads, NEW s \in Subscribers
  PROVE  Current(t) \in Issued(s) \union {0}
<1>1. CASE stack[t] = <<>> BY <1>1 DEF Current
<1>2. CASE stack[t] # <<>>
  <2>1. <<s, Current(t)>> \in Span /\ Holds(t, <<s, Current(t)>>) BY <1>2, CurrentIsHeld
  <2> QED BY <2>1 DEF Issuance
<1> QED BY <1>1, <1>2

LEMMA NamedStep ==
  ASSUME TypeOK, StackMatchesGuards, Guarding, Issuance, Named, [Next]_vars
  PROVE  Named'
<1> SUFFICES ASSUME OneSubscriber, NEW s \in Subscribers
             PROVE  /\ \A t \in Threads :
                         pc'[t] \in InEvent \union {"new"} => cursor'[t] \in Issued(s)' \union {0}
                    /\ \A id \in Stored(s)' : entries'[s][id].parent \in Issued(s)' \union {0}
  BY DEF Named, OneSubscriber
<1>1. /\ \A t \in Threads :
           pc[t] \in InEvent \union {"new"} => cursor[t] \in Issued(s) \union {0}
      /\ \A id \in Stored(s) : entries[s][id].parent \in Issued(s) \union {0}
  BY DEF Named
<1>2. Issued(s) \subseteq Issued(s)' BY IssuedGrows
<1>3. ASSUME NEW t \in Threads, pc'[t] = "new" PROVE cursor'[t] \in Issued(s) \union {0}
  <2>1. ASSUME NEW r \in Subscribers, AllocateId(t, r) PROVE cursor'[t] \in Issued(s) \union {0}
    <3>1. cursor'[t] \in ResolveParent(t, s) BY <2>1, OnlySubscriber DEF AllocateId, TypeOK
    <3> QED BY <3>1, CurrentIssued DEF ResolveParent
  <2> QED BY <1>1, <1>3, <2>1, NewSteps
<1>4. ASSUME NEW t \in Threads, pc'[t] \in InEvent PROVE cursor'[t] \in Issued(s) \union {0}
  <2>1. ASSUME NEW r \in Subscribers, BeginEvent(t, r) PROVE cursor'[t] \in Issued(s) \union {0}
    <3>1. cursor'[t] = Current(t) \/ cursor'[t] \in {0} \union Issued(s)
      BY <2>1, OnlySubscriber DEF BeginEvent, TypeOK
    <3> QED BY <3>1, CurrentIssued
  <2>2. CASE SkipContext(t) \/ ReadLock(t) \/ ReadUnlock(t)
    BY <1>1, <2>2 DEF SkipContext, ReadLock, ReadUnlock, InEvent
  <2>3. CASE Walk(t)
    <3>1. sub[t] = s BY OnlySubscriber DEF TypeOK
    <3>2. cursor[t] \in Stored(s) /\ cursor'[t] = entries[s][cursor[t]].parent
      BY <2>3, <3>1 DEF Walk, WalkOver, TypeOK
    <3> QED BY <1>1, <3>2
  <2> QED BY <1>1, <1>4, <2>1, <2>2, <2>3, EventSteps
<1>5. ASSUME NEW id \in Stored(s)' PROVE entries'[s][id].parent \in Issued(s) \union {0}
  <2>1. ASSUME NEW t \in Threads, InsertSpan(t), entries'[s][id].parent = cursor[t]
        PROVE  entries'[s][id].parent \in Issued(s) \union {0}
    BY <1>1, <2>1 DEF InsertSpan
  <2> QED BY <1>1, <2>1, StoredSteps
<1> QED BY <1>2, <1>3, <1>4, <1>5

(* With the list of spans, a walk ends at a span that nobody holds.        *)
Ended ==
  OneSubscriber /\ IncludeSpanList =>
    \A t \in Threads : \A x \in Span :
      pc[t] = "emit" /\ x = <<sub[t], cursor[t]>> => \A u \in Threads : ~Holds(u, x)

LEMMA EndedStep ==
  ASSUME TypeOK, Issuance, FoundIsHeld, Named, StoredWhileReferenced, Ended, [Next]_vars
  PROVE  Ended'
<1> SUFFICES ASSUME OneSubscriber, IncludeSpanList, NEW t \in Threads, NEW x \in Span,
                    pc'[t] = "emit", x = <<sub'[t], cursor'[t]>>,
                    NEW u \in Threads, Holds(u, x)'
             PROVE  FALSE
  BY DEF Ended, OneSubscriber
<1>1. x[1] \in Subscribers /\ x[2] \in Id /\ x[2] # 0 BY DEF Span, Id
<1>2. ~ \E s \in Subscribers : BeginEvent(t, s) BY DEF BeginEvent, TypeOK
<1>3. ~SkipContext(t) BY <1>1 DEF SkipContext, NeedsStore, TypeOK
<1>4. ~ReadLock(t) /\ ~Walk(t) BY DEF ReadLock, Walk, TypeOK
<1>5. CASE ReadUnlock(t)
  <2>1. handles' = handles /\ x = <<sub[t], cursor[t]>> BY <1>5 DEF ReadUnlock, client
  <2>2. x[2] \notin Stored(x[1]) BY <1>5, <2>1 DEF ReadUnlock, WalkOver
  <2>3. x = <<x[1], x[2]>> BY DEF Span
  <2>4. References(x) = 0 BY <1>1, <2>2, <2>3 DEF StoredWhileReferenced
  <2> QED BY <2>1, <2>4, NoReference DEF Holds
<1>6. CASE pc[t] = "emit" /\ sub'[t] = sub[t] /\ cursor'[t] = cursor[t]
  <2>1. \A v \in Threads : ~Holds(v, x) BY <1>6 DEF Ended
  <2>2. x[2] \in Issued(x[1]) BY <1>1, <1>6 DEF Named, InEvent
  <2>3. (InsertSpan(u) \/ CloneCurrent(u)) /\ x = <<sub[u], made[u]>>
    BY <2>1, HandleSteps
  <2>4. ~InsertSpan(u) BY <1>1, <2>2, <2>3, InIssued DEF InsertSpan
  <2>5. ~CloneCurrent(u) BY <2>1, <2>3 DEF CloneCurrent, FoundIsHeld
  <2> QED BY <2>3, <2>4, <2>5
<1> QED BY <1>2, <1>3, <1>4, <1>5, <1>6, EventSteps DEF InEvent

(* Who logs in the current span walks from the current span.               *)
Contextual ==
  \A t \in Threads : contextual[t] =>
    /\ pc[t] \in InEvent
    /\ chain[t] = <<>> /\ pc[t] # "emit" => cursor[t] = Current(t)
    /\ chain[t] # <<>> => chain[t][1].id = Current(t)
    /\ OneSubscriber /\ pc[t] = "emit" /\ IncludeCurrentSpan /\ chain[t] = <<>> =>
         stack[t] = <<>>

LEMMA ContextualElsewhere ==
  ASSUME TypeOK, Contextual, [Next]_vars, NEW t \in Threads, pc'[t] \notin InEvent
  PROVE  ~contextual'[t]
<1>1. contextual[t] => pc[t] \in InEvent BY DEF Contextual
<1> USE DEF InEvent
<1>2. CASE UNCHANGED vars BY <1>1, <1>2 DEF vars, call
<1>3. ASSUME NEW u \in Threads, Thread(u), u # t PROVE ~contextual'[t]
  <2>1. pc'[t] = pc[t] /\ contextual'[t] = contextual[t] BY <1>3, Locals
  <2> QED BY <1>1, <2>1
<1>4. CASE Thread(t)
  <2> USE DEF TypeOK
  <2>1. Return(t) => ~contextual'[t] BY DEF Return
  <2>2. ASSUME NEW s \in Subscribers
        PROVE  /\ AllocateId(t, s) \/ CurrentSpan(t, s) => pc[t] = "idle" /\ contextual' = contextual
               /\ ~BeginEvent(t, s)
    BY DEF AllocateId, CurrentSpan, BeginEvent
  <2>3. InsertSpan(t) \/ CloneCurrent(t) \/ EndRecord(t) \/ Emit(t) => Return(t)
    BY DEF InsertSpan, CloneCurrent, EndRecord, Emit
  <2>4. ASSUME NEW x \in Span
        PROVE  /\ \A u \in Threads : CloneSpan(t, u, x) => pc[t] = "idle" /\ contextual' = contextual
               /\ TryClose(t, x) \/ BeginRecord(t, x) \/ Enter(t, x) =>
                    pc[t] = "idle" /\ contextual' = contextual
    BY DEF CloneSpan, TryClose, BeginRecord, Enter, call
  <2>5. \A i \in 1..Len(guards[t]) : Exit(t, i) => pc[t] = "idle" /\ contextual' = contextual
    BY DEF Exit, call
  <2>6. DebugLogs(t) \/ DebugReturns(t) =>
          pc[t] \in {"record", "nested"} /\ contextual' = contextual
    BY DEF DebugLogs, DebugReturns
  <2>7. ~SkipContext(t) /\ ~ReadLock(t) /\ ~ReadUnlock(t)
    BY DEF SkipContext, ReadLock, ReadUnlock
  <2>8. ~Walk(t) BY DEF Walk
  <2> QED BY <1>1, <1>4, <2>1, <2>2, <2>3, <2>4, <2>5, <2>6, <2>7, <2>8 DEF Thread, Step
<1> QED BY <1>2, <1>3, <1>4 DEF Next, Quiescent

LEMMA ContextualStep ==
  ASSUME TypeOK, TypeOK', StackMatchesGuards, Guarding, ChainFollows, StoredWhileReferenced,
         Contextual, [Next]_vars
  PROVE  Contextual'
<1> SUFFICES ASSUME NEW t \in Threads, contextual'[t]
             PROVE  /\ pc'[t] \in InEvent
                    /\ chain'[t] = <<>> /\ pc'[t] # "emit" => cursor'[t] = Current(t)'
                    /\ chain'[t] # <<>> => chain'[t][1].id = Current(t)'
                    /\ OneSubscriber /\ pc'[t] = "emit" /\ IncludeCurrentSpan /\ chain'[t] = <<>> =>
                         stack'[t] = <<>>
  BY DEF Contextual, OneSubscriber
<1>1. pc'[t] \in InEvent BY ContextualElsewhere
<1>2. ASSUME NEW s \in Subscribers, BeginEvent(t, s)
      PROVE  /\ pc'[t] = "event" /\ chain'[t] = <<>> /\ cursor'[t] = Current(t)
             /\ Current(t)' = Current(t)
  <2>1. pc[t] = "idle" BY <1>2 DEF BeginEvent
  <2>2. ~contextual[t] BY <2>1 DEF Contextual, InEvent
  <2>3. chain[t] = <<>> BY <2>1 DEF ChainFollows
  <2>4. stack' = stack /\ chain' = chain /\ pc'[t] = "event" BY <1>2 DEF BeginEvent, TypeOK
  <2>5. cursor'[t] = Current(t) BY <1>2, <2>2 DEF BeginEvent, TypeOK
  <2> QED BY <2>3, <2>4, <2>5 DEF Current
<1>3. ASSUME stack'[t] = stack[t] PROVE Current(t)' = Current(t) BY <1>3 DEF Current
<1>4. CASE SkipContext(t)
  <2>1. /\ pc[t] = "event" /\ stack' = stack /\ chain' = chain /\ contextual' = contextual
        /\ pc'[t] = "emit" /\ ~NeedsStore(cursor[t])
    BY <1>4 DEF SkipContext, TypeOK
  <2>2. chain[t] = <<>> /\ cursor[t] = Current(t) BY <2>1 DEF ChainFollows, Contextual
  <2>3. IncludeCurrentSpan => stack[t] = <<>>
    <3>1. stack[t] \in Seq(Id) BY DEF TypeOK
    <3>2. stack[t] # <<>> => stack[t][Len(stack[t])] \in Id BY <3>1
    <3>3. stack[t] # <<>> => Current(t) # 0 BY <3>2 DEF Current, Last, Id
    <3> QED BY <2>1, <2>2, <3>3 DEF NeedsStore
  <2> QED BY <1>1, <2>1, <2>2, <2>3
<1>5. CASE ReadLock(t)
  <2>1. /\ pc[t] = "event" /\ stack' = stack /\ chain' = chain /\ contextual' = contextual
        /\ cursor' = cursor /\ pc'[t] = "walk"
    BY <1>5 DEF ReadLock, TypeOK
  <2> QED BY <1>1, <1>3, <2>1 DEF Contextual
<1>6. CASE Walk(t)
  <2> DEFINE c == chain[t]
             d == chain'[t]
  <2>1. /\ pc[t] = "walk" /\ pc' = pc /\ stack' = stack /\ contextual' = contextual
        /\ d = Append(c, Snapshot(t))
    BY <1>6 DEF Walk, TypeOK
  <2>2. c \in Seq([id : Id, fields : Nat]) BY DEF TypeOK
  <2>3. /\ c = <<>> => cursor[t] = Current(t)
        /\ c # <<>> => c[1].id = Current(t)
    BY <2>1 DEF Contextual
  <2>4. /\ d # <<>>
        /\ c = <<>> => d[1] = Snapshot(t)
        /\ c # <<>> => d[1] = c[1]
    BY <2>1, <2>2, AppendProperties
  <2>5. Snapshot(t).id = cursor[t] BY DEF Snapshot
  <2> HIDE DEF c, d
  <2>6. d[1].id = Current(t) BY <2>3, <2>4, <2>5
  <2>7. chain'[t] # <<>> /\ chain'[t][1].id = Current(t) BY <2>4, <2>6 DEF d
  <2> QED BY <1>1, <1>3, <2>1, <2>7
<1>7. CASE ReadUnlock(t)
  <2>1. /\ pc[t] = "walk" /\ stack' = stack /\ chain' = chain /\ contextual' = contextual
        /\ pc'[t] = "emit" /\ WalkOver(t)
    BY <1>7 DEF ReadUnlock, TypeOK
  <2>2. ASSUME OneSubscriber, chain[t] = <<>> PROVE stack[t] = <<>>
    <3> SUFFICES ASSUME stack[t] # <<>> PROVE FALSE
      OBVIOUS
    <3> DEFINE x == <<sub[t], Current(t)>>
    <3>1. cursor[t] = Current(t) BY <2>1, <2>2 DEF Contextual
    <3>2. cursor[t] \notin Stored(sub[t]) BY <2>1, <2>2 DEF WalkOver
    <3>3. sub[t] \in Subscribers BY DEF TypeOK
    <3>4. x \in Span /\ Holds(t, x) BY <2>2, <3>3, CurrentIsHeld
    <3>5. References(x) # 0
      <4> HIDE DEF x
      <4> QED BY <3>4, NoReference
    <3>6. Current(t) \in Id BY <3>4 DEF Span
    <3>7. Current(t) \in Stored(sub[t])
      BY <2>2, <3>3, <3>5, <3>6 DEF StoredWhileReferenced
    <3> QED BY <3>1, <3>2, <3>7
  <2> QED BY <1>1, <1>3, <2>1, <2>2 DEF Contextual
<1>8. CASE /\ pc'[t] = pc[t] /\ cursor'[t] = cursor[t]
           /\ chain'[t] = chain[t] /\ contextual'[t] = contextual[t]
           /\ stack'[t] = stack[t]
  BY <1>1, <1>3, <1>8 DEF Contextual
<1>9. CASE \E s \in Subscribers : BeginEvent(t, s) BY <1>1, <1>2, <1>9
<1> QED BY <1>1, <1>4, <1>5, <1>6, <1>7, <1>8, <1>9, EventSteps

(* With one subscriber, the stack of a thread that is in no span twice is  *)
(* its guards.                                                             *)
Ordered ==
  OneSubscriber =>
    \A t \in Threads : t \notin twice =>
      /\ IsInjective(guards[t])
      /\ \A i \in 1..Len(guards[t]) : stack[t][i] = guards[t][i][2]

LEMMA OrderedEnter ==
  ASSUME NEW st \in Seq(Id), NEW g \in Seq(Span), Len(st) = Len(g), IsInjective(g),
         \A i \in 1..Len(g) : st[i] = g[i][2],
         NEW x \in Span, x \notin Range(g)
  PROVE  /\ IsInjective(Append(g, x))
         /\ \A i \in 1..Len(Append(g, x)) : Append(st, x[2])[i] = Append(g, x)[i][2]
<1> DEFINE n == Len(g)
           g2 == Append(g, x)
           st2 == Append(st, x[2])
<1>1. /\ n \in Nat /\ Len(g2) = n + 1 /\ DOMAIN g2 = 1..n + 1 /\ DOMAIN g = 1..n
      /\ g2[n + 1] = x /\ st2[n + 1] = x[2]
      /\ \A i \in 1..n : g2[i] = g[i] /\ st2[i] = st[i]
  OBVIOUS
<1>2. \A i \in 1..n : g[i] # x BY <1>1 DEF Range
<1> HIDE DEF g2, st2, n
<1>3. ASSUME NEW a \in 1..n + 1, NEW b \in 1..n + 1, g2[a] = g2[b] PROVE a = b
  <2>1. a \in 1..n \/ a = n + 1 BY <1>1
  <2>2. b \in 1..n \/ b = n + 1 BY <1>1
  <2>3. CASE a \in 1..n /\ b \in 1..n
    <3>1. g[a] = g[b] BY <1>1, <1>3, <2>3
    <3> QED BY <1>1, <2>3, <3>1 DEF IsInjective
  <2> QED BY <1>1, <1>2, <1>3, <2>1, <2>2, <2>3
<1>4. \A i \in 1..n + 1 : st2[i] = g2[i][2]
  <2> TAKE i \in 1..n + 1
  <2>1. CASE i \in 1..n BY <1>1, <2>1 DEF n
  <2>2. CASE i = n + 1 BY <1>1, <2>2
  <2> QED BY <1>1, <2>1, <2>2
<1> QED BY <1>1, <1>3, <1>4 DEF IsInjective, g2, st2

LEMMA OrderedExit ==
  ASSUME OneSubscriber, NEW st \in Seq(Id), NEW g \in Seq(Span), Len(st) = Len(g),
         IsInjective(g), \A i \in 1..Len(g) : st[i] = g[i][2], NEW i \in 1..Len(g)
  PROVE  /\ IsInjective(RemoveAt(g, i))
         /\ \A j \in 1..Len(RemoveAt(g, i)) :
              Popped(st, g[i][2])[j] = RemoveAt(g, i)[j][2]
<1> DEFINE n == Len(g)
           g2 == RemoveAt(g, i)
           st2 == Popped(st, g[i][2])
           from(j) == IF j < i THEN j ELSE j + 1
<1>1. n \in Nat /\ DOMAIN g = 1..n OBVIOUS
<1>2. \A a, b \in 1..n : g[a][2] = g[b][2] => a = b
  <2> TAKE a, b \in 1..n
  <2>1. g[a] \in Span /\ g[b] \in Span OBVIOUS
  <2>2. g[a][1] = g[b][1] BY <2>1, OnlySubscriber DEF Span
  <2>3. g[a][2] = g[b][2] => g[a] = g[b] BY <2>1, <2>2 DEF Span
  <2> QED BY <1>1, <2>3 DEF IsInjective
<1>3. st2 = RemoveAt(st, i)
  <2>1. PICK k \in 1..n : st[k] = st[i] /\ Popped(st, st[i]) = RemoveAt(st, k)
    BY PoppedLast
  <2>2. k = i BY <1>2, <2>1
  <2> QED BY <2>1, <2>2
<1>4. /\ Len(g2) = n - 1 /\ g2 \in Seq(Span)
      /\ \A j \in 1..n - 1 : g2[j] = g[from(j)] /\ st2[j] = st[from(j)]
  BY <1>3, RemovedAt
<1>5. \A j \in 1..n - 1 : from(j) \in 1..n BY <1>1
<1>6. \A a, b \in 1..n - 1 : from(a) = from(b) => a = b BY <1>1
<1>7. DOMAIN g2 = 1..n - 1 BY <1>4
<1> HIDE DEF g2, st2, n, from
<1>8. \A j \in 1..n - 1 : st2[j] = g2[j][2] BY <1>4, <1>5 DEF n
<1>9. IsInjective(g2)
  <2> SUFFICES ASSUME NEW a \in 1..n - 1, NEW b \in 1..n - 1, g2[a] = g2[b] PROVE a = b
    BY <1>7 DEF IsInjective
  <2>1. g[from(a)] = g[from(b)] BY <1>4
  <2>2. from(a) = from(b) BY <1>1, <1>5, <2>1 DEF IsInjective
  <2> QED BY <1>6, <2>2
<1> QED BY <1>4, <1>8, <1>9 DEF g2, st2

LEMMA OrderedStep ==
  ASSUME TypeOK, StackMatchesGuards, Ordered, [Next]_vars
  PROVE  Ordered'
<1> SUFFICES ASSUME OneSubscriber, NEW t \in Threads, t \notin twice'
             PROVE  /\ IsInjective(guards'[t])
                    /\ \A i \in 1..Len(guards'[t]) : stack'[t][i] = guards'[t][i][2]
  BY DEF Ordered, OneSubscriber
<1>1. /\ stack[t] \in Seq(Id) /\ guards[t] \in Seq(Span) /\ Len(stack[t]) = Len(guards[t])
  BY DEF TypeOK, StackMatchesGuards
<1>2. t \notin twice =>
        /\ IsInjective(guards[t])
        /\ \A i \in 1..Len(guards[t]) : stack[t][i] = guards[t][i][2]
  BY DEF Ordered
<1>3. ASSUME NEW u \in Threads, NEW x \in Span, Enter(u, x)
      PROVE  /\ IsInjective(guards'[t])
             /\ \A i \in 1..Len(guards'[t]) : stack'[t][i] = guards'[t][i][2]
  <2>1. t \notin twice /\ (u = t => x \notin Range(guards[t])) BY <1>3 DEF Enter
  <2>2. CASE u = t
    <3>1. stack'[t] = Append(stack[t], x[2]) /\ guards'[t] = Append(guards[t], x)
      BY <1>3, <2>2 DEF Enter, TypeOK
    <3>2. x \notin Range(guards[t]) /\ IsInjective(guards[t])
          /\ \A i \in 1..Len(guards[t]) : stack[t][i] = guards[t][i][2]
      BY <1>2, <2>1, <2>2
    <3>3. /\ IsInjective(Append(guards[t], x))
          /\ \A i \in 1..Len(Append(guards[t], x)) :
               Append(stack[t], x[2])[i] = Append(guards[t], x)[i][2]
      BY <1>1, <3>2, OrderedEnter
    <3> QED BY <3>1, <3>3
  <2>3. CASE u # t
    <3>1. stack'[t] = stack[t] /\ guards'[t] = guards[t] BY <1>3, <2>3 DEF Enter, TypeOK
    <3> QED BY <1>2, <2>1, <3>1
  <2> QED BY <2>2, <2>3
<1>4. ASSUME NEW u \in Threads, NEW i \in 1..Len(guards[u]), Exit(u, i)
      PROVE  /\ IsInjective(guards'[t])
             /\ \A j \in 1..Len(guards'[t]) : stack'[t][j] = guards'[t][j][2]
  <2>1. CASE u # t
    <3>1. stack'[t] = stack[t] /\ guards'[t] = guards[t] /\ t \notin twice
      BY <1>4, <2>1 DEF Exit, TypeOK
    <3> QED BY <1>2, <3>1
  <2>2. CASE u = t /\ t \notin twice
    <3>1. /\ stack'[t] = Popped(stack[t], guards[t][i][2])
          /\ guards'[t] = RemoveAt(guards[t], i)
      BY <1>4, <2>2 DEF Exit, TypeOK
    <3> QED BY <1>1, <1>2, <2>2, <3>1, OrderedExit
  <2>3. CASE u = t /\ t \in twice
    <3>1. Len(guards[t]) = 1 /\ guards'[t] = RemoveAt(guards[t], i)
      BY <1>4, <2>3 DEF Exit, TypeOK
    <3>2. guards'[t] \in Seq(Span) /\ Len(guards'[t]) = 0
      <4>1. i \in 1..Len(guards[t]) BY <2>3
      <4>2. /\ RemoveAt(guards[t], i) \in Seq(Span)
            /\ Len(RemoveAt(guards[t], i)) = Len(guards[t]) - 1
        BY <1>1, <4>1, RemovedAt
      <4> QED BY <3>1, <4>2
    <3>3. DOMAIN guards'[t] = {} BY <3>2
    <3> QED BY <3>2, <3>3 DEF IsInjective
  <2> QED BY <2>1, <2>2, <2>3
<1>5. CASE stack' = stack /\ guards' = guards /\ twice' = twice BY <1>2, <1>5
<1> QED BY <1>3, <1>4, <1>5, GuardMoves

-----------------------------------------------------------------------------
(* The invariant.                                                          *)

GuardInv ==
  /\ IInv
  /\ StackMatchesGuards /\ Guarding /\ Ordered
  /\ Issuance /\ FoundIsHeld /\ StoredWhileReferenced
  /\ Named /\ Ended /\ Contextual

LEMMA InitGuardInv == Init => GuardInv
<1> SUFFICES ASSUME Init PROVE GuardInv
  OBVIOUS
<1>1. IInv /\ TypeOK BY InitInv DEF IInv
<1>2. \A t \in Threads : stack[t] = <<>> /\ guards[t] = <<>> /\ pc[t] = "idle" /\ ~contextual[t]
  BY DEF Init
<1>3. \A s \in Subscribers : Stored(s) = {} BY DEF Init, Stored
<1>4. \A t \in Threads : \A x \in Span : ~Holds(t, x) BY DEF Init, Holds
<1>5. StackMatchesGuards
  <2> SUFFICES ASSUME NEW t \in Threads PROVE Match(stack[t], guards[t])
    BY DEF StackMatchesGuards, Match
  <2>1. \A id \in Id :
          /\ {i \in 1..Len(stack[t]) : stack[t][i] = id} = {}
          /\ {i \in 1..Len(guards[t]) : guards[t][i][2] = id} = {}
    BY <1>2
  <2> QED BY <1>2, <2>1 DEF Match
<1>6. Guarding /\ Ordered BY <1>2 DEF Guarding, Ordered, IsInjective
<1>7. Issuance /\ FoundIsHeld BY <1>2, <1>3, <1>4 DEF Issuance, FoundIsHeld
<1>8. StoredWhileReferenced
  <2>1. \A s \in Subscribers : \A id \in Id : <<s, id>> \in Span BY DEF Span
  <2>2. \A s \in Subscribers : \A id \in Id : References(<<s, id>>) = 0
    BY <1>1, <1>4, <2>1, NoReference
  <2> QED BY <1>3, <2>2 DEF StoredWhileReferenced
<1>9. Named /\ Ended /\ Contextual
  BY <1>2, <1>3 DEF Named, Ended, Contextual, InEvent
<1> QED BY <1>1, <1>5, <1>6, <1>7, <1>8, <1>9 DEF GuardInv

LEMMA StepGuardInv == GuardInv /\ [Next]_vars => GuardInv'
<1> SUFFICES ASSUME GuardInv, [Next]_vars PROVE GuardInv'
  OBVIOUS
<1>1. /\ IInv /\ TypeOK /\ Making /\ Numbered /\ ChainFollows
      /\ StackMatchesGuards /\ Guarding /\ Ordered
      /\ Issuance /\ FoundIsHeld /\ StoredWhileReferenced
      /\ Named /\ Ended /\ Contextual
  BY DEF GuardInv, IInv, WalkChain
<1>2. IInv' /\ TypeOK' BY <1>1, StepInv DEF IInv
<1>3. StackMatchesGuards' BY <1>1, StackMatchesStep
<1>4. Guarding' BY <1>1, GuardingStep
<1>5. Ordered' BY <1>1, OrderedStep
<1>6. Issuance' BY <1>1, <1>2, IssuanceStep
<1>7. FoundIsHeld' BY <1>1, FoundIsHeldStep
<1>8. StoredWhileReferenced' BY <1>1, StoredStep
<1>9. Named' BY <1>1, NamedStep
<1>10. Ended' BY <1>1, EndedStep
<1>11. Contextual' BY <1>1, <1>2, ContextualStep
<1> QED
  BY <1>2, <1>3, <1>4, <1>5, <1>6, <1>7, <1>8, <1>9, <1>10, <1>11 DEF GuardInv

LEMMA GuardInvariance == Spec => []GuardInv
BY InitGuardInv, StepGuardInv, PTL DEF Spec

(* The stack of a thread holds the ids of its guards, as often as there    *)
(* are guards with that id: exit never takes away too little, too much or  *)
(* another span's id, in whatever order guards are dropped, with any       *)
(* number of subscribers.                                                  *)
THEOREM StackHoldsTheGuards == Spec => []StackMatchesGuards
<1>1. GuardInv => StackMatchesGuards BY DEF GuardInv
<1> QED BY <1>1, GuardInvariance, PTL

(* With one subscriber, the reference count of a span is the number of its *)
(* handles over all threads: a span that is referenced is never closed,    *)
(* and one that is not is never kept.                                      *)
THEOREM ReferencesAreExact == Spec => []StoredWhileReferenced
<1>1. GuardInv => StoredWhileReferenced BY DEF GuardInv
<1> QED BY <1>1, GuardInvariance, PTL

(* With one subscriber, an event that is logged inside a span names a span *)
(* the thread has entered and not left, and the innermost one unless the   *)
(* thread has entered a span it was in.                                    *)
THEOREM EventsNameAnEnteredSpan == Spec => []EventsNameTheirSpan
<1>1. ASSUME GuardInv, NEW t \in Threads, OneSubscriber, IncludeCurrentSpan,
             pc[t] = "emit", contextual[t], guards[t] # <<>>
      PROVE  /\ chain[t] # <<>>
             /\ chain[t][1].id \in {x[2] : x \in Range(guards[t])}
             /\ t \notin twice => chain[t][1].id = Last(guards[t])[2]
  <2>1. TypeOK /\ StackMatchesGuards /\ Ordered /\ Contextual
    BY <1>1 DEF GuardInv, IInv
  <2>2. /\ stack[t] \in Seq(Id) /\ guards[t] \in Seq(Span)
        /\ Match(stack[t], guards[t]) /\ Len(stack[t]) = Len(guards[t])
    BY <2>1 DEF TypeOK, StackMatchesGuards, Match
  <2>3. Len(guards[t]) \in 1..Len(guards[t]) /\ stack[t] # <<>> BY <1>1, <2>2
  <2>4. chain[t] # <<>> /\ chain[t][1].id = Current(t) BY <1>1, <2>1, <2>3 DEF Contextual
  <2>5. Current(t) = stack[t][Len(guards[t])] /\ Current(t) \in Id
    BY <2>2, <2>3 DEF Current, Last
  <2>6. PICK i \in 1..Len(guards[t]) : guards[t][i][2] = Current(t)
    BY <2>2, <2>3, <2>5, MatchedIds
  <2>7. guards[t][i] \in Range(guards[t]) BY <2>2 DEF Range
  <2>8. t \notin twice => Current(t) = Last(guards[t])[2]
    BY <1>1, <2>1, <2>3, <2>5 DEF Ordered, Last
  <2> QED BY <2>4, <2>6, <2>7, <2>8
<1>2. GuardInv => EventsNameTheirSpan BY <1>1 DEF EventsNameTheirSpan
<1> QED BY <1>2, GuardInvariance, PTL

-----------------------------------------------------------------------------
(* What the span list leaves out.                                          *)

(* The history agrees with the store as long as the store remembers.       *)
Descends ==
  OneSubscriber =>
    \A s \in Subscribers : \A id \in Stored(s) :
      ancestors[s][id] = LineOfParent(s, entries[s][id].parent)

(* What has been copied and what is still ahead of the walk make up the    *)
(* line of the event's span.                                               *)
Followed ==
  OneSubscriber =>
    \A t \in Threads : chain[t] # <<>> =>
      /\ chain[t][1].id \in Issued(sub[t])
      /\ Listed(t) \subseteq LineOfEvent(t)
      /\ LineOfParent(sub[t], cursor[t]) \subseteq LineOfEvent(t)
      /\ LineOfEvent(t) \subseteq Listed(t) \union LineOfParent(sub[t], cursor[t])

AncestryInv == GuardInv /\ Descends /\ Followed

(* The ancestors of a span that has been inserted stay what they are.      *)
LEMMA AncestorsKept ==
  ASSUME TypeOK, TypeOK', Making, Numbered, Issuance, [Next]_vars, RecordAncestors,
         NEW s \in Subscribers, NEW id \in Issued(s) \union {0}
  PROVE  /\ id # 0 => Line(s, id)' = Line(s, id)
         /\ LineOfParent(s, id)' = LineOfParent(s, id)
<1>1. ASSUME id # 0 PROVE ancestors'[s][id] = ancestors[s][id]
  <2>1. id \in Id
    BY <1>1, SpansAssumption DEF Issued, Id, TypeOK
  <2>2. id \notin Stored(s)' \ Stored(s)
    <3> SUFFICES ASSUME id \in Stored(s)', id \notin Stored(s) PROVE FALSE
      OBVIOUS
    <3>1. PICK t \in Threads : InsertSpan(t) /\ s = sub[t] /\ id = made[t]
      BY StoredSteps
    <3> QED BY <1>1, <3>1, InsertedIsFresh
  <2> QED BY <2>1, <2>2 DEF RecordAncestors, Descent
<1> QED BY <1>1 DEF Line, LineOfParent

LEMMA DescendsStep ==
  ASSUME TypeOK, TypeOK', Making, Numbered, Issuance, Named, Descends,
         [Next]_vars, RecordAncestors
  PROVE  Descends'
<1> SUFFICES ASSUME OneSubscriber, NEW s \in Subscribers, NEW id \in Stored(s)'
             PROVE  ancestors'[s][id] = LineOfParent(s, entries[s][id].parent)'
  BY DEF Descends, OneSubscriber
<1>0. ASSUME NEW p, p \in Issued(s) \union {0}
      PROVE  LineOfParent(s, p)' = LineOfParent(s, p)
  BY <1>0, AncestorsKept
<1>1. CASE id \in Stored(s) /\ entries'[s][id].parent = entries[s][id].parent
  <2>1. PICK p : p = entries[s][id].parent OBVIOUS
  <2>2. id \in Id /\ p \in Issued(s) \union {0} BY <1>1, <2>1 DEF TypeOK, Named
  <2>3. ancestors'[s][id] = ancestors[s][id]
    BY <1>1, <2>2 DEF RecordAncestors, Descent
  <2>4. ancestors[s][id] = LineOfParent(s, p) BY <1>1, <2>1 DEF Descends
  <2>5. LineOfParent(s, p)' = LineOfParent(s, p) BY <1>0, <2>2
  <2>6. entries'[s][id].parent = p BY <1>1, <2>1
  <2> QED BY <2>3, <2>4, <2>5, <2>6 DEF LineOfParent, Line
<1>2. ASSUME NEW t \in Threads, InsertSpan(t), s = sub[t], id = made[t],
             entries'[s][id].parent = cursor[t]
      PROVE  ancestors'[s][id] = LineOfParent(s, entries[s][id].parent)'
  <2>1. id \in Id /\ id \notin Stored(s) BY <1>2, InsertedIsFresh DEF Issuance
  <2>2. PICK p : p = cursor[t] OBVIOUS
  <2>3. ancestors'[s][id] = LineOfParent(s, p)
    BY <1>2, <2>1, <2>2 DEF RecordAncestors, Descent
  <2>4. p \in Issued(s) \union {0} BY <1>2, <2>2 DEF InsertSpan, Named
  <2>5. LineOfParent(s, p)' = LineOfParent(s, p) BY <1>0, <2>4
  <2> QED BY <1>2, <2>2, <2>3, <2>5 DEF LineOfParent, Line
<1> QED BY <1>1, <1>2, StoredSteps

(* One more span is copied.                                                *)
LEMMA ListedAfterWalk ==
  ASSUME TypeOK, NEW t \in Threads, Walk(t)
  PROVE  /\ Listed(t)' = Listed(t) \union {cursor[t]}
         /\ chain'[t][1].id = IF chain[t] = <<>> THEN cursor[t] ELSE chain[t][1].id
         /\ chain[t] = <<>> => Listed(t) = {}
<1> DEFINE c == chain[t]
           d == chain'[t]
<1>1. c \in Seq([id : Id, fields : Nat]) BY DEF TypeOK
<1>2. d = Append(c, Snapshot(t)) BY DEF Walk, TypeOK
<1>3. /\ Len(c) \in Nat /\ Len(d) = Len(c) + 1
      /\ \A i \in 1..Len(c) : d[i] = c[i]
      /\ d[Len(c) + 1].id = cursor[t]
  BY <1>1, <1>2, AppendProperties DEF Snapshot
<1>4. c # <<>> => 1 \in 1..Len(c) BY <1>1
<1>5. c = <<>> => Len(c) = 0 OBVIOUS
<1> HIDE DEF c, d
<1>6. {d[i].id : i \in 1..Len(d)} = {c[i].id : i \in 1..Len(c)} \union {cursor[t]}
  <2>1. \A i \in 1..Len(d) : i \in 1..Len(c) \/ i = Len(c) + 1 BY <1>3
  <2>2. \A i \in 1..Len(c) : i \in 1..Len(d) BY <1>3
  <2>3. Len(c) + 1 \in 1..Len(d) BY <1>3
  <2> QED BY <1>3, <2>1, <2>2, <2>3
<1>7. d[1].id = IF c = <<>> THEN cursor[t] ELSE c[1].id BY <1>3, <1>4, <1>5
<1>8. c = <<>> => {c[i].id : i \in 1..Len(c)} = {} BY <1>5
<1> QED BY <1>6, <1>7, <1>8 DEF Listed, c, d

LEMMA FollowedStep ==
  ASSUME TypeOK, TypeOK', Making, Numbered, ChainFollows, Issuance, Named, Descends,
         Followed, [Next]_vars, RecordAncestors
  PROVE  Followed'
<1> SUFFICES ASSUME OneSubscriber, NEW t \in Threads, chain'[t] # <<>>
             PROVE  /\ chain'[t][1].id \in Issued(sub[t])'
                    /\ Listed(t)' \subseteq LineOfEvent(t)'
                    /\ LineOfParent(sub[t], cursor[t])' \subseteq LineOfEvent(t)'
                    /\ LineOfEvent(t)'
                         \subseteq Listed(t)' \union LineOfParent(sub[t], cursor[t])'
  BY DEF Followed, OneSubscriber
<1>1. pc'[t] \in {"walk", "emit"} BY EmptyChains
<1>2. PICK s \in Subscribers : sub[t] = s BY DEF TypeOK
<1>3. sub'[t] = s BY <1>2, OnlySubscriber DEF TypeOK
<1>4. Issued(s) \subseteq Issued(s)' BY IssuedGrows
<1>5. ASSUME NEW id \in Issued(s) \union {0}
      PROVE  /\ id # 0 => Line(s, id)' = Line(s, id)
             /\ LineOfParent(s, id)' = LineOfParent(s, id)
  BY <1>5, AncestorsKept
<1>6. \A id \in Issued(s) : id # 0 BY DEF Issued
<1>7. CASE chain'[t] = chain[t] /\ cursor'[t] = cursor[t] /\ pc[t] \in InEvent
  <2>1. cursor[t] \in Issued(s) \union {0} BY <1>2, <1>7 DEF Named
  <2>2. chain[t][1].id \in Issued(s) BY <1>2, <1>7 DEF Followed
  <2>3. Listed(t)' = Listed(t) BY <1>7 DEF Listed
  <2>4. LineOfEvent(t)' = LineOfEvent(t)
    BY <1>2, <1>3, <1>5, <1>6, <1>7, <2>2 DEF LineOfEvent, Line
  <2>5. LineOfParent(sub[t], cursor[t])' = LineOfParent(sub[t], cursor[t])
    BY <1>2, <1>3, <1>5, <1>7, <2>1 DEF LineOfParent, Line
  <2> QED BY <1>2, <1>3, <1>4, <1>7, <2>2, <2>3, <2>4, <2>5 DEF Followed
<1>8. CASE Walk(t)
  <2> DEFINE c == cursor[t]
             parent == entries[s][c].parent
  <2>1. c \in Stored(s) /\ cursor'[t] = parent BY <1>2, <1>8 DEF Walk, WalkOver, TypeOK
  <2>2. c \in Issued(s) /\ parent \in Issued(s) \union {0}
    BY <2>1 DEF Issuance, Named
  <2>3. Line(s, c) = {c} \union LineOfParent(s, parent)
    BY <2>1 DEF Descends, Line
  <2>4. LineOfParent(s, c) = Line(s, c) BY <1>6, <2>2 DEF LineOfParent
  <2>5. /\ Listed(t)' = Listed(t) \union {c}
        /\ chain'[t][1].id = IF chain[t] = <<>> THEN c ELSE chain[t][1].id
        /\ chain[t] = <<>> => Listed(t) = {}
    BY <1>8, ListedAfterWalk
  <2>6. chain'[t][1].id \in Issued(s) BY <1>2, <2>2, <2>5 DEF Followed
  <2> HIDE DEF c, parent
  <2>7. LineOfEvent(t)' = Line(s, chain'[t][1].id)
    BY <1>3, <1>5, <1>6, <2>6 DEF LineOfEvent, Line
  <2>8. LineOfParent(sub[t], cursor[t])' = LineOfParent(s, parent)
    BY <1>3, <1>5, <2>1, <2>2 DEF LineOfParent, Line
  <2>9. CASE chain[t] = <<>>
    BY <1>3, <1>4, <2>3, <2>5, <2>6, <2>7, <2>8, <2>9
  <2>10. CASE chain[t] # <<>>
    <3>1. /\ Listed(t) \subseteq Line(s, chain[t][1].id)
          /\ Line(s, c) \subseteq Line(s, chain[t][1].id)
          /\ Line(s, chain[t][1].id) \subseteq Listed(t) \union Line(s, c)
      BY <1>2, <2>4, <2>10 DEF Followed, LineOfEvent, c
    <3> QED BY <1>3, <1>4, <2>3, <2>5, <2>6, <2>7, <2>8, <2>10, <3>1
  <2> QED BY <2>9, <2>10
<1>9. ASSUME NEW r \in Subscribers, BeginEvent(t, r) PROVE FALSE
  BY <1>1, <1>9 DEF BeginEvent, TypeOK
<1>10. CASE SkipContext(t) \/ ReadLock(t)
  <2>1. chain'[t] = chain[t] /\ pc[t] = "event" BY <1>10 DEF SkipContext, ReadLock
  <2> QED BY <2>1 DEF ChainFollows
<1>11. CASE ReadUnlock(t)
  BY <1>7, <1>11 DEF ReadUnlock, InEvent
<1> QED BY <1>1, <1>7, <1>8, <1>9, <1>10, <1>11, EventSteps DEF InEvent

LEMMA AncestryInvariance == SpecAncestry => []AncestryInv
<1>1. InitAncestry => AncestryInv
  <2> SUFFICES ASSUME InitAncestry PROVE AncestryInv
    OBVIOUS
  <2>1. Init BY DEF InitAncestry
  <2>2. \A s \in Subscribers : Stored(s) = {} BY <2>1 DEF Init, Stored
  <2>3. \A t \in Threads : chain[t] = <<>> BY <2>1 DEF Init
  <2> QED BY <2>1, <2>2, <2>3, InitGuardInv DEF AncestryInv, Descends, Followed
<1>2. AncestryInv /\ [NextAncestry]_history => AncestryInv'
  <2> SUFFICES ASSUME AncestryInv, [NextAncestry]_history PROVE AncestryInv'
    OBVIOUS
  <2>1. [Next]_vars BY DEF NextAncestry, history
  <2>2. GuardInv' BY <2>1, StepGuardInv DEF AncestryInv
  <2>3. /\ TypeOK /\ TypeOK' /\ Making /\ Numbered /\ ChainFollows
        /\ Issuance /\ Named /\ Descends /\ Followed
    BY <2>2 DEF AncestryInv, GuardInv, IInv, WalkChain
  <2>4. CASE NextAncestry
    <3>1. RecordAncestors BY <2>4 DEF NextAncestry
    <3> QED BY <2>1, <2>2, <2>3, <3>1, DescendsStep, FollowedStep DEF AncestryInv
  <2>5. CASE UNCHANGED history
    <3>1. ancestors' = ancestors /\ UNCHANGED <<store, call>> BY <2>5 DEF history, vars
    <3>2. Descends' BY <2>3, <3>1 DEF Descends, OneSubscriber, Stored, LineOfParent, Line, store
    <3>3. /\ entries' = entries /\ sub' = sub /\ pc' = pc /\ chain' = chain
          /\ cursor' = cursor /\ next_span_id' = next_span_id /\ made' = made
      BY <3>1 DEF store, call
    <3>4. \A s \in Subscribers : Issued(s)' = Issued(s) BY <3>3 DEF Issued
    <3>5. \A t \in Threads : Listed(t)' = Listed(t) BY <3>3 DEF Listed
    <3>6. \A t \in Threads :
            /\ LineOfEvent(t)' = LineOfEvent(t)
            /\ LineOfParent(sub[t], cursor[t])' = LineOfParent(sub[t], cursor[t])
      BY <3>1, <3>3 DEF LineOfEvent, LineOfParent, Line
    <3>7. \A t \in Threads : sub[t] \in Subscribers BY <2>3 DEF TypeOK
    <3>8. OneSubscriber' <=> OneSubscriber BY DEF OneSubscriber
    <3>9. Followed' BY <2>3, <3>3, <3>4, <3>5, <3>6, <3>7, <3>8 DEF Followed
    <3> QED BY <2>2, <3>2, <3>9 DEF AncestryInv
  <2> QED BY <2>4, <2>5
<1> QED BY <1>1, <1>2, PTL DEF SpecAncestry

(* With one subscriber, the span list of an event leaves out an ancestor   *)
(* of the event's span only if it, or a span between the two, was closed:  *)
(* what build_span_context forgets is what the application let go.         *)
THEOREM OnlyClosedSpansCutTheList == SpecAncestry => []ListedUnlessClosed
<1>1. ASSUME AncestryInv, OneSubscriber, NEW t \in Threads, ListsSpans(t)
      PROVE  /\ Listed(t) \subseteq LineOfEvent(t)
             /\ \A a \in LineOfEvent(t) \ Listed(t) :
                  \E b \in LineOfEvent(t) :
                    a \in Line(sub[t], b) /\ References(<<sub[t], b>>) = 0
  <2> DEFINE c == cursor[t]
             x == <<sub[t], c>>
  <2>1. TypeOK /\ Ended BY <1>1 DEF AncestryInv, GuardInv, IInv
  <2>2. /\ Listed(t) \subseteq LineOfEvent(t)
        /\ LineOfParent(sub[t], c) \subseteq LineOfEvent(t)
        /\ LineOfEvent(t) \subseteq Listed(t) \union LineOfParent(sub[t], c)
    BY <1>1 DEF AncestryInv, Followed, ListsSpans
  <2>3. c # 0 => References(x) = 0
    <3> SUFFICES ASSUME c # 0 PROVE References(x) = 0
      OBVIOUS
    <3>1. x \in Span BY <2>1 DEF TypeOK, Span
    <3>2. \A u \in Threads : ~Holds(u, x) BY <1>1, <2>1, <3>1 DEF Ended, ListsSpans
    <3> HIDE DEF x
    <3> QED BY <2>1, <3>1, <3>2, NoReference
  <2>4. c # 0 => c \in LineOfParent(sub[t], c) /\ LineOfParent(sub[t], c) = Line(sub[t], c)
    BY DEF LineOfParent, Line
  <2>5. c = 0 => LineOfParent(sub[t], c) = {} BY DEF LineOfParent
  <2> HIDE DEF c
  <2> QED BY <2>2, <2>3, <2>4, <2>5
<1>2. AncestryInv => ListedUnlessClosed BY <1>1 DEF ListedUnlessClosed
<1> QED BY <1>2, AncestryInvariance, PTL

=============================================================================

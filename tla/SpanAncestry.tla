---------------------------- MODULE SpanAncestry ----------------------------
(***************************************************************************)
(* Spans with a history variable that remembers who the ancestors of a     *)
(* span are.  RedlineSubscriber knows them only as long as the spans in    *)
(* between are stored (redline/src/subscriber.rs): a child does not keep   *)
(* its parent open, and build_span_context gives up at a parent that is    *)
(* closed.  What is lost then can be said only with the help of history.   *)
(***************************************************************************)
EXTENDS Spans

VARIABLE ancestors   \* history, per subscriber: the ancestors of each span

history == <<vars, ancestors>>

(* A span and its ancestors.                                               *)
Line(s, id) == {id} \union ancestors[s][id]

InitAncestry ==
  /\ Init
  /\ ancestors = [s \in Subscribers |-> [id \in Id |-> {}]]

(* A span that is inserted descends from the parent it was given.          *)
LineOfParent(s, parent) == IF parent = 0 THEN {} ELSE Line(s, parent)

Descent(s, id) ==
  IF id \in Stored(s)' \ Stored(s)
  THEN LineOfParent(s, entries'[s][id].parent)
  ELSE ancestors[s][id]

RecordAncestors ==
  ancestors' = [s \in Subscribers |-> [id \in Id |-> Descent(s, id)]]

NextAncestry == Next /\ RecordAncestors

SpecAncestry == InitAncestry /\ [][NextAncestry]_history

FairAncestry == SpecAncestry /\ Fairness

-----------------------------------------------------------------------------
(* Properties.                                                             *)

Listed(t) == {chain[t][i].id : i \in 1..Len(chain[t])}

(* The event's span and its ancestors.                                     *)
LineOfEvent(t) == Line(sub[t], chain[t][1].id)

ListsSpans(t) == IncludeSpanList /\ pc[t] = "emit" /\ chain[t] # <<>>

(* With one subscriber, the span list of an event has the event's span and *)
(* ancestors of it and nothing else, and it leaves out an ancestor only if *)
(* nobody refers any more to it or to a span between it and the event's:   *)
(* though parents were named long before, handles come and go during the   *)
(* walk of build_span_context, and no child keeps its parent open.         *)
ListedUnlessClosed ==
  \A t \in Threads : (OneSubscriber /\ ListsSpans(t)) =>
    /\ Listed(t) \subseteq LineOfEvent(t)
    /\ \A a \in LineOfEvent(t) \ Listed(t) :
         \E b \in LineOfEvent(t) : a \in Line(sub[t], b) /\ References(<<sub[t], b>>) = 0

(* Claimed by EncodeConfig's documentation ("Include the full entered span *)
(* chain.") and by Builder's ("Includes the full entered span chain in     *)
(* encoded events."): an ancestor of the event's span that the thread has  *)
(* entered and not left is listed.  Closing a span in between refutes it.  *)
EnteredChainListed ==
  \A t \in Threads : ListsSpans(t) =>
    \A a \in LineOfEvent(t) : <<sub[t], a>> \in Range(guards[t]) => a \in Listed(t)

=============================================================================

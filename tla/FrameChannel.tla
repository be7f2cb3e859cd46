---------------------------- MODULE FrameChannel ----------------------------
(***************************************************************************)
(* What the sink of redline promises to the threads that log through it,   *)
(* without its queue, its worker or its counters.  A frame is accepted,    *)
(* and some time later it is delivered to the output or lost to a write    *)
(* error.  Frames are delivered in the order in which they were accepted.  *)
(* A flush remembers how many frames had been accepted when it was         *)
(* requested, and may report success only when each of them is settled.    *)
(***************************************************************************)
EXTENDS Naturals

CONSTANT Threads

VARIABLES
  accepted,   \* number of frames accepted so far: frame n is the n-th one
  delivered,  \* frames that reached the output
  lost,       \* accepted frames that never will: their write failed
  flush,      \* per thread: outcome of its latest flush
  mark        \* per thread: value of accepted when that flush was requested

vars == <<accepted, delivered, lost, flush, mark>>

Outcome == {"none", "pending", "ok", "err", "closed"}

Init ==
  /\ accepted = 0
  /\ delivered = {}
  /\ lost = {}
  /\ flush = [t \in Threads |-> "none"]
  /\ mark = [t \in Threads |-> 0]

Accept ==
  /\ accepted' = accepted + 1
  /\ UNCHANGED <<delivered, lost, flush, mark>>

InFlight == (1..accepted) \ (delivered \union lost)

(* Frames in flight are delivered behind every frame delivered earlier.    *)
Deliver ==
  /\ delivered \subseteq delivered'
  /\ delivered' \ delivered \subseteq InFlight
  /\ \A n \in delivered' \ delivered : \A m \in delivered : m < n

Lose ==
  /\ lost \subseteq lost'
  /\ lost' \ lost \subseteq InFlight \ delivered'

Settle ==
  /\ delivered' \in SUBSET (1..accepted)
  /\ lost' \in SUBSET (1..accepted)
  /\ Deliver
  /\ Lose
  /\ UNCHANGED <<accepted, flush, mark>>

Request(t) ==
  /\ flush[t] # "pending"
  /\ flush' = [flush EXCEPT ![t] = "pending"]
  /\ mark' = [mark EXCEPT ![t] = accepted]
  /\ UNCHANGED <<accepted, delivered, lost>>

Covered(t) == 1..mark[t] \subseteq delivered \union lost

Complete(t, outcome) ==
  /\ flush[t] = "pending"
  /\ outcome = "ok" => Covered(t)
  /\ flush' = [flush EXCEPT ![t] = outcome]
  /\ UNCHANGED <<accepted, delivered, lost, mark>>

(* A flush ends "closed" when its acknowledgement channel was dropped.     *)
Next ==
  \/ Accept
  \/ Settle
  \/ \E t \in Threads :
       \/ Request(t)
       \/ \E outcome \in {"ok", "err", "closed"} : Complete(t, outcome)

Spec == Init /\ [][Next]_vars

=============================================================================

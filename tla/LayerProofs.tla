---------------------------- MODULE LayerProofs -----------------------------
(***************************************************************************)
(* Proofs about the layer, for every number of threads and layers, every   *)
(* filter of each and every bound: the tree of spans and the context of an *)
(* event, capturing and merging, and the types of the calls; then the      *)
(* inductive invariant: what a write in progress owns, what a layer has    *)
(* read of an event's context, and that the slot of every open span is     *)
(* fresh.                                                                  *)
(***************************************************************************)
EXTENDS Layer, FiniteSetTheorems, SequenceTheorems, NaturalsInduction, TLAPS

-----------------------------------------------------------------------------
(* Least elements.                                                         *)

LEMMA LeastOf ==
  ASSUME NEW I \in SUBSET Nat, I # {}
  PROVE  \E m \in I : \A k \in I : m <= k
<1> DEFINE less == {p \in Nat \X Nat : p[1] < p[2]}
<1>1. IsWellFoundedOn(less, Nat)
  <2>1. less = OpToRel(<, Nat) BY DEF OpToRel
  <2> HIDE DEF less
  <2> QED BY <2>1, NatLessThanWellFounded
<1>2. PICK m \in I : \A k \in I : <<k, m>> \notin less
  <2> HIDE DEF less
  <2> QED BY <1>1, WFMin
<1>3. \A k \in I : k \in Nat /\ m \in Nat /\ ~(k < m) BY <1>2
<1> QED BY <1>3

-----------------------------------------------------------------------------
(* A finite set as a sequence, which captured values and the names an      *)
(* update adds are.                                                        *)

LEMMA Listed ==
  ASSUME NEW S, IsFiniteSet(S)
  PROVE  /\ SetToSeq(S) \in [1..Cardinality(S) -> S]
         /\ Cardinality(S) \in Nat
         /\ IsInjective(SetToSeq(S))
         /\ Range(SetToSeq(S)) = S
<1> DEFINE n == Cardinality(S)
           q == SetToSeq(S)
<1>1. n \in Nat /\ ExistsBijection(1..n, S) BY FS_CardinalityType
<1>2. PICK f \in Bijection(1..n, S) : TRUE BY <1>1 DEF ExistsBijection
<1>3. f \in [1..n -> S] /\ IsInjective(f)
  BY <1>2 DEF Bijection, Injection
<1>4. q \in [1..n -> S] /\ IsInjective(q)
  BY <1>3 DEF SetToSeq
<1> HIDE DEF q
<1>5. q \in Injection(1..n, S) BY <1>4 DEF Injection
<1>6. IsFiniteSet(1..n) /\ Cardinality(1..n) = n
  BY <1>1, FS_Interval
<1> HIDE DEF n
<1>7. q \in Surjection(1..n, S) BY <1>5, <1>6, FS_Injection DEF n
<1>8. Range(q) = S BY <1>4, <1>7 DEF Surjection, Range
<1> QED BY <1>1, <1>4, <1>8 DEF q, n

LEMMA ListedSeq ==
  ASSUME NEW S, IsFiniteSet(S)
  PROVE  /\ SetToSeq(S) \in Seq(S)
         /\ \A x \in S : \E i \in DOMAIN SetToSeq(S) : SetToSeq(S)[i] = x
         /\ \A i, j \in DOMAIN SetToSeq(S) : SetToSeq(S)[i] = SetToSeq(S)[j] => i = j
<1> DEFINE q == SetToSeq(S)
<1>1. /\ q \in [1..Cardinality(S) -> S] /\ Cardinality(S) \in Nat
      /\ IsInjective(q) /\ Range(q) = S
  BY Listed
<1> HIDE DEF q
<1>2. q \in Seq(S) BY <1>1
<1>3. \A x \in S : \E i \in DOMAIN q : q[i] = x BY <1>1 DEF Range
<1>4. \A i, j \in DOMAIN q : q[i] = q[j] => i = j BY <1>1 DEF IsInjective
<1> QED BY <1>2, <1>3, <1>4 DEF q

-----------------------------------------------------------------------------
(* The tree of spans: a parent was created before its children, and spans  *)
(* are only added.                                                         *)

Tree == spans \in Seq([parent : 0..MaxSpans, site : Sites])
Older == \A id \in Id : spans[id].parent < id

LEMMA TreeDomain ==
  ASSUME Tree
  PROVE  /\ Len(spans) \in Nat /\ Id = 1..Len(spans)
         /\ \A id \in Id : spans[id].parent \in Nat /\ spans[id].site \in Sites
<1> DEFINE R == [parent : 0..MaxSpans, site : Sites]
<1>1. spans \in Seq(R) BY DEF Tree
<1>2. \A r \in R : r.parent \in Nat /\ r.site \in Sites OBVIOUS
<1> HIDE DEF R
<1>3. /\ Len(spans) \in Nat /\ DOMAIN spans = 1..Len(spans)
      /\ \A id \in 1..Len(spans) : spans[id] \in R
  BY <1>1
<1> QED BY <1>2, <1>3 DEF Id

(* The ancestors of a span are itself and those of its parent.             *)
LEMMA AncestorsOf ==
  ASSUME Tree, Older
  PROVE  /\ Ancestors(0) = {}
         /\ \A id \in Id : /\ spans[id].parent \in Id \union {0}
                           /\ Ancestors(id) = {id} \union Ancestors(spans[id].parent)
<1> USE TreeDomain
<1> DEFINE Closed(S, id) == /\ id \in S \union {0}
                            /\ \A y \in S : spans[y].parent \in S \union {0}
<1>1. \A id : Ancestors(id) = {x \in Id : \A S \in SUBSET Id : Closed(S, id) => x \in S}
  BY DEF Ancestors
<1>2. \A id \in Id : spans[id].parent \in Id \union {0} BY DEF Older
<1>3. Ancestors(0) = {}
  <2>1. {} \in SUBSET Id /\ Closed({}, 0) OBVIOUS
  <2> QED BY <1>1, <2>1
<1>4. ASSUME NEW id \in Id
      PROVE  Ancestors(id) = {id} \union Ancestors(spans[id].parent)
  <2> DEFINE p == spans[id].parent
             U == {id} \union Ancestors(p)
  <2>1. p \in Id \union {0} BY <1>2
  <2>2. \A S \in SUBSET Id : Closed(S, id) => Closed(S, p) OBVIOUS
  <2> HIDE DEF p
  <2>3. Ancestors(p) \subseteq Ancestors(id)
    <3> HIDE DEF Closed
    <3> QED BY <1>1, <2>2
  <2>4. id \in Ancestors(id)
    <3>1. \A S \in SUBSET Id : Closed(S, id) => id \in S OBVIOUS
    <3> HIDE DEF Closed
    <3> QED BY <1>1, <3>1
  <2>5. U \in SUBSET Id BY <1>1
  <2>6. \A y \in Ancestors(p) : spans[y].parent \in Ancestors(p) \union {0}
    <3> TAKE y \in Ancestors(p)
    <3>1. y \in Id /\ \A S \in SUBSET Id : Closed(S, p) => y \in S
      <4> HIDE DEF Closed
      <4> QED BY <1>1
    <3>2. spans[y].parent \in Id \union {0} BY <1>2, <3>1
    <3>3. \A S \in SUBSET Id : Closed(S, p) => spans[y].parent \in S \union {0}
      BY <3>1
    <3> HIDE DEF Closed
    <3>4. CASE spans[y].parent # 0
      <4>1. spans[y].parent \in Id BY <3>2, <3>4
      <4>2. \A S \in SUBSET Id : Closed(S, p) => spans[y].parent \in S BY <3>3, <3>4
      <4> QED BY <1>1, <4>1, <4>2
    <3> QED BY <3>4
  <2>7. p \in Ancestors(p) \union {0}
    <3>1. CASE p # 0
      <4>1. p \in Id /\ \A S \in SUBSET Id : Closed(S, p) => p \in S BY <2>1, <3>1
      <4> HIDE DEF Closed
      <4> QED BY <1>1, <4>1
    <3> QED BY <3>1
  <2>8. Closed(U, id) BY <2>6, <2>7 DEF p
  <2>9. Ancestors(id) \subseteq U
    <3> HIDE DEF Closed, U
    <3> QED BY <1>1, <2>5, <2>8
  <2> QED BY <2>3, <2>4, <2>9 DEF p
<1> QED BY <1>2, <1>3, <1>4

(* A new span leaves everybody's ancestors as they were.                   *)
LEMMA AncestorsKept ==
  ASSUME Tree, Older, NEW r, spans' = Append(spans, r), NEW id \in Id \union {0}
  PROVE  Ancestors(id)' = Ancestors(id)
<1> USE TreeDomain
<1> DEFINE Closed(S) == /\ id \in S \union {0}
                        /\ \A y \in S : spans[y].parent \in S \union {0}
           After(S) == /\ id \in S \union {0}
                       /\ \A y \in S : spans'[y].parent \in S \union {0}
<1>1. Ancestors(id) = {x \in Id : \A S \in SUBSET Id : Closed(S) => x \in S}
  BY DEF Ancestors
<1>2. Ancestors(id)' = {x \in Id' : \A S \in SUBSET Id' : After(S) => x \in S}
  BY DEF Ancestors
<1>3. /\ Id \subseteq Id' /\ \A y \in Id : spans'[y] = spans[y]
      /\ \A y \in Id : spans[y].parent \in Id \union {0}
  <2>1. spans \in Seq([parent : 0..MaxSpans, site : Sites]) BY DEF Tree
  <2>2. Id' = 1..Len(spans) + 1 /\ \A y \in 1..Len(spans) : spans'[y] = spans[y]
    BY <2>1 DEF Id
  <2>3. \A y \in Id : spans[y].parent \in Id \union {0} BY DEF Older
  <2> QED BY <2>2, <2>3
<1>4. \A S \in SUBSET Id : Closed(S) => S \in SUBSET Id' /\ After(S) BY <1>3
<1>5. \A S \in SUBSET Id' : After(S) => S \intersect Id \in SUBSET Id /\ Closed(S \intersect Id)
  BY <1>3
<1>6. Id \in SUBSET Id /\ Closed(Id) BY <1>3
<1> HIDE DEF Closed, After
<1>7. Ancestors(id) \subseteq Ancestors(id)' BY <1>1, <1>2, <1>3, <1>5
<1>8. Ancestors(id)' \subseteq Ancestors(id)
  <2> SUFFICES ASSUME NEW x \in Ancestors(id)' PROVE x \in Ancestors(id) OBVIOUS
  <2>1. \A S \in SUBSET Id : Closed(S) => x \in S BY <1>2, <1>4
  <2>2. x \in Id BY <1>6, <2>1
  <2> QED BY <1>1, <2>1, <2>2
<1> QED BY <1>7, <1>8

-----------------------------------------------------------------------------
(* The spans of an event's context, from the root on.                      *)

(* What InContext computes, one span at a time.                            *)
LineOf(layer) ==
  /\ InContext(layer, 0) = <<>>
  /\ \A id \in Id :
       InContext(layer, id) =
         IF Passes(layer, spans[id].site)
           THEN Append(InContext(layer, spans[id].parent), id)
           ELSE InContext(layer, spans[id].parent)

LEMMA ContextOf == Tree /\ Older => \A layer : LineOf(layer)
<1> SUFFICES ASSUME Tree, Older, NEW layer PROVE LineOf(layer) OBVIOUS
<1> USE TreeDomain
<1> DEFINE n == Len(spans)
           Def(f, k) == IF k = 0 THEN <<>>
                        ELSE IF Passes(layer, spans[k].site)
                               THEN Append(f[spans[k].parent], k)
                               ELSE f[spans[k].parent]
           line == CHOOSE f : f = [k \in 0..n |-> Def(f, k)]
<1>1. \A id : InContext(layer, id) = line[id] BY DEF InContext
<1> DEFINE Upto(k, f) == /\ f \in [0..k -> Seq(Id)]
                         /\ \A j \in 0..k : f[j] = Def(f, j)
           Missing == {k \in 0..n : \A f : ~Upto(k, f)}
<1>2. ASSUME NEW k \in 1..n, NEW f, Upto(k - 1, f)
      PROVE  \E g : Upto(k, g)
  <2> DEFINE g == [j \in 0..k |-> IF j = k THEN Def(f, k) ELSE f[j]]
  <2>1. /\ k \in Id /\ spans[k].parent \in 0..k - 1
        /\ \A j \in 1..k - 1 : j \in Id /\ spans[j].parent \in 0..j - 1
    BY DEF Older
  <2>2. \A j \in 0..k - 1 : g[j] = f[j] /\ g[j] \in Seq(Id)
    <3>1. f \in [0..k - 1 -> Seq(Id)] BY <1>2
    <3>2. \A j \in 0..k - 1 : j \in 0..k /\ j # k OBVIOUS
    <3> HIDE DEF Def
    <3> QED BY <3>1, <3>2
  <2>3. Def(f, k) \in Seq(Id) /\ g[k] = Def(f, k)
    BY <1>2, <2>1
  <2>4. g \in [0..k -> Seq(Id)] BY <1>2, <2>3
  <2>5. Def(g, k) = Def(f, k) BY <2>1, <2>2
  <2>6. \A j \in 0..k - 1 : Def(g, j) = Def(f, j) BY <2>1, <2>2
  <2>7. \A j \in 0..k : g[j] = Def(g, j)
    <3> TAKE j \in 0..k
    <3>1. CASE j = k BY <2>3, <2>5, <3>1
    <3>2. CASE j \in 0..k - 1
      <4>1. f[j] = Def(f, j) BY <1>2, <3>2
      <4> QED BY <2>2, <2>6, <3>2, <4>1
    <3> QED BY <3>1, <3>2
  <2> QED BY <2>4, <2>7
<1>3. \E f : Upto(0, f)
  <2>1. Upto(0, [j \in 0..0 |-> <<>>]) OBVIOUS
  <2> QED BY <2>1
<1>4. Missing = {}
  <2> SUFFICES ASSUME Missing # {} PROVE FALSE OBVIOUS
  <2>1. Missing \in SUBSET Nat OBVIOUS
  <2>2. PICK m \in Missing : \A k \in Missing : m <= k
    <3> HIDE DEF Missing
    <3> QED BY <2>1, LeastOf
  <2>3. m \in 0..n /\ \A f : ~Upto(m, f) BY <2>2
  <2> HIDE DEF Upto
  <2>4. m # 0 BY <1>3, <2>3
  <2>5. m \in 1..n /\ m - 1 \in 0..n BY <2>3, <2>4
  <2>6. m - 1 \notin Missing
    <3> HIDE DEF Missing
    <3> QED BY <2>2, <2>5
  <2>7. PICK f : Upto(m - 1, f) BY <2>5, <2>6
  <2> QED BY <1>2, <2>3, <2>5, <2>7
<1>5. PICK f : Upto(n, f)
  <2> HIDE DEF Upto
  <2>1. n \in 0..n OBVIOUS
  <2> QED BY <1>4, <2>1
<1>6. f = [k \in 0..n |-> Def(f, k)] BY <1>5
<1>7. line = [k \in 0..n |-> Def(line, k)]
  <2> HIDE DEF Def
  <2> QED BY <1>6
<1> HIDE DEF line
<1>8. InContext(layer, 0) = <<>>
  <2>1. line[0] = Def(line, 0)
    <3>1. 0 \in 0..n OBVIOUS
    <3> HIDE DEF Def
    <3> QED BY <1>7, <3>1
  <2> QED BY <1>1, <2>1
<1>9. ASSUME NEW id \in Id
      PROVE  InContext(layer, id) =
               IF Passes(layer, spans[id].site)
                 THEN Append(InContext(layer, spans[id].parent), id)
                 ELSE InContext(layer, spans[id].parent)
  <2>1. id \in 0..n /\ id # 0 OBVIOUS
  <2>2. line[id] = Def(line, id)
    <3> HIDE DEF Def
    <3> QED BY <1>7, <2>1
  <2> QED BY <1>1, <2>1, <2>2
<1> QED BY <1>8, <1>9 DEF LineOf

LEMMA ContextOfNext == (Tree /\ Older => \A layer : LineOf(layer))'
BY ContextOf, PTL

(* An event's context is the visible spans among its ancestors, all of     *)
(* them, in the order in which they were created.                          *)
LEMMA ContextListsVisible ==
  ASSUME Tree, Older, NEW layer
  PROVE  \A id \in Id \union {0} :
           /\ InContext(layer, id) \in Seq(Id)
           /\ Range(InContext(layer, id))
                = {x \in Ancestors(id) : Passes(layer, spans[x].site)}
           /\ \A i \in 1..Len(InContext(layer, id)) :
                /\ InContext(layer, id)[i] <= id
                /\ \A j \in 1..Len(InContext(layer, id)) :
                     i < j => InContext(layer, id)[i] < InContext(layer, id)[j]
<1> USE TreeDomain
<1> DEFINE C(id) == InContext(layer, id)
           Visible(id) == {x \in Ancestors(id) : Passes(layer, spans[x].site)}
           Right(id) == /\ C(id) \in Seq(Id)
                        /\ Range(C(id)) = Visible(id)
                        /\ \A i \in 1..Len(C(id)) :
                             /\ C(id)[i] <= id
                             /\ \A j \in 1..Len(C(id)) : i < j => C(id)[i] < C(id)[j]
           Wrong == {id \in Id \union {0} : ~Right(id)}
<1>1. Right(0)
  <2>1. C(0) = <<>> /\ Visible(0) = {} BY ContextOf, AncestorsOf DEF LineOf
  <2> HIDE DEF C, Visible
  <2>2. C(0) \in Seq(Id) /\ 1..Len(C(0)) = {} /\ DOMAIN C(0) = {}
    <3>1. <<>> \in Seq(Id) /\ 1..Len(<<>>) = {} BY EmptySeq
    <3>2. DOMAIN <<>> = {} OBVIOUS
    <3> QED BY <2>1, <3>1, <3>2
  <2>3. Range(C(0)) = {} BY <2>2 DEF Range
  <2> QED BY <2>1, <2>2, <2>3
<1>2. ASSUME NEW id \in Id, Right(spans[id].parent)
      PROVE  Right(id)
  <2> DEFINE p == spans[id].parent
  <2>1. p \in Nat /\ p < id /\ id \in Nat BY DEF Older
  <2>2. Ancestors(id) = {id} \union Ancestors(p) BY AncestorsOf
  <2>3. C(id) = IF Passes(layer, spans[id].site) THEN Append(C(p), id) ELSE C(p)
    BY ContextOf DEF LineOf
  <2>4. Right(p) BY <1>2
  <2>5. CASE ~Passes(layer, spans[id].site)
    <3>1. Visible(id) = Visible(p) BY <2>2, <2>5
    <3>2. C(id) = C(p) BY <2>3, <2>5
    <3> HIDE DEF C, Visible, p
    <3>3. \A i \in 1..Len(C(p)) : C(p)[i] \in Id BY <2>4
    <3> QED BY <2>1, <2>4, <3>1, <3>2, <3>3
  <2>6. CASE Passes(layer, spans[id].site)
    <3>1. Visible(id) = Visible(p) \union {id} BY <2>2, <2>6
    <3>2. C(id) = Append(C(p), id) BY <2>3, <2>6
    <3> HIDE DEF C, Visible, p
    <3>3. /\ C(p) \in Seq(Id) /\ Range(C(p)) = Visible(p)
          /\ \A i \in 1..Len(C(p)) :
               /\ C(p)[i] <= p
               /\ \A j \in 1..Len(C(p)) : i < j => C(p)[i] < C(p)[j]
      BY <2>4
    <3>4. Len(C(p)) \in Nat /\ \A i \in 1..Len(C(p)) : C(p)[i] \in Id /\ C(p)[i] \in Nat
      BY <3>3
    <3>5. /\ C(id) \in Seq(Id) /\ Len(C(id)) = Len(C(p)) + 1
          /\ \A i \in 1..Len(C(p)) : C(id)[i] = C(p)[i]
          /\ C(id)[Len(C(p)) + 1] = id
      BY <3>2, <3>3, AppendProperties
    <3>6. Range(C(id)) = Visible(id)
      <4>1. DOMAIN C(id) = 1..Len(C(p)) + 1 /\ DOMAIN C(p) = 1..Len(C(p))
        BY <3>3, <3>5
      <4>2. Range(C(id)) = Range(C(p)) \union {id}
        <5>1. Len(C(p)) + 1 \in DOMAIN C(id) BY <3>4, <4>1
        <5>2. DOMAIN C(id) = DOMAIN C(p) \union {Len(C(p)) + 1} BY <3>4, <4>1
        <5>3. \A i \in DOMAIN C(p) : C(id)[i] = C(p)[i] BY <3>5, <4>1
        <5> QED BY <3>5, <5>1, <5>2, <5>3, Zenon DEF Range
      <4> QED BY <3>1, <3>3, <4>2
    <3>7. ASSUME NEW i \in 1..Len(C(id))
          PROVE  /\ C(id)[i] <= id
                 /\ \A j \in 1..Len(C(id)) : i < j => C(id)[i] < C(id)[j]
      <4>1. CASE i = Len(C(p)) + 1 BY <2>1, <3>4, <3>5, <4>1
      <4>2. CASE i \in 1..Len(C(p))
        <5>1. C(id)[i] <= p /\ C(id)[i] \in Nat BY <3>3, <3>4, <3>5, <4>2
        <5>2. \A j \in 1..Len(C(p)) : i < j => C(id)[i] < C(id)[j]
          BY <3>3, <3>5, <4>2
        <5> QED BY <2>1, <3>4, <3>5, <5>1, <5>2
      <4> QED BY <3>4, <3>5, <4>1, <4>2
    <3> QED BY <3>5, <3>6, <3>7
  <2> QED BY <2>5, <2>6
<1> HIDE DEF Right
<1>3. Wrong = {}
  <2> SUFFICES ASSUME Wrong # {} PROVE FALSE OBVIOUS
  <2>1. Wrong \in SUBSET Nat OBVIOUS
  <2>2. PICK m \in Wrong : \A k \in Wrong : m <= k
    <3> HIDE DEF Wrong
    <3> QED BY <2>1, LeastOf
  <2>3. m \in Id /\ ~Right(m) BY <1>1, <2>2
  <2>4. /\ spans[m].parent \in Id \union {0} /\ spans[m].parent < m
        /\ spans[m].parent \in Nat
    BY <2>3, AncestorsOf DEF Older
  <2>5. spans[m].parent \notin Wrong
    <3> HIDE DEF Wrong
    <3> QED BY <2>1, <2>2, <2>4
  <2>6. Right(spans[m].parent) BY <2>4, <2>5
  <2> QED BY <1>2, <2>3, <2>6
<1> QED BY <1>3 DEF Right

(* A new span leaves the context of the others as it was.                  *)
LEMMA ContextKept ==
  ASSUME Tree, Older, Tree', Older', NEW r, spans' = Append(spans, r), NEW layer
  PROVE  \A id \in Id \union {0} : InContext(layer, id)' = InContext(layer, id)
<1> USE TreeDomain
<1> DEFINE B(id) == InContext(layer, id)
           A(id) == InContext(layer, id)'
           Wrong == {id \in Id \union {0} : A(id) # B(id)}
<1>1. LineOf(layer) BY ContextOf
<1>2. LineOf(layer)' BY ContextOfNext
<1>3. /\ Id \subseteq Id' /\ \A y \in Id : spans'[y] = spans[y]
      /\ \A y \in Id : spans[y].parent \in Id \union {0} /\ spans[y].parent < y
  <2>1. spans \in Seq([parent : 0..MaxSpans, site : Sites]) BY DEF Tree
  <2>2. Id' = 1..Len(spans) + 1 /\ \A y \in 1..Len(spans) : spans'[y] = spans[y]
    BY <2>1 DEF Id
  <2>3. \A y \in Id : spans[y].parent \in Id \union {0} BY DEF Older
  <2> QED BY <2>2, <2>3 DEF Older
<1>4. A(0) = B(0) BY <1>1, <1>2 DEF LineOf
<1>5. ASSUME NEW id \in Id, A(spans[id].parent) = B(spans[id].parent)
      PROVE  A(id) = B(id)
  <2>1. B(id) = IF Passes(layer, spans[id].site) THEN Append(B(spans[id].parent), id)
                ELSE B(spans[id].parent)
    BY <1>1 DEF LineOf
  <2>2. A(id) = IF Passes(layer, spans[id].site) THEN Append(A(spans[id].parent), id)
                ELSE A(spans[id].parent)
    <3>1. id \in Id' /\ spans'[id] = spans[id] BY <1>3
    <3> HIDE DEF A
    <3> QED BY <1>2, <3>1 DEF LineOf, A, Passes
  <2> HIDE DEF A, B
  <2> QED BY <1>5, <2>1, <2>2
<1> HIDE DEF A, B
<1>6. Wrong = {}
  <2> SUFFICES ASSUME Wrong # {} PROVE FALSE OBVIOUS
  <2>1. Wrong \in SUBSET Nat OBVIOUS
  <2>2. PICK m \in Wrong : \A k \in Wrong : m <= k
    <3> HIDE DEF Wrong
    <3> QED BY <2>1, LeastOf
  <2>3. m \in Id /\ A(m) # B(m) BY <1>4, <2>2
  <2>4. spans[m].parent \in Id \union {0} /\ spans[m].parent < m /\ spans[m].parent \in Nat
    BY <1>3, <2>3
  <2>5. spans[m].parent \notin Wrong
    <3> HIDE DEF Wrong
    <3> QED BY <2>1, <2>2, <2>4
  <2>6. A(spans[m].parent) = B(spans[m].parent) BY <2>4, <2>5
  <2> QED BY <1>5, <2>3, <2>6
<1> QED BY <1>6 DEF A, B

-----------------------------------------------------------------------------
(* The fields of a span: what capturing and merging make of them.          *)

LEMMA CapturedFields ==
  ASSUME NEW w \in Write, writes[w].names \in SUBSET FieldNames,
         IsFiniteSet(writes[w].names)
  PROVE  /\ Captured(w) \in Fields
         /\ \A f \in Range(Captured(w)) : f.name \in writes[w].names /\ f.value = w
         /\ \A n \in writes[w].names : \E f \in Range(Captured(w)) : f.name = n
<1> DEFINE q == SetToSeq(writes[w].names)
           F == [name : FieldNames, value : Write]
           c == [i \in DOMAIN q |-> [name |-> q[i], value |-> w]]
<1>1. /\ q \in Seq(writes[w].names)
      /\ \A n \in writes[w].names : \E i \in DOMAIN q : q[i] = n
      /\ \A i, j \in DOMAIN q : q[i] = q[j] => i = j
  BY ListedSeq
<1> HIDE DEF q
<1>2. /\ Len(q) \in Nat /\ DOMAIN q = 1..Len(q)
      /\ \A i \in DOMAIN q : q[i] \in writes[w].names
  BY <1>1
<1>3. Captured(w) = c BY DEF Captured, q
<1>4. \A i \in DOMAIN q : c[i].name = q[i] /\ c[i].value = w /\ c[i] \in F
  BY <1>2
<1>5. c \in Seq(F)
  <2>1. c = [i \in 1..Len(q) |-> c[i]] BY <1>2
  <2>2. \A i \in 1..Len(q) : c[i] \in F BY <1>2, <1>4
  <2> HIDE DEF c, F
  <2> QED BY <1>2, <2>1, <2>2
<1>6. DOMAIN c = DOMAIN q OBVIOUS
<1> HIDE DEF c
<1>7. c \in Fields BY <1>1, <1>4, <1>5, <1>6 DEF Fields
<1>8. \A f \in Range(c) : f.name \in writes[w].names /\ f.value = w
  BY <1>2, <1>4, <1>6 DEF Range
<1>9. \A n \in writes[w].names : \E f \in Range(c) : f.name = n
  BY <1>1, <1>4, <1>6 DEF Range
<1> QED BY <1>3, <1>7, <1>8, <1>9

(* Merging keeps one value per name: that of the update if it has one.     *)
LEMMA MergedFields ==
  ASSUME NEW existing \in Fields, NEW updates \in Fields
  PROVE  /\ MergeFields(existing, updates) \in Fields
         /\ \A u \in Range(updates) : u \in Range(MergeFields(existing, updates))
         /\ \A f \in Range(existing) :
              (\A u \in Range(updates) : u.name # f.name)
                => f \in Range(MergeFields(existing, updates))
         /\ \A f \in Range(MergeFields(existing, updates)) :
              f \in Range(updates) \/ f \in Range(existing)
<1> DEFINE F == [name : FieldNames, value : Write]
           Of(f) == {u \in Range(updates) : u.name = f.name}
           Updated(f) == IF Of(f) = {} THEN f ELSE CHOOSE u \in Of(f) : TRUE
           kept == [i \in DOMAIN existing |-> Updated(existing[i])]
           rest == {u \in Range(updates) : u.name \notin NamesOf(existing)}
           added == Unnamed(existing, updates)
           merged == kept \o added
<1>1. /\ existing \in Seq(F) /\ updates \in Seq(F)
      /\ \A i, j \in DOMAIN existing : existing[i].name = existing[j].name => i = j
      /\ \A i, j \in DOMAIN updates : updates[i].name = updates[j].name => i = j
  BY DEF Fields
<1>2. MergeFields(existing, updates) = merged BY DEF MergeFields
<1>3. \A f : \/ Updated(f) = f /\ (\A u \in Range(updates) : u.name # f.name)
             \/ Updated(f) \in Range(updates) /\ Updated(f).name = f.name
  OBVIOUS
<1>4. /\ Range(updates) \subseteq F /\ IsFiniteSet(Range(updates))
      /\ \A u, v \in Range(updates) : u.name = v.name => u = v
  <2>1. DOMAIN updates = 1..Len(updates) /\ Len(updates) \in Nat BY <1>1
  <2>2. IsFiniteSet(DOMAIN updates) BY <2>1, FS_Interval
  <2>3. \A i \in DOMAIN updates : updates[i] \in F
    <3> HIDE DEF F
    <3> QED BY <1>1, <2>1
  <2>4. updates \in Surjection(DOMAIN updates, Range(updates))
    BY <2>1, <1>1 DEF Surjection, Range
  <2>5. IsFiniteSet(Range(updates)) BY <2>2, <2>4, FS_Surjection
  <2> HIDE DEF F
  <2> QED BY <1>1, <2>3, <2>5 DEF Range
<1>5. /\ added \in Seq(rest)
      /\ \A u \in rest : \E i \in DOMAIN added : added[i] = u
      /\ \A i, j \in DOMAIN added : added[i] = added[j] => i = j
  <2>1. IsFiniteSet(rest) BY <1>4, FS_Subset
  <2>2. added = SetToSeq(rest) BY DEF Unnamed
  <2> HIDE DEF rest, added
  <2> QED BY <2>1, <2>2, ListedSeq
<1>6. /\ kept \in Seq(F) /\ Len(kept) = Len(existing) /\ DOMAIN kept = DOMAIN existing
      /\ DOMAIN existing = 1..Len(existing) /\ Len(existing) \in Nat
      /\ \A i \in DOMAIN existing : /\ kept[i] = Updated(existing[i])
                                    /\ kept[i].name = existing[i].name
                                    /\ kept[i] \in F
  <2>1. /\ DOMAIN existing = 1..Len(existing) /\ Len(existing) \in Nat
        /\ \A i \in DOMAIN existing : existing[i] \in F
    <3> HIDE DEF F
    <3> QED BY <1>1
  <2>2. ASSUME NEW i \in DOMAIN existing
        PROVE  /\ kept[i] = Updated(existing[i])
               /\ kept[i].name = existing[i].name
               /\ kept[i] \in F
    <3>1. kept[i] = Updated(existing[i]) OBVIOUS
    <3>2. existing[i] \in F BY <2>1
    <3> HIDE DEF Updated, kept, F
    <3> QED BY <1>3, <1>4, <3>1, <3>2
  <2>3. kept \in Seq(F) /\ Len(kept) = Len(existing)
    <3>1. DOMAIN kept = 1..Len(existing) BY <2>1
    <3>2. kept = [i \in 1..Len(existing) |-> kept[i]] BY <2>1
    <3> HIDE DEF kept, F, Updated
    <3> QED BY <2>1, <2>2, <3>1, <3>2
  <2> QED BY <2>1, <2>2, <2>3
<1> HIDE DEF kept, added, Updated
<1>7. added \in Seq(F) /\ Len(added) \in Nat /\ DOMAIN added = 1..Len(added)
  <2>1. rest \subseteq F BY <1>4
  <2> HIDE DEF rest, F
  <2> QED BY <1>5, <2>1, SeqMonotonic
<1>8. \A i \in DOMAIN added : added[i] \in rest
  <2> HIDE DEF rest
  <2> QED BY <1>5, <1>7
<1>9. /\ merged \in Seq(F) /\ Len(merged) = Len(kept) + Len(added)
      /\ DOMAIN merged = 1..Len(kept) + Len(added)
      /\ \A i \in 1..Len(kept) + Len(added) :
           merged[i] = IF i <= Len(kept) THEN kept[i] ELSE added[i - Len(kept)]
  <2>1. /\ merged \in Seq(F) /\ Len(merged) = Len(kept) + Len(added)
        /\ \A i \in 1..Len(kept) + Len(added) :
             merged[i] = IF i <= Len(kept) THEN kept[i] ELSE added[i - Len(kept)]
    <3>1. kept \in Seq(F) /\ added \in Seq(F) BY <1>6, <1>7
    <3> HIDE DEF F
    <3> QED BY <3>1, ConcatProperties
  <2> HIDE DEF merged, F
  <2> QED BY <1>6, <1>7, <2>1
<1> HIDE DEF merged
<1>10. ASSUME NEW i \in DOMAIN merged
       PROVE  \/ i \in DOMAIN existing /\ merged[i] = kept[i]
              \/ /\ i - Len(kept) \in DOMAIN added /\ i > Len(kept)
                 /\ merged[i] = added[i - Len(kept)]
  <2>1. i \in 1..Len(kept) + Len(added) BY <1>9
  <2>2. CASE i <= Len(kept)
    <3>1. i \in DOMAIN existing BY <1>6, <2>1, <2>2
    <3> QED BY <1>9, <2>1, <2>2, <3>1
  <2>3. CASE i > Len(kept)
    <3>1. i - Len(kept) \in DOMAIN added BY <1>6, <1>7, <2>1, <2>3
    <3>2. ~ (i <= Len(kept)) BY <1>6, <2>1, <2>3
    <3> QED BY <1>9, <2>1, <2>3, <3>1, <3>2
  <2> QED BY <1>6, <2>1, <2>2, <2>3
<1>11. \A i \in DOMAIN existing : i \in DOMAIN merged /\ merged[i] = kept[i]
  BY <1>6, <1>7, <1>9
<1>12. ASSUME NEW k \in DOMAIN added
       PROVE  \E i \in DOMAIN merged : merged[i] = added[k]
  <2>1. /\ k + Len(kept) \in 1..Len(kept) + Len(added)
        /\ ~ (k + Len(kept) <= Len(kept)) /\ k + Len(kept) - Len(kept) = k
    BY <1>6, <1>7
  <2> QED BY <1>9, <2>1
<1>13. \A u \in rest : u \in Range(merged)
  <2> HIDE DEF rest
  <2> QED BY <1>5, <1>12 DEF Range
<1>14. \A i, j \in DOMAIN merged : merged[i].name = merged[j].name => i = j
  <2> SUFFICES ASSUME NEW i \in DOMAIN merged, NEW j \in DOMAIN merged,
                      merged[i].name = merged[j].name
               PROVE  i = j
    OBVIOUS
  <2>1. \A k \in DOMAIN existing : existing[k].name \in NamesOf(existing)
    BY DEF NamesOf, Range
  <2>2. \A k \in DOMAIN added : added[k].name \notin NamesOf(existing) /\ added[k] \in Range(updates)
    BY <1>8
  <2>3. \A k, l \in DOMAIN added : added[k].name = added[l].name => k = l
    BY <1>4, <1>5, <2>2
  <2>4. CASE i \in DOMAIN existing /\ merged[i] = kept[i]
             /\ j \in DOMAIN existing /\ merged[j] = kept[j]
    BY <1>1, <1>6, <2>4
  <2>5. CASE i - Len(kept) \in DOMAIN added /\ merged[i] = added[i - Len(kept)]
             /\ j - Len(kept) \in DOMAIN added /\ merged[j] = added[j - Len(kept)]
    <3>1. i - Len(kept) = j - Len(kept) BY <2>3, <2>5
    <3> QED BY <1>6, <1>7, <1>9, <3>1
  <2>6. CASE i \in DOMAIN existing /\ merged[i] = kept[i]
             /\ j - Len(kept) \in DOMAIN added /\ merged[j] = added[j - Len(kept)]
    BY <1>6, <2>1, <2>2, <2>6
  <2>7. CASE j \in DOMAIN existing /\ merged[j] = kept[j]
             /\ i - Len(kept) \in DOMAIN added /\ merged[i] = added[i - Len(kept)]
    BY <1>6, <2>1, <2>2, <2>7
  <2> QED BY <1>10, <2>4, <2>5, <2>6, <2>7
<1>15. merged \in Fields BY <1>9, <1>14 DEF Fields
<1>16. ASSUME NEW u \in Range(updates)
       PROVE  u \in Range(merged)
  <2>1. CASE u.name \in NamesOf(existing)
    <3>1. PICK i \in DOMAIN existing : existing[i].name = u.name
      BY <2>1 DEF NamesOf, Range
    <3>2. u \in Of(existing[i]) BY <3>1
    <3>3. Updated(existing[i]) \in Range(updates) /\ Updated(existing[i]).name = u.name
      BY <1>3, <3>1
    <3>4. kept[i] = u BY <1>4, <1>6, <3>3
    <3> QED BY <1>11, <3>4 DEF Range
  <2>2. CASE u \in rest BY <1>13, <2>2
  <2> QED BY <2>1, <2>2
<1>17. ASSUME NEW f \in Range(existing), \A u \in Range(updates) : u.name # f.name
       PROVE  f \in Range(merged)
  <2>1. PICK i \in DOMAIN existing : existing[i] = f BY DEF Range
  <2>2. kept[i] = f BY <1>3, <1>6, <1>17, <2>1
  <2> QED BY <1>11, <2>1, <2>2 DEF Range
<1>18. ASSUME NEW f \in Range(merged)
       PROVE  f \in Range(updates) \/ f \in Range(existing)
  <2>1. PICK i \in DOMAIN merged : merged[i] = f BY DEF Range
  <2>2. CASE i \in DOMAIN existing /\ merged[i] = kept[i]
    <3>1. existing[i] \in Range(existing) BY <2>2 DEF Range
    <3> QED BY <1>3, <1>6, <2>1, <2>2, <3>1
  <2>3. CASE i - Len(kept) \in DOMAIN added /\ merged[i] = added[i - Len(kept)]
    BY <1>8, <2>1, <2>3
  <2> QED BY <1>10, <2>2, <2>3
<1> QED BY <1>2, <1>15, <1>16, <1>17, <1>18

-----------------------------------------------------------------------------
(* The calls of a thread and what a step makes of them.                    *)

(* The call as the layer gets it.                                          *)
Entered(call, layer) ==
  [call EXCEPT !.layer = layer, !.scope = Scope(call, layer), !.chain = <<>>,
               !.stage = IF Scope(call, layer) = <<>> THEN "visit" ELSE "read"]

Returns(t, first, call, caller) ==
  /\ \A l \in first..LayerCount : ~Passes(l, call.site)
  /\ calls' = [calls EXCEPT ![t] = caller]
  /\ held' = held \union (IF call.op = "new_span" THEN {call.span} ELSE {})
  /\ returned' = returned \union ({call.write} \ {0})

Enters(t, call, caller, layer) ==
  /\ Passes(layer, call.site)
  /\ calls' = [calls EXCEPT ![t] = Append(caller, Entered(call, layer))]
  /\ held' = held /\ returned' = returned

LEMMA Through ==
  ASSUME NEW t, NEW first \in Nat \ {0}, NEW call, NEW caller,
         GoThrough(t, first, call, caller)
  PROVE  \/ Returns(t, first, call, caller)
         \/ \E layer \in Layers : Enters(t, call, caller, layer)
<1> DEFINE rest == {l \in first..LayerCount : Passes(l, call.site)}
           layer == CHOOSE l \in rest : \A other \in rest : l <= other
           scope == Scope(call, layer)
<1>1. CASE rest = {}
  <2>1. \A l \in first..LayerCount : ~Passes(l, call.site) BY <1>1
  <2>2. /\ calls' = [calls EXCEPT ![t] = caller]
        /\ held' = held \union (IF call.op = "new_span" THEN {call.span} ELSE {})
        /\ returned' = returned \union ({call.write} \ {0})
    BY <1>1 DEF GoThrough
  <2> QED BY <2>1, <2>2 DEF Returns
<1>2. CASE rest # {}
  <2>1. layer \in rest
    <3>1. rest \in SUBSET Nat BY LayerAssumption
    <3> HIDE DEF rest
    <3> QED BY <1>2, <3>1, LeastOf
  <2>2. /\ calls' = [calls EXCEPT ![t] = Append(caller,
                      [call EXCEPT !.layer = layer, !.scope = scope, !.chain = <<>>,
                                   !.stage = IF scope = <<>> THEN "visit" ELSE "read"])]
        /\ UNCHANGED <<held, returned>>
    BY <1>2 DEF GoThrough
  <2> HIDE DEF layer
  <2>3. layer \in Layers /\ Passes(layer, call.site) BY <2>1, LayerAssumption DEF Layers
  <2> QED BY <2>2, <2>3 DEF Enters, Entered
<1> QED BY <1>1, <1>2

(* The calls that stay when a call is pushed, goes on or returns.          *)
Under(t, caller) ==
  /\ caller \in Seq(Call)
  /\ \A j \in DOMAIN caller : j \in DOMAIN calls[t] /\ calls[t][j] = caller[j]

LEMMA UnderAll ==
  ASSUME TypeOK, NEW t \in Threads
  PROVE  /\ Under(t, calls[t])
         /\ ~Idle(t) => /\ Under(t, Front(calls[t]))
                        /\ Top(t) \in Call
                        /\ Len(calls[t]) \in DOMAIN calls[t]
                        /\ Top(t) = calls[t][Len(calls[t])]
                        /\ Len(Front(calls[t])) = Len(calls[t]) - 1
<1> DEFINE q == calls[t]
<1>1. q \in Seq(Call) BY DEF TypeOK
<1> HIDE DEF q
<1>2. Len(q) \in Nat /\ DOMAIN q = 1..Len(q) /\ \A j \in 1..Len(q) : q[j] \in Call BY <1>1
<1>3. Under(t, q) BY <1>1 DEF Under, q
<1>4. ASSUME q # <<>>
      PROVE  /\ Front(q) \in Seq(Call) /\ Len(Front(q)) = Len(q) - 1
             /\ \A j \in DOMAIN Front(q) : j \in DOMAIN q /\ q[j] = Front(q)[j]
             /\ Len(q) \in DOMAIN q
  <2>1. Len(q) # 0 BY <1>1, <1>4, EmptySeq
  <2>2. 1 \in 1..Len(q) + 1 /\ Len(q) - 1 \in 1 - 1..Len(q) /\ Len(q) \in DOMAIN q
    BY <1>2, <2>1
  <2>3. Front(q) = SubSeq(q, 1, Len(q) - 1) BY DEF Front
  <2>4. /\ SubSeq(q, 1, Len(q) - 1) \in Seq(Call)
        /\ Len(SubSeq(q, 1, Len(q) - 1)) = Len(q) - 1
        /\ \A j \in 1..Len(q) - 1 : SubSeq(q, 1, Len(q) - 1)[j] = q[j]
    BY <1>1, <1>2, <2>1
  <2> QED BY <1>2, <2>2, <2>3, <2>4
<1> QED BY <1>2, <1>3, <1>4 DEF Idle, Top, Last, Under, q

LEMMA CallsPushed ==
  ASSUME TypeOK, NEW t \in Threads, NEW caller, Under(t, caller), NEW e,
         calls' = [calls EXCEPT ![t] = Append(caller, e)]
  PROVE  /\ \A u \in Threads : u # t => calls'[u] = calls[u]
         /\ DOMAIN calls'[t] = 1..Len(caller) + 1 /\ Len(caller) \in Nat
         /\ DOMAIN caller = 1..Len(caller)
         /\ calls'[t][Len(caller) + 1] = e
         /\ \A j \in 1..Len(caller) : /\ j \in DOMAIN calls[t]
                                      /\ calls'[t][j] = calls[t][j]
<1> DEFINE S == Call \union {e}
<1>1. calls'[t] = Append(caller, e) /\ \A u \in Threads : u # t => calls'[u] = calls[u]
  BY DEF TypeOK
<1>2. caller \in Seq(S) /\ e \in S /\ DOMAIN caller = 1..Len(caller) /\ Len(caller) \in Nat
  <2>1. caller \in Seq(Call) BY DEF Under
  <2>2. Call \subseteq S OBVIOUS
  <2> HIDE DEF S
  <2>3. caller \in Seq(S) BY <2>1, <2>2, SeqMonotonic
  <2> QED BY <2>3 DEF S
<1>3. /\ Append(caller, e) \in Seq(S) /\ Len(Append(caller, e)) = Len(caller) + 1
      /\ \A j \in 1..Len(caller) : Append(caller, e)[j] = caller[j]
      /\ Append(caller, e)[Len(caller) + 1] = e
  <2> HIDE DEF S
  <2> QED BY <1>2, AppendProperties
<1>4. DOMAIN Append(caller, e) = 1..Len(caller) + 1 BY <1>3
<1> QED BY <1>1, <1>2, <1>3, <1>4 DEF Under

-----------------------------------------------------------------------------
(* Type correctness.                                                       *)

(* What TypeOK leaves open: the bound on spans, and the shape of a write.  *)
Typed ==
  /\ TypeOK
  /\ Len(spans) <= MaxSpans
  /\ writes \in Seq([span : Nat, names : FieldSets, before : SUBSET Nat])

(* The span of a call exists, a call that writes has a write, and a layer  *)
(* reads spans as long as there is one left.                               *)
Naming(c) ==
  /\ c.stage = "read" <=> c.scope # <<>>
  /\ c.op = "event" => c.write = 0
  /\ c.op # "event" => c.span \in Id /\ c.write \in Write

AllNaming == \A t \in Threads : \A i \in DOMAIN calls[t] : Naming(calls[t][i])

LEMMA Domains ==
  ASSUME Typed
  PROVE  /\ Tree /\ Len(spans) \in Nat /\ Id = 1..Len(spans)
         /\ Len(writes) \in Nat /\ Write = 1..Len(writes)
         /\ \A w \in Write : /\ writes[w].names \in FieldSets
                             /\ writes[w].names \in SUBSET FieldNames
                             /\ IsFiniteSet(writes[w].names)
                             /\ writes[w].span \in Id
                             /\ writes[w].before \subseteq 1..w - 1
<1> DEFINE W == [span : Nat, names : FieldSets, before : SUBSET Nat]
<1>1. Tree BY DEF Typed, TypeOK, Tree
<1>2. writes \in Seq(W) BY DEF Typed
<1>3. \A w \in W : w.names \in FieldSets OBVIOUS
<1> HIDE DEF W
<1>4. /\ Len(writes) \in Nat /\ DOMAIN writes = 1..Len(writes)
      /\ \A w \in DOMAIN writes : writes[w] \in W
  BY <1>2
<1>5. \A w \in Write : writes[w].names \in FieldSets BY <1>3, <1>4 DEF Write
<1>6. \A w \in Write : /\ writes[w].names \in SUBSET FieldNames
                       /\ IsFiniteSet(writes[w].names)
  BY <1>5, LayerAssumption DEF FieldNames
<1> QED BY <1>1, <1>4, <1>5, <1>6, TreeDomain DEF Write, Typed, TypeOK

LEMMA Growing ==
  ASSUME Id \subseteq Id', Write \subseteq Write'
  PROVE  /\ Fields \subseteq Fields'
         /\ Call \subseteq Call'
<1> DEFINE F == [name : FieldNames, value : Write]
           G == [name : FieldNames, value : Write']
           S == [id : Id, fields : Fields]
           T == [id : Id', fields : Fields']
<1>1. Fields \subseteq Fields'
  <2> SUFFICES ASSUME NEW f \in Fields PROVE f \in Fields' OBVIOUS
  <2>1. f \in Seq(F) /\ \A i, j \in DOMAIN f : f[i].name = f[j].name => i = j
    BY DEF Fields
  <2>2. F \subseteq G OBVIOUS
  <2>3. f \in Seq(G)
    <3> HIDE DEF F, G
    <3> QED BY <2>1, <2>2, SeqMonotonic
  <2> QED BY <2>1, <2>3 DEF Fields
<1>2. S \subseteq T
  <2> SUFFICES ASSUME NEW s \in S PROVE s \in T OBVIOUS
  <2> QED BY <1>1
<1>3. ASSUME NEW c \in Call PROVE c \in Call'
  <2>1. /\ c \in [op : {"new_span", "record", "event"}, layer : Layers,
                  stage : {"read", "visit", "locked", "emit"},
                  span : Id \union {0}, site : Sites, write : Write \union {0},
                  began : SUBSET Write, scope : Seq(Id), chain : Seq(S)]
    BY DEF Call
  <2> HIDE DEF S, T
  <2>2. Seq(S) \subseteq Seq(T)
    <3> SUFFICES ASSUME NEW q \in Seq(S) PROVE q \in Seq(T) OBVIOUS
    <3> QED BY <1>2, SeqMonotonic
  <2>3. Seq(Id) \subseteq Seq(Id')
    <3> SUFFICES ASSUME NEW q \in Seq(Id) PROVE q \in Seq(Id') OBVIOUS
    <3> QED BY SeqMonotonic
  <2>4. c \in [op : {"new_span", "record", "event"}, layer : Layers,
               stage : {"read", "visit", "locked", "emit"},
               span : Id' \union {0}, site : Sites, write : Write' \union {0},
               began : SUBSET Write', scope : Seq(Id'), chain : Seq(T)]
    BY <2>1, <2>2, <2>3
  <2> QED BY <2>4 DEF Call, T
<1> QED BY <1>1, <1>3

LEMMA CallsTyped ==
  ASSUME TypeOK, NEW t \in Threads, NEW caller, Under(t, caller), Call \subseteq Call'
  PROVE  /\ calls' = [calls EXCEPT ![t] = caller] => calls' \in [Threads -> Seq(Call')]
         /\ \A e \in Call' : calls' = [calls EXCEPT ![t] = Append(caller, e)]
                               => calls' \in [Threads -> Seq(Call')]
         /\ calls' = calls => calls' \in [Threads -> Seq(Call')]
<1> DEFINE D == Call'
<1>1. \A q \in Seq(Call) : q \in Seq(D)
  <2> TAKE q \in Seq(Call)
  <2> HIDE DEF D
  <2>1. Call \subseteq D BY DEF D
  <2> QED BY <2>1, SeqMonotonic
<1>2. calls \in [Threads -> Seq(Call)] BY DEF TypeOK
<1>3. calls \in [Threads -> Seq(D)]
  <2> HIDE DEF D
  <2> QED BY <1>1, <1>2
<1>4. caller \in Seq(D) BY <1>1 DEF Under
<1> HIDE DEF D
<1>5. calls' = [calls EXCEPT ![t] = caller] => calls' \in [Threads -> Seq(D)]
  BY <1>3, <1>4
<1>6. ASSUME NEW e \in D, calls' = [calls EXCEPT ![t] = Append(caller, e)]
      PROVE  calls' \in [Threads -> Seq(D)]
  <2>1. Append(caller, e) \in Seq(D) BY <1>4
  <2> QED BY <1>3, <1>6, <2>1
<1>7. calls' = calls => calls' \in [Threads -> Seq(D)] BY <1>3
<1> QED BY <1>5, <1>6, <1>7 DEF D

(* The record of a call that begins, and of a call that moves on.          *)
Begun(op, id, site, write) ==
  [op |-> op, layer |-> 1, stage |-> "visit", span |-> id, site |-> site,
   write |-> write, began |-> returned, scope |-> <<>>, chain |-> <<>>]

LEMMA StartThrough ==
  ASSUME NEW t, NEW op, NEW id, NEW site, NEW write, Start(t, op, id, site, write)
  PROVE  \/ Returns(t, 1, Begun(op, id, site, write), calls[t])
         \/ \E layer \in Layers : Enters(t, Begun(op, id, site, write), calls[t], layer)
<1>1. GoThrough(t, 1, Begun(op, id, site, write), calls[t]) BY DEF Start, Begun
<1> QED BY <1>1, Through

LEMMA DoneThrough ==
  ASSUME TypeOK, NEW t \in Threads, ~Idle(t), CallbackDone(t)
  PROVE  \/ Returns(t, Top(t).layer + 1, Top(t), Front(calls[t]))
         \/ \E layer \in Layers : Enters(t, Top(t), Front(calls[t]), layer)
<1>1. Top(t) \in Call BY UnderAll
<1>2. Top(t).layer + 1 \in Nat \ {0} BY <1>1, LayerAssumption DEF Call, Layers
<1>3. GoThrough(t, Top(t).layer + 1, Top(t), Front(calls[t])) BY DEF CallbackDone
<1> HIDE DEF Returns, Enters
<1> QED BY <1>2, <1>3, Through

LEMMA BegunType ==
  ASSUME NEW op \in {"new_span", "record", "event"}, NEW id \in Id' \union {0},
         NEW site \in Sites, NEW write \in Write' \union {0}, returned \subseteq Write'
  PROVE  Begun(op, id, site, write) \in Call'
<1> DEFINE C == [id : Id', fields : Fields']
<1>1. 1 \in Layers BY LayerAssumption DEF Layers
<1>2. <<>> \in Seq(Id') /\ <<>> \in Seq(C) OBVIOUS
<1> HIDE DEF C
<1>3. Begun(op, id, site, write) \in
        [op : {"new_span", "record", "event"}, layer : Layers,
         stage : {"read", "visit", "locked", "emit"},
         span : Id' \union {0}, site : Sites, write : Write' \union {0},
         began : SUBSET Write', scope : Seq(Id'), chain : Seq(C)]
  BY <1>1, <1>2 DEF Begun
<1> QED BY <1>3 DEF Call, C

LEMMA EnteredType ==
  ASSUME NEW call \in Call', NEW layer \in Layers, Scope(call, layer) \in Seq(Id')
  PROVE  /\ Entered(call, layer) \in Call'
         /\ Entered(call, layer).op = call.op
         /\ Entered(call, layer).layer = layer
         /\ Entered(call, layer).span = call.span
         /\ Entered(call, layer).site = call.site
         /\ Entered(call, layer).write = call.write
         /\ Entered(call, layer).began = call.began
         /\ Entered(call, layer).scope = Scope(call, layer)
         /\ Entered(call, layer).chain = <<>>
         /\ Entered(call, layer).stage
              = (IF Scope(call, layer) = <<>> THEN "visit" ELSE "read")
<1> DEFINE C == [id : Id', fields : Fields']
           T == [op : {"new_span", "record", "event"}, layer : Layers,
                 stage : {"read", "visit", "locked", "emit"},
                 span : Id' \union {0}, site : Sites, write : Write' \union {0},
                 began : SUBSET Write', scope : Seq(Id'), chain : Seq(C)]
<1>1. <<>> \in Seq(C) OBVIOUS
<1>2. call \in T BY DEF Call
<1> HIDE DEF C
<1> DEFINE scope == Scope(call, layer)
<1>3. scope \in Seq(Id') OBVIOUS
<1> HIDE DEF scope
<1> DEFINE e == [call EXCEPT !.layer = layer, !.scope = scope, !.chain = <<>>,
                             !.stage = IF scope = <<>> THEN "visit" ELSE "read"]
<1>4. /\ e \in T /\ e.op = call.op /\ e.layer = layer /\ e.span = call.span
      /\ e.site = call.site /\ e.write = call.write /\ e.began = call.began
      /\ e.scope = scope /\ e.chain = <<>>
      /\ e.stage = (IF scope = <<>> THEN "visit" ELSE "read")
  BY <1>1, <1>2, <1>3
<1>5. e = Entered(call, layer) BY DEF Entered, scope
<1>6. T = Call' BY DEF Call, C
<1> QED BY <1>4, <1>5, <1>6 DEF scope

(* The spans that a layer has to look up are spans.                        *)
LEMMA ScopeType ==
  ASSUME Tree, Older, NEW call, NEW layer,
         call.op = "event" => call.span \in Id \union {0}
  PROVE  Scope(call, layer) \in Seq(Id)
<1>1. <<>> \in Seq(Id) OBVIOUS
<1> QED BY <1>1, ContextListsVisible DEF Scope

(* What a call that goes through the layers leaves of the types.           *)
LEMMA ThroughType ==
  ASSUME TypeOK, NEW t \in Threads, NEW caller, Under(t, caller), NEW call \in Call',
         Id \subseteq Id', Write \subseteq Write', NEW first,
         call.op = "new_span" => call.span \in Id',
         \A layer \in Layers : Scope(call, layer) \in Seq(Id'),
         \/ Returns(t, first, call, caller)
         \/ \E layer \in Layers : Enters(t, call, caller, layer)
  PROVE  /\ calls' \in [Threads -> Seq(Call')]
         /\ held' \subseteq Id' /\ returned' \subseteq Write'
<1>1. Call \subseteq Call' BY Growing
<1>2. held \subseteq Id' /\ returned \subseteq Write' /\ call.write \in Write' \union {0}
  BY DEF TypeOK, Call
<1>3. CASE Returns(t, first, call, caller)
  BY <1>1, <1>2, <1>3, CallsTyped DEF Returns
<1>4. CASE \E layer \in Layers : Enters(t, call, caller, layer)
  <2>1. PICK layer \in Layers : Enters(t, call, caller, layer) BY <1>4
  <2>2. Entered(call, layer) \in Call' BY EnteredType
  <2>3. calls' \in [Threads -> Seq(Call')]
    BY <1>1, <2>1, <2>2, CallsTyped DEF Enters
  <2> QED BY <1>2, <2>1, <2>3 DEF Enters
<1> QED BY <1>3, <1>4

LEMMA WriteAdded ==
  ASSUME Typed, NEW id \in Nat, id \in Id', Id \subseteq Id',
         NEW names \in FieldSets, AddWrite(id, names)
  PROVE  /\ Write' = Write \union {Len(writes) + 1} /\ Len(writes) + 1 \notin Write
         /\ Len(writes) + 1 # 0
         /\ \A w \in Write : writes'[w] = writes[w]
         /\ writes'[Len(writes) + 1] = [span |-> id, names |-> names, before |-> returned]
         /\ writes' \in Seq([span : Nat, names : FieldSets, before : SUBSET Nat])
         /\ \A w \in Write' : /\ writes'[w].span \in Id'
                              /\ writes'[w].names \subseteq FieldNames
                              /\ writes'[w].before \subseteq 1..w - 1
<1> DEFINE W == [span : Nat, names : FieldSets, before : SUBSET Nat]
           e == [span |-> id, names |-> names, before |-> returned]
<1>1. writes \in Seq(W) /\ writes' = Append(writes, e) BY DEF Typed, AddWrite
<1>2. /\ Len(writes) \in Nat /\ Write = 1..Len(writes)
      /\ \A w \in Write : /\ writes[w].span \in Id /\ writes[w].names \subseteq FieldNames
                          /\ writes[w].before \subseteq 1..w - 1
  BY Domains
<1>3. returned \subseteq 1..Len(writes) BY <1>2 DEF Typed, TypeOK
<1>4. e \in W BY <1>3
<1> HIDE DEF W, e
<1>5. /\ Append(writes, e) \in Seq(W) /\ Len(Append(writes, e)) = Len(writes) + 1
      /\ \A w \in 1..Len(writes) : Append(writes, e)[w] = writes[w]
      /\ Append(writes, e)[Len(writes) + 1] = e
  BY <1>1, <1>4, AppendProperties
<1>6. Write' = 1..Len(writes) + 1
  BY <1>1, <1>5 DEF Write
<1>7. names \subseteq FieldNames BY DEF FieldNames
<1>8. /\ Write' = Write \union {Len(writes) + 1} /\ Len(writes) + 1 \notin Write
      /\ Len(writes) + 1 # 0
  BY <1>2, <1>6
<1>9. ASSUME NEW w \in Write'
      PROVE  /\ writes'[w].span \in Id' /\ writes'[w].names \subseteq FieldNames
             /\ writes'[w].before \subseteq 1..w - 1
  <2>1. CASE w \in Write BY <1>1, <1>2, <1>5, <2>1
  <2>2. CASE w = Len(writes) + 1
    <3>1. writes'[w] = [span |-> id, names |-> names, before |-> returned]
      BY <1>1, <1>5, <2>2 DEF e
    <3>2. returned \subseteq 1..w - 1 BY <1>2, <1>3, <2>2
    <3> QED BY <1>7, <3>1, <3>2
  <2> QED BY <1>8, <2>1, <2>2
<1> QED BY <1>1, <1>2, <1>5, <1>8, <1>9 DEF W, e

LEMMA SpanAdded ==
  ASSUME Typed, Len(spans) < MaxSpans, NEW parent \in 0..MaxSpans, NEW site \in Sites,
         spans' = Append(spans, [parent |-> parent, site |-> site])
  PROVE  /\ Id' = Id \union {Len(spans) + 1} /\ Len(spans) + 1 \notin Id
         /\ Len(spans) + 1 # 0 /\ Len(spans') = Len(spans) + 1
         /\ \A id \in Id : spans'[id] = spans[id]
         /\ spans'[Len(spans) + 1].parent = parent
         /\ spans'[Len(spans) + 1].site = site
         /\ spans' \in Seq([parent : 0..MaxSpans, site : Sites])
         /\ Len(spans') <= MaxSpans
<1> DEFINE S == [parent : 0..MaxSpans, site : Sites]
           e == [parent |-> parent, site |-> site]
<1>1. spans \in Seq(S) /\ spans' = Append(spans, e) /\ e \in S
  BY DEF Typed, TypeOK
<1>2. Len(spans) \in Nat /\ Id = 1..Len(spans) BY Domains
<1> HIDE DEF S, e
<1>3. /\ Append(spans, e) \in Seq(S) /\ Len(Append(spans, e)) = Len(spans) + 1
      /\ \A w \in 1..Len(spans) : Append(spans, e)[w] = spans[w]
      /\ Append(spans, e)[Len(spans) + 1] = e
  BY <1>1, AppendProperties
<1>4. Id' = 1..Len(spans) + 1 BY <1>1, <1>3 DEF Id
<1>5. Len(spans) + 1 <= MaxSpans BY <1>2, LayerAssumption
<1>6. /\ Id' = Id \union {Len(spans) + 1} /\ Len(spans) + 1 \notin Id /\ Len(spans) + 1 # 0
  BY <1>2, <1>4
<1>7. spans'[Len(spans) + 1] = e BY <1>1, <1>3
<1> QED BY <1>1, <1>2, <1>3, <1>5, <1>6, <1>7 DEF S, e

LEMMA TypeInit == Init => Typed /\ Older /\ AllNaming
<1> SUFFICES ASSUME Init PROVE Typed /\ Older /\ AllNaming OBVIOUS
<1> USE LayerAssumption
<1>1. spans = <<>> /\ slots = <<>> /\ writes = <<>> /\ held = {} /\ returned = {}
      /\ events = 0 /\ calls = [t \in Threads |-> <<>>]
      /\ writer = [id \in 1..MaxSpans |-> {}]
  BY DEF Init
<1>2. /\ DOMAIN <<>> = {} /\ Len(<<>>) = 0
      /\ \A S : <<>> \in Seq(S)
  OBVIOUS
<1>3. Id = {} /\ Write = {} BY <1>1, <1>2 DEF Id, Write
<1>4. calls \in [Threads -> Seq(Call)] /\ \A t \in Threads : DOMAIN calls[t] = {}
  BY <1>1, <1>2
<1>5. 0 <= MaxSpans /\ 0 \in 0..MaxEvents OBVIOUS
<1>6. /\ spans \in Seq([parent : 0..MaxSpans, site : Sites])
      /\ writes \in Seq([span : Nat, names : FieldSets, before : SUBSET Nat])
  BY <1>1, <1>2
<1>7. DOMAIN slots = {} BY <1>1, <1>2
<1>8. writer \in [1..MaxSpans -> SUBSET Threads] BY <1>1
<1>9. TypeOK BY <1>1, <1>3, <1>4, <1>5, <1>6, <1>7, <1>8 DEF TypeOK
<1>10. Typed BY <1>1, <1>2, <1>5, <1>6, <1>9 DEF Typed
<1>11. Older BY <1>3 DEF Older
<1>12. AllNaming BY <1>4 DEF AllNaming
<1> QED BY <1>10, <1>11, <1>12

(* Steps that add neither a span nor a write.                              *)
LEMMA Unmoved ==
  ASSUME Typed, UNCHANGED <<spans, writes>>
  PROVE  /\ Id' = Id /\ Write' = Write /\ Fields' = Fields /\ Call' = Call
         /\ \A w \in Write' : /\ writes'[w].span \in Id' /\ writes'[w].names \subseteq FieldNames
                              /\ writes'[w].before \subseteq 1..w - 1
         /\ spans' \in Seq([parent : 0..MaxSpans, site : Sites])
         /\ Len(spans') <= MaxSpans
         /\ writes' \in Seq([span : Nat, names : FieldSets, before : SUBSET Nat])
<1>1. Id' = Id /\ Write' = Write BY DEF Id, Write
<1>2. Fields' = Fields BY <1>1 DEF Fields
<1>3. Call' = Call BY <1>1, <1>2 DEF Call
<1> QED BY <1>1, <1>2, <1>3 DEF Typed, TypeOK

LEMMA TypeStep == Typed /\ Older /\ AllNaming /\ [Next]_vars => Typed'
<1> SUFFICES ASSUME Typed, Older, AllNaming, [Next]_vars PROVE Typed' OBVIOUS
<1> USE LayerAssumption
<1>0. TypeOK BY DEF Typed
<1>a. Tree /\ Id = 1..Len(spans) /\ Len(spans) \in Nat /\ \A id \in Id : id \in 1..MaxSpans
  BY Domains DEF Typed
<1>b. /\ held \subseteq Id /\ events \in 0..MaxEvents /\ returned \subseteq Write
      /\ writer \in [1..MaxSpans -> SUBSET Threads]
      /\ DOMAIN slots \subseteq Id /\ \A id \in DOMAIN slots : slots[id] \in Fields
  BY <1>0 DEF TypeOK
<1>1. ASSUME NEW t \in Threads, NEW site \in Sites, NEW parent \in {0} \union held,
             NEW names \in FieldSets, NewSpan(t, parent, site, names)
      PROVE  Typed'
  <2> DEFINE n == Len(spans) + 1
             w == Len(writes) + 1
             call == Begun("new_span", n, site, w)
  <2>1. /\ Len(spans) < MaxSpans /\ AddWrite(n, names)
        /\ spans' = Append(spans, [parent |-> parent, site |-> site])
        /\ Start(t, "new_span", n, site, w)
        /\ UNCHANGED <<slots, writer, events>>
    BY <1>1 DEF NewSpan
  <2>2. parent \in 0..MaxSpans BY <1>a, <1>b
  <2>3. /\ Id' = Id \union {n} /\ spans' \in Seq([parent : 0..MaxSpans, site : Sites])
        /\ Len(spans') <= MaxSpans
    BY <2>1, <2>2, SpanAdded
  <2>4. n \in Nat /\ n \in Id' /\ Id \subseteq Id' BY <1>a, <2>3
  <2>5. /\ Write' = Write \union {w}
        /\ writes' \in Seq([span : Nat, names : FieldSets, before : SUBSET Nat])
        /\ \A v \in Write' : /\ writes'[v].span \in Id'
                             /\ writes'[v].names \subseteq FieldNames
                             /\ writes'[v].before \subseteq 1..v - 1
    <3> HIDE DEF n
    <3> QED BY <2>1, <2>4, WriteAdded
  <2>6. call \in Call' /\ call.op = "new_span" /\ call.span = n
    <3>1. returned \subseteq Write' BY <1>b, <2>5
    <3>2. w \in Write' \union {0} BY <2>5
    <3> HIDE DEF n, w
    <3>3. call \in Call' BY <2>4, <3>1, <3>2, BegunType
    <3> QED BY <3>3 DEF Begun
  <2> HIDE DEF n, w, call
  <2>7. \A layer \in Layers : Scope(call, layer) \in Seq(Id')
    <3>1. <<>> \in Seq(Id') OBVIOUS
    <3> QED BY <2>6, <3>1 DEF Scope
  <2>8. \/ Returns(t, 1, call, calls[t])
        \/ \E layer \in Layers : Enters(t, call, calls[t], layer)
    BY <2>1, StartThrough DEF call
  <2>9. Under(t, calls[t]) BY <1>0, UnderAll
  <2>10. Write \subseteq Write' BY <2>5
  <2>11. /\ calls' \in [Threads -> Seq(Call')]
         /\ held' \subseteq Id' /\ returned' \subseteq Write'
    BY <1>0, <2>4, <2>6, <2>7, <2>8, <2>9, <2>10, ThroughType
  <2>12. DOMAIN slots' \subseteq Id' /\ \A id \in DOMAIN slots' : slots'[id] \in Fields'
    BY <1>b, <2>1, <2>4, <2>10, Growing
  <2> QED BY <1>b, <2>1, <2>3, <2>5, <2>11, <2>12 DEF Typed, TypeOK
<1>2. ASSUME NEW t \in Threads, NEW id \in held, NEW names \in FieldSets,
             Record(t, id, names)
      PROVE  Typed'
  <2> DEFINE w == Len(writes) + 1
             call == Begun("record", id, spans[id].site, w)
  <2>1. /\ AddWrite(id, names) /\ Start(t, "record", id, spans[id].site, w)
        /\ UNCHANGED <<spans, slots, writer, events>>
    BY <1>2 DEF Record, registry
  <2>2. Id' = Id /\ id \in Id /\ id \in Nat /\ spans[id].site \in Sites
    BY <1>a, <1>b, <2>1, TreeDomain DEF Id
  <2>3. /\ Write' = Write \union {w}
        /\ writes' \in Seq([span : Nat, names : FieldSets, before : SUBSET Nat])
        /\ \A v \in Write' : /\ writes'[v].span \in Id'
                             /\ writes'[v].names \subseteq FieldNames
                             /\ writes'[v].before \subseteq 1..v - 1
    BY <2>1, <2>2, WriteAdded
  <2>4. call \in Call' /\ call.op = "record" /\ call.span = id
    <3>1. returned \subseteq Write' BY <1>b, <2>3
    <3>2. w \in Write' \union {0} BY <2>3
    <3> HIDE DEF w
    <3>3. call \in Call' BY <2>2, <3>1, <3>2, BegunType
    <3> QED BY <3>3 DEF Begun
  <2> HIDE DEF w, call
  <2>5. \A layer \in Layers : Scope(call, layer) \in Seq(Id')
    <3>1. <<>> \in Seq(Id') OBVIOUS
    <3> QED BY <2>4, <3>1 DEF Scope
  <2>6. \/ Returns(t, 1, call, calls[t])
        \/ \E layer \in Layers : Enters(t, call, calls[t], layer)
    BY <2>1, StartThrough DEF call
  <2>7. Under(t, calls[t]) BY <1>0, UnderAll
  <2>8. Write \subseteq Write' /\ Id \subseteq Id' BY <2>2, <2>3
  <2>9. /\ calls' \in [Threads -> Seq(Call')]
        /\ held' \subseteq Id' /\ returned' \subseteq Write'
    BY <1>0, <2>4, <2>5, <2>6, <2>7, <2>8, ThroughType
  <2>10. DOMAIN slots' \subseteq Id' /\ \A i \in DOMAIN slots' : slots'[i] \in Fields'
    BY <1>b, <2>1, <2>8, Growing
  <2>11. spans' \in Seq([parent : 0..MaxSpans, site : Sites]) /\ Len(spans') <= MaxSpans
    BY <2>1 DEF Typed, TypeOK
  <2> QED BY <1>b, <2>1, <2>3, <2>9, <2>10, <2>11 DEF Typed, TypeOK
<1>3. ASSUME NEW t \in Threads, NEW id \in {0} \union held, NEW site \in Sites,
             Event(t, id, site)
      PROVE  Typed'
  <2> DEFINE call == Begun("event", id, site, 0)
  <2>1. /\ events < MaxEvents /\ events' = events + 1 /\ Start(t, "event", id, site, 0)
        /\ UNCHANGED <<spans, slots, writer, writes>>
    BY <1>3 DEF Event, registry
  <2>2. /\ Id' = Id /\ Write' = Write /\ Fields' = Fields /\ Call' = Call
        /\ \A w \in Write' : /\ writes'[w].span \in Id' /\ writes'[w].names \subseteq FieldNames
                             /\ writes'[w].before \subseteq 1..w - 1
        /\ spans' \in Seq([parent : 0..MaxSpans, site : Sites])
        /\ Len(spans') <= MaxSpans
        /\ writes' \in Seq([span : Nat, names : FieldSets, before : SUBSET Nat])
    BY <2>1, Unmoved
  <2>3. call \in Call' /\ call.op = "event" /\ call.span = id
    <3>1. returned \subseteq Write' /\ id \in Id' \union {0} BY <1>b, <2>2
    <3>2. call \in Call' BY <3>1, BegunType
    <3> QED BY <3>2 DEF Begun
  <2> HIDE DEF call
  <2>4. \A layer \in Layers : Scope(call, layer) \in Seq(Id')
    BY <1>a, <1>b, <2>2, <2>3, ScopeType
  <2>5. \/ Returns(t, 1, call, calls[t])
        \/ \E layer \in Layers : Enters(t, call, calls[t], layer)
    BY <2>1, StartThrough DEF call
  <2>6. Under(t, calls[t]) BY <1>0, UnderAll
  <2>7. Write \subseteq Write' /\ Id \subseteq Id' BY <2>2
  <2>8. call.op = "new_span" => call.span \in Id' BY <2>3
  <2>9. /\ calls' \in [Threads -> Seq(Call')]
        /\ held' \subseteq Id' /\ returned' \subseteq Write'
    BY <1>0, <2>3, <2>4, <2>5, <2>6, <2>7, <2>8, ThroughType
  <2>10. events' \in 0..MaxEvents BY <1>b, <2>1
  <2> QED BY <1>b, <2>1, <2>2, <2>9, <2>10 DEF Typed, TypeOK
<1>4. ASSUME NEW id \in held, Drop(id)
      PROVE  Typed'
  <2>1. /\ held' = held \ {id} /\ UNCHANGED <<spans, writer, events, calls, writes, returned>>
        /\ \E S : slots' = Restrict(slots, DOMAIN slots \intersect S)
    BY <1>4 DEF Drop, history
  <2>2. /\ Id' = Id /\ Write' = Write /\ Fields' = Fields /\ Call' = Call BY <2>1, Unmoved
  <2>3. DOMAIN slots' \subseteq Id' /\ \A i \in DOMAIN slots' : slots'[i] \in Fields'
    BY <1>b, <2>1, <2>2 DEF Restrict
  <2> QED BY <1>b, <2>1, <2>2, <2>3 DEF Typed, TypeOK
<1>5. ASSUME NEW t \in Threads, Lock(t)
      PROVE  Typed'
  <2>1. /\ ~Idle(t) /\ Top(t).op # "event" /\ Top(t).stage = "visit"
        /\ writer' = [writer EXCEPT ![Top(t).span] = {t}]
        /\ calls' = [calls EXCEPT ![t] = Append(Front(@), [Top(t) EXCEPT !.stage = "locked"])]
        /\ UNCHANGED <<spans, slots, held, events, writes, returned>>
    BY <1>5 DEF Lock, In, At, Become, app, history
  <2>2. /\ Id' = Id /\ Write' = Write /\ Fields' = Fields /\ Call' = Call BY <2>1, Unmoved
  <2>3. Under(t, Front(calls[t])) /\ Top(t) \in Call BY <1>0, <2>1, UnderAll
  <2>4. [Top(t) EXCEPT !.stage = "locked"] \in Call'
    <3> DEFINE C == [id : Id, fields : Fields]
    <3>1. Top(t) \in [op : {"new_span", "record", "event"}, layer : Layers,
         stage : {"read", "visit", "locked", "emit"},
         span : Id \union {0}, site : Sites, write : Write \union {0},
         began : SUBSET Write, scope : Seq(Id), chain : Seq(C)]
      BY <2>3 DEF Call
    <3> HIDE DEF C
    <3>2. [Top(t) EXCEPT !.stage = "locked"] \in
         [op : {"new_span", "record", "event"}, layer : Layers,
         stage : {"read", "visit", "locked", "emit"},
         span : Id \union {0}, site : Sites, write : Write \union {0},
         began : SUBSET Write, scope : Seq(Id), chain : Seq(C)]
      BY <3>1
    <3> QED BY <2>2, <3>2 DEF Call, C
  <2>5. calls' = [calls EXCEPT ![t] = Append(Front(calls[t]), [Top(t) EXCEPT !.stage = "locked"])]
    BY <1>0, <2>1 DEF TypeOK
  <2>6. calls' \in [Threads -> Seq(Call')] BY <1>0, <2>2, <2>3, <2>4, <2>5, CallsTyped
  <2>7. writer' \in [1..MaxSpans -> SUBSET Threads] BY <1>b, <2>1
  <2> QED BY <1>b, <2>1, <2>2, <2>6, <2>7 DEF Typed, TypeOK
<1>6. ASSUME NEW t \in Threads, Store(t)
      PROVE  Typed'
  <2> DEFINE c == Top(t)
             state == State(c.op, c.span, Captured(c.write))
  <2>1. /\ ~Idle(t) /\ c.op # "event" /\ c.stage = "locked" /\ CallbackDone(t)
        /\ slots' = [x \in DOMAIN slots \union {c.span} |->
                       IF x = c.span THEN state ELSE slots[x]]
        /\ writer' = [writer EXCEPT ![c.span] = {}]
        /\ UNCHANGED <<spans, events, writes>>
    BY <1>6 DEF Store, In, At
  <2>2. /\ Id' = Id /\ Write' = Write /\ Fields' = Fields /\ Call' = Call
        /\ \A w \in Write' : /\ writes'[w].span \in Id' /\ writes'[w].names \subseteq FieldNames
                             /\ writes'[w].before \subseteq 1..w - 1
        /\ spans' \in Seq([parent : 0..MaxSpans, site : Sites])
        /\ Len(spans') <= MaxSpans
        /\ writes' \in Seq([span : Nat, names : FieldSets, before : SUBSET Nat])
    BY <2>1, Unmoved
  <2>3. Under(t, Front(calls[t])) /\ c \in Call BY <1>0, <2>1, UnderAll
  <2>4. c.span \in Id /\ c.write \in Write
    <3>1. c = calls[t][Len(calls[t])] /\ Len(calls[t]) \in DOMAIN calls[t]
      BY <1>0, <2>1, UnderAll
    <3> QED BY <2>1, <3>1 DEF AllNaming, Naming
  <2>5. state \in Fields
    <3>1. Captured(c.write) \in Fields BY <2>4, CapturedFields, Domains
    <3>2. c.span \in DOMAIN slots => MergeFields(slots[c.span], Captured(c.write)) \in Fields
      BY <1>b, <3>1, MergedFields
    <3> QED BY <3>1, <3>2 DEF State
  <2>6. \/ Returns(t, c.layer + 1, c, Front(calls[t]))
        \/ \E layer \in Layers : Enters(t, c, Front(calls[t]), layer)
    BY <1>0, <2>1, DoneThrough
  <2> HIDE DEF c, state
  <2>7. \A layer \in Layers : Scope(c, layer) \in Seq(Id')
    BY <1>a, <2>1, <2>2, ScopeType
  <2>8. /\ calls' \in [Threads -> Seq(Call')]
        /\ held' \subseteq Id' /\ returned' \subseteq Write'
    BY <1>0, <2>2, <2>3, <2>4, <2>6, <2>7, ThroughType
  <2>9. DOMAIN slots' \subseteq Id' /\ \A id \in DOMAIN slots' : slots'[id] \in Fields'
    BY <1>b, <2>1, <2>2, <2>4, <2>5
  <2>10. writer' \in [1..MaxSpans -> SUBSET Threads] /\ events' \in 0..MaxEvents
    BY <1>b, <2>1
  <2> QED BY <2>2, <2>8, <2>9, <2>10 DEF Typed, TypeOK
<1>7. ASSUME NEW t \in Threads, SnapshotSpan(t)
      PROVE  Typed'
  <2> DEFINE c == Top(t)
             C == [id : Id, fields : Fields]
             T == [op : {"new_span", "record", "event"}, layer : Layers,
                   stage : {"read", "visit", "locked", "emit"},
                   span : Id \union {0}, site : Sites, write : Write \union {0},
                   began : SUBSET Write, scope : Seq(Id), chain : Seq(C)]
             e == [c EXCEPT !.stage = IF Len(c.scope) = 1 THEN "visit" ELSE "read",
                            !.scope = Tail(c.scope),
                            !.chain = Append(c.chain, Snapshot(Head(c.scope)))]
  <2>1. /\ ~Idle(t) /\ c.op = "event" /\ c.stage = "read"
        /\ UNCHANGED <<spans, slots, writer, held, events, writes, returned>>
    BY <1>7 DEF SnapshotSpan, In, At, registry, app, history
  <2>2. calls' = [calls EXCEPT ![t] = Append(Front(calls[t]), e)]
    <3>1. calls' = [calls EXCEPT ![t] = Append(Front(@),
             [Top(t) EXCEPT !.stage = IF Len(Top(t).scope) = 1 THEN "visit" ELSE "read",
                            !.scope = Tail(@),
                            !.chain = Append(@, Snapshot(Head(Top(t).scope)))])]
      BY <1>7 DEF SnapshotSpan, Become
    <3>2. c \in Call /\ c \in T BY <1>0, <2>1, UnderAll DEF Call
    <3>3. t \in DOMAIN calls BY <1>0 DEF TypeOK
    <3> HIDE DEF C
    <3> QED BY <3>1, <3>2, <3>3
  <2>3. /\ Id' = Id /\ Write' = Write /\ Fields' = Fields /\ Call' = Call BY <2>1, Unmoved
  <2>4. Under(t, Front(calls[t])) /\ c \in T BY <1>0, <2>1, UnderAll DEF Call
  <2>5. c.scope \in Seq(Id) /\ c.scope # <<>>
    <3>1. c = calls[t][Len(calls[t])] /\ Len(calls[t]) \in DOMAIN calls[t]
      BY <1>0, <2>1, UnderAll
    <3>2. c.scope # <<>> BY <2>1, <3>1 DEF AllNaming, Naming
    <3> HIDE DEF C
    <3> QED BY <2>4, <3>2
  <2>6. Head(c.scope) \in Id /\ Tail(c.scope) \in Seq(Id) BY <2>5
  <2>7. Snapshot(Head(c.scope)) \in C
    <3>1. <<>> \in Fields
      <4>1. <<>> \in Seq([name : FieldNames, value : Write]) /\ DOMAIN <<>> = {} OBVIOUS
      <4> QED BY <4>1 DEF Fields
    <3> QED BY <1>b, <2>6, <3>1 DEF Snapshot
  <2>8. e \in Call'
    <3>1. c.chain \in Seq(C)
      <4> HIDE DEF C
      <4> QED BY <2>4
    <3> DEFINE s == Snapshot(Head(c.scope))
               ch == Append(c.chain, s)
    <3> HIDE DEF C, s
    <3>2. ch \in Seq(C) BY <2>7, <3>1 DEF s
    <3> HIDE DEF ch
    <3>3. [c EXCEPT !.stage = IF Len(c.scope) = 1 THEN "visit" ELSE "read",
                    !.scope = Tail(c.scope), !.chain = ch] \in T
      <4> HIDE DEF c
      <4> QED BY <2>4, <2>6, <3>2
    <3> QED BY <2>3, <3>3 DEF Call, C, ch, s
  <2> HIDE DEF e
  <2>9. calls' \in [Threads -> Seq(Call')] BY <1>0, <2>2, <2>3, <2>4, <2>8, CallsTyped
  <2> QED BY <1>b, <2>1, <2>3, <2>9 DEF Typed, TypeOK
<1>8. ASSUME NEW t \in Threads, FromEvent(t)
      PROVE  Typed'
  <2> DEFINE C == [id : Id, fields : Fields]
             T == [op : {"new_span", "record", "event"}, layer : Layers,
                   stage : {"read", "visit", "locked", "emit"},
                   span : Id \union {0}, site : Sites, write : Write \union {0},
                   began : SUBSET Write, scope : Seq(Id), chain : Seq(C)]
  <2>1. /\ ~Idle(t)
        /\ calls' = [calls EXCEPT ![t] = Append(Front(@), [Top(t) EXCEPT !.stage = "emit"])]
        /\ UNCHANGED <<spans, slots, writer, held, events, writes, returned>>
    BY <1>8 DEF FromEvent, In, At, Become, registry, app, history
  <2>2. /\ Id' = Id /\ Write' = Write /\ Fields' = Fields /\ Call' = Call BY <2>1, Unmoved
  <2>3. Under(t, Front(calls[t])) /\ Top(t) \in T BY <1>0, <2>1, UnderAll DEF Call
  <2>4. [Top(t) EXCEPT !.stage = "emit"] \in Call'
    <3> HIDE DEF C
    <3>1. [Top(t) EXCEPT !.stage = "emit"] \in T BY <2>3
    <3> QED BY <2>2, <3>1 DEF Call, C
  <2>5. calls' = [calls EXCEPT ![t] = Append(Front(calls[t]), [Top(t) EXCEPT !.stage = "emit"])]
    BY <1>0, <2>1 DEF TypeOK
  <2>6. calls' \in [Threads -> Seq(Call')] BY <1>0, <2>2, <2>3, <2>4, <2>5, CallsTyped
  <2> QED BY <1>b, <2>1, <2>2, <2>6 DEF Typed, TypeOK
<1>9. ASSUME NEW t \in Threads, EmitRecord(t)
      PROVE  Typed'
  <2> DEFINE c == Top(t)
  <2>1. /\ ~Idle(t) /\ c.op = "event" /\ CallbackDone(t)
        /\ UNCHANGED <<spans, slots, writer, events, writes>>
    BY <1>9 DEF EmitRecord, In, At, registry
  <2>2. /\ Id' = Id /\ Write' = Write /\ Fields' = Fields /\ Call' = Call
        /\ \A w \in Write' : /\ writes'[w].span \in Id' /\ writes'[w].names \subseteq FieldNames
                             /\ writes'[w].before \subseteq 1..w - 1
        /\ spans' \in Seq([parent : 0..MaxSpans, site : Sites])
        /\ Len(spans') <= MaxSpans
        /\ writes' \in Seq([span : Nat, names : FieldSets, before : SUBSET Nat])
    BY <2>1, Unmoved
  <2>3. Under(t, Front(calls[t])) /\ c \in Call BY <1>0, <2>1, UnderAll
  <2>4. \/ Returns(t, c.layer + 1, c, Front(calls[t]))
        \/ \E layer \in Layers : Enters(t, c, Front(calls[t]), layer)
    BY <1>0, <2>1, DoneThrough
  <2>5. c.span \in Id \union {0} BY <2>3 DEF Call
  <2> HIDE DEF c
  <2>6. \A layer \in Layers : Scope(c, layer) \in Seq(Id')
    BY <1>a, <2>2, <2>5, ScopeType
  <2>7. /\ calls' \in [Threads -> Seq(Call')]
        /\ held' \subseteq Id' /\ returned' \subseteq Write'
    BY <1>0, <2>1, <2>2, <2>3, <2>4, <2>6, ThroughType
  <2> QED BY <1>b, <2>1, <2>2, <2>7 DEF Typed, TypeOK
<1>10. CASE UNCHANGED vars
  <2>1. UNCHANGED <<spans, slots, writer, held, events, calls, writes, returned>>
    BY <1>10 DEF vars, registry, app, history
  <2>2. Id' = Id /\ Write' = Write /\ Fields' = Fields /\ Call' = Call BY <2>1, Unmoved
  <2> QED BY <2>1, <2>2 DEF Typed, TypeOK
<1> QED
  BY <1>1, <1>2, <1>3, <1>4, <1>5, <1>6, <1>7, <1>8, <1>9, <1>10
  DEF Next, Callback, Application, Quiescent

-----------------------------------------------------------------------------
(* What a step never takes back: spans, writes and returns.                *)

Grown ==
  /\ Id \subseteq Id' /\ \A id \in Id : spans'[id] = spans[id]
  /\ \A layer : \A id \in Id \union {0} : InContext(layer, id)' = InContext(layer, id)
  /\ \A id \in Id \union {0} : Ancestors(id)' = Ancestors(id)
  /\ Write \subseteq Write' /\ \A w \in Write : writes'[w] = writes[w]
  /\ returned \subseteq returned'

LEMMA OlderStep == Typed /\ Older /\ [Next]_vars => Older'
<1> SUFFICES ASSUME Typed, Older, [Next]_vars PROVE Older' OBVIOUS
<1>1. UNCHANGED spans => Older' BY DEF Older, Id
<1>2. ASSUME NEW t \in Threads, NEW site \in Sites, NEW parent \in {0} \union held,
             NEW names \in FieldSets, NewSpan(t, parent, site, names)
      PROVE  Older'
  <2>1. /\ Len(spans) < MaxSpans
        /\ spans' = Append(spans, [parent |-> parent, site |-> site])
    BY <1>2 DEF NewSpan
  <2>2. Id = 1..Len(spans) /\ Len(spans) \in Nat /\ held \subseteq Id /\ Len(spans) <= MaxSpans
    BY Domains DEF Typed, TypeOK
  <2>3. parent \in 0..MaxSpans /\ parent < Len(spans) + 1 BY <2>2, LayerAssumption
  <2>4. /\ Id' = Id \union {Len(spans) + 1} /\ \A id \in Id : spans'[id] = spans[id]
        /\ spans'[Len(spans) + 1].parent = parent
    BY <2>1, <2>3, SpanAdded
  <2> QED BY <2>3, <2>4 DEF Older
<1> QED
  BY <1>1, <1>2 DEF Next, Callback, Application, Quiescent, Record, Event, Drop, Lock,
     Store, SnapshotSpan, FromEvent, EmitRecord, registry, vars

(* A call that goes through the layers returns at most its own write and   *)
(* hands over at most its own span.                                        *)
LEMMA ThroughGives ==
  ASSUME NEW t, NEW first, NEW call, NEW caller,
         \/ Returns(t, first, call, caller)
         \/ \E layer \in Layers : Enters(t, call, caller, layer)
  PROVE  /\ returned \subseteq returned' /\ returned' \subseteq returned \union ({call.write} \ {0})
         /\ held \subseteq held'
         /\ held' \subseteq held \union {x \in {call.span} : call.op = "new_span"}
BY DEF Returns, Enters

LEMMA StoreCalls ==
  ASSUME Typed, AllNaming, NEW t \in Threads, Store(t)
  PROVE  /\ Top(t) = calls[t][Len(calls[t])] /\ Len(calls[t]) \in DOMAIN calls[t]
         /\ Top(t) \in Call /\ Top(t).op # "event" /\ Top(t).stage = "locked"
         /\ Top(t).span \in Id /\ Top(t).write \in Write
         /\ Under(t, Front(calls[t])) /\ Len(Front(calls[t])) = Len(calls[t]) - 1
         /\ \/ Returns(t, Top(t).layer + 1, Top(t), Front(calls[t]))
            \/ \E layer \in Layers : Enters(t, Top(t), Front(calls[t]), layer)
         /\ UNCHANGED <<spans, events, writes>>
<1>1. TypeOK /\ ~Idle(t) /\ Top(t).op # "event" /\ Top(t).stage = "locked" /\ CallbackDone(t)
      /\ UNCHANGED <<spans, events, writes>>
  BY DEF Store, In, At, Typed
<1>2. /\ Top(t) = calls[t][Len(calls[t])] /\ Len(calls[t]) \in DOMAIN calls[t]
      /\ Top(t) \in Call /\ Under(t, Front(calls[t]))
      /\ Len(Front(calls[t])) = Len(calls[t]) - 1
  BY <1>1, UnderAll
<1>3. Top(t).span \in Id /\ Top(t).write \in Write BY <1>1, <1>2 DEF AllNaming, Naming
<1>4. \/ Returns(t, Top(t).layer + 1, Top(t), Front(calls[t]))
      \/ \E layer \in Layers : Enters(t, Top(t), Front(calls[t]), layer)
  BY <1>1, DoneThrough
<1> QED BY <1>1, <1>2, <1>3, <1>4

LEMMA EmitCalls ==
  ASSUME Typed, AllNaming, NEW t \in Threads, EmitRecord(t)
  PROVE  /\ Top(t) = calls[t][Len(calls[t])] /\ Len(calls[t]) \in DOMAIN calls[t]
         /\ Top(t) \in Call /\ Top(t).op = "event" /\ Top(t).write = 0
         /\ Under(t, Front(calls[t])) /\ Len(Front(calls[t])) = Len(calls[t]) - 1
         /\ \/ Returns(t, Top(t).layer + 1, Top(t), Front(calls[t]))
            \/ \E layer \in Layers : Enters(t, Top(t), Front(calls[t]), layer)
         /\ UNCHANGED <<spans, slots, writer, events, writes>>
<1>1. TypeOK /\ ~Idle(t) /\ Top(t).op = "event" /\ CallbackDone(t)
      /\ UNCHANGED <<spans, slots, writer, events, writes>>
  BY DEF EmitRecord, In, At, Typed, registry
<1>2. /\ Top(t) = calls[t][Len(calls[t])] /\ Len(calls[t]) \in DOMAIN calls[t]
      /\ Top(t) \in Call /\ Under(t, Front(calls[t]))
      /\ Len(Front(calls[t])) = Len(calls[t]) - 1
  BY <1>1, UnderAll
<1>3. Top(t).write = 0 BY <1>1, <1>2 DEF AllNaming, Naming
<1>4. \/ Returns(t, Top(t).layer + 1, Top(t), Front(calls[t]))
      \/ \E layer \in Layers : Enters(t, Top(t), Front(calls[t]), layer)
  BY <1>1, DoneThrough
<1> QED BY <1>1, <1>2, <1>3, <1>4

LEMMA NewSpanCalls ==
  ASSUME Typed, NEW t \in Threads, NEW site \in Sites, NEW parent \in {0} \union held,
         NEW names \in FieldSets, NewSpan(t, parent, site, names)
  PROVE  /\ Idle(t) /\ Len(spans) + 1 \notin Id /\ Id' = Id \union {Len(spans) + 1}
         /\ \A id \in Id : spans'[id] = spans[id]
         /\ spans' = Append(spans, [parent |-> parent, site |-> site])
         /\ spans'[Len(spans) + 1] = [parent |-> parent, site |-> site]
         /\ Len(writes) + 1 \notin Write /\ Len(writes) + 1 # 0
         /\ Write' = Write \union {Len(writes) + 1}
         /\ \A w \in Write : writes'[w] = writes[w]
         /\ writes'[Len(writes) + 1]
              = [span |-> Len(spans) + 1, names |-> names, before |-> returned]
         /\ LET call == Begun("new_span", Len(spans) + 1, site, Len(writes) + 1)
            IN  \/ Returns(t, 1, call, calls[t])
                \/ \E layer \in Layers : Enters(t, call, calls[t], layer)
         /\ UNCHANGED <<slots, writer, events>>
<1>1. /\ Idle(t) /\ Len(spans) < MaxSpans /\ AddWrite(Len(spans) + 1, names)
      /\ spans' = Append(spans, [parent |-> parent, site |-> site])
      /\ Start(t, "new_span", Len(spans) + 1, site, Len(writes) + 1)
      /\ UNCHANGED <<slots, writer, events>>
  BY DEF NewSpan
<1>2. Id = 1..Len(spans) /\ Len(spans) \in Nat /\ held \subseteq Id /\ Len(spans) <= MaxSpans
  BY Domains DEF Typed, TypeOK
<1>3. parent \in 0..MaxSpans BY <1>2, LayerAssumption
<1>4. /\ Id' = Id \union {Len(spans) + 1} /\ Len(spans) + 1 \notin Id
      /\ \A id \in Id : spans'[id] = spans[id]
  BY <1>1, <1>3, SpanAdded
<1>5. spans'[Len(spans) + 1] = [parent |-> parent, site |-> site]
  <2> DEFINE S == [parent : 0..MaxSpans, site : Sites]
             e == [parent |-> parent, site |-> site]
  <2>1. spans \in Seq(S) /\ e \in S BY <1>3 DEF Typed, TypeOK
  <2> HIDE DEF S, e
  <2>2. Append(spans, e)[Len(spans) + 1] = e BY <2>1, AppendProperties
  <2> QED BY <1>1, <2>2 DEF e
<1>6. /\ Len(writes) + 1 \notin Write /\ Len(writes) + 1 # 0
      /\ Write' = Write \union {Len(writes) + 1}
      /\ \A w \in Write : writes'[w] = writes[w]
      /\ writes'[Len(writes) + 1]
           = [span |-> Len(spans) + 1, names |-> names, before |-> returned]
  <2>1. Len(spans) + 1 \in Nat /\ Len(spans) + 1 \in Id' /\ Id \subseteq Id' BY <1>2, <1>4
  <2> QED BY <1>1, <2>1, WriteAdded
<1>7. LET call == Begun("new_span", Len(spans) + 1, site, Len(writes) + 1)
      IN  \/ Returns(t, 1, call, calls[t])
          \/ \E layer \in Layers : Enters(t, call, calls[t], layer)
  BY <1>1, StartThrough
<1> QED BY <1>1, <1>4, <1>5, <1>6, <1>7

LEMMA RecordCalls ==
  ASSUME Typed, NEW t \in Threads, NEW id \in held, NEW names \in FieldSets,
         Record(t, id, names)
  PROVE  /\ Idle(t) /\ id \in Id
         /\ Len(writes) + 1 \notin Write /\ Len(writes) + 1 # 0
         /\ Write' = Write \union {Len(writes) + 1}
         /\ \A w \in Write : writes'[w] = writes[w]
         /\ writes'[Len(writes) + 1] = [span |-> id, names |-> names, before |-> returned]
         /\ LET call == Begun("record", id, spans[id].site, Len(writes) + 1)
            IN  \/ Returns(t, 1, call, calls[t])
                \/ \E layer \in Layers : Enters(t, call, calls[t], layer)
         /\ UNCHANGED <<spans, slots, writer, events>>
<1>1. /\ Idle(t) /\ AddWrite(id, names)
      /\ Start(t, "record", id, spans[id].site, Len(writes) + 1)
      /\ UNCHANGED <<spans, slots, writer, events>>
  BY DEF Record, registry
<1>2. id \in Id /\ id \in Nat /\ Id' = Id BY <1>1, Domains DEF Typed, TypeOK, Id
<1>3. /\ Len(writes) + 1 \notin Write /\ Len(writes) + 1 # 0
      /\ Write' = Write \union {Len(writes) + 1}
      /\ \A w \in Write : writes'[w] = writes[w]
      /\ writes'[Len(writes) + 1] = [span |-> id, names |-> names, before |-> returned]
  BY <1>1, <1>2, WriteAdded
<1>4. LET call == Begun("record", id, spans[id].site, Len(writes) + 1)
      IN  \/ Returns(t, 1, call, calls[t])
          \/ \E layer \in Layers : Enters(t, call, calls[t], layer)
  BY <1>1, StartThrough
<1> QED BY <1>1, <1>2, <1>3, <1>4

LEMMA EventCalls ==
  ASSUME Typed, NEW t \in Threads, NEW id \in {0} \union held, NEW site \in Sites,
         Event(t, id, site)
  PROVE  /\ id \in Id \union {0}
         /\ LET call == Begun("event", id, site, 0)
            IN  \/ Returns(t, 1, call, calls[t])
                \/ \E layer \in Layers : Enters(t, call, calls[t], layer)
         /\ UNCHANGED <<spans, slots, writer, writes>>
<1>1. Start(t, "event", id, site, 0) /\ UNCHANGED <<spans, slots, writer, writes>>
  BY DEF Event, registry
<1>2. LET call == Begun("event", id, site, 0)
      IN  \/ Returns(t, 1, call, calls[t])
          \/ \E layer \in Layers : Enters(t, call, calls[t], layer)
  BY <1>1, StartThrough
<1> QED BY <1>1, <1>2 DEF Typed, TypeOK

(* Steps that add no span and no write.                                    *)
LEMMA GrownStill ==
  ASSUME Typed, UNCHANGED <<spans, writes>>, returned \subseteq returned'
  PROVE  Grown /\ Write' = Write
<1>1. Id' = Id /\ Write' = Write BY DEF Id, Write
<1>2. \A id : Ancestors(id)' = Ancestors(id) BY <1>1 DEF Ancestors
<1>3. \A layer, id : InContext(layer, id)' = InContext(layer, id)
  BY DEF InContext, Passes
<1> QED BY <1>1, <1>2, <1>3 DEF Grown

LEMMA GrowsStep == Typed /\ Older /\ AllNaming /\ [Next]_vars => Grown
<1> SUFFICES ASSUME Typed, Older, AllNaming, [Next]_vars PROVE Grown OBVIOUS
<1>0. Typed' /\ Older' /\ Tree /\ Tree'
  <2>1. Typed' /\ Older' BY TypeStep, OlderStep
  <2>2. Typed => Tree BY Domains
  <2>3. Typed' => Tree' BY DEF Typed, TypeOK, Tree
  <2> QED BY <2>1, <2>2, <2>3
<1>1. ASSUME NEW t \in Threads, NEW site \in Sites, NEW parent \in {0} \union held,
             NEW names \in FieldSets, NewSpan(t, parent, site, names)
      PROVE  Grown
  <2>1. /\ spans' = Append(spans, [parent |-> parent, site |-> site])
        /\ Id \subseteq Id' /\ \A id \in Id : spans'[id] = spans[id]
        /\ Write \subseteq Write' /\ \A w \in Write : writes'[w] = writes[w]
    BY <1>1, NewSpanCalls
  <2>2. returned \subseteq returned'
    <3>1. LET call == Begun("new_span", Len(spans) + 1, site, Len(writes) + 1)
          IN  \/ Returns(t, 1, call, calls[t])
              \/ \E layer \in Layers : Enters(t, call, calls[t], layer)
      BY <1>1, NewSpanCalls
    <3> QED BY <3>1, ThroughGives
  <2>3. \A layer : \A id \in Id \union {0} : InContext(layer, id)' = InContext(layer, id)
    BY <1>0, <2>1, ContextKept
  <2>4. \A id \in Id \union {0} : Ancestors(id)' = Ancestors(id)
    BY <1>0, <2>1, AncestorsKept
  <2> QED BY <2>1, <2>2, <2>3, <2>4 DEF Grown
<1>2. ASSUME NEW t \in Threads, NEW id \in held, NEW names \in FieldSets,
             Record(t, id, names)
      PROVE  Grown
  <2>1. /\ UNCHANGED spans
        /\ Write \subseteq Write' /\ \A w \in Write : writes'[w] = writes[w]
    BY <1>2, RecordCalls
  <2>2. returned \subseteq returned'
    <3>1. LET call == Begun("record", id, spans[id].site, Len(writes) + 1)
          IN  \/ Returns(t, 1, call, calls[t])
              \/ \E layer \in Layers : Enters(t, call, calls[t], layer)
      BY <1>2, RecordCalls
    <3> QED BY <3>1, ThroughGives
  <2>3. Id' = Id BY <2>1 DEF Id
  <2>4. \A i : Ancestors(i)' = Ancestors(i) BY <2>1, <2>3 DEF Ancestors
  <2>5. \A layer, i : InContext(layer, i)' = InContext(layer, i)
    BY <2>1 DEF InContext, Passes
  <2> QED BY <2>1, <2>2, <2>3, <2>4, <2>5 DEF Grown
<1>3. ASSUME NEW t \in Threads, NEW id \in {0} \union held, NEW site \in Sites,
             Event(t, id, site)
      PROVE  Grown
  <2>1. UNCHANGED <<spans, writes>> BY <1>3, EventCalls
  <2>2. LET call == Begun("event", id, site, 0)
        IN  \/ Returns(t, 1, call, calls[t])
            \/ \E layer \in Layers : Enters(t, call, calls[t], layer)
    BY <1>3, EventCalls
  <2> QED BY <2>1, <2>2, ThroughGives, GrownStill
<1>4. ASSUME NEW t \in Threads, Store(t) PROVE Grown
  BY <1>4, StoreCalls, ThroughGives, GrownStill
<1>5. ASSUME NEW t \in Threads, EmitRecord(t) PROVE Grown
  BY <1>5, EmitCalls, ThroughGives, GrownStill
<1>6. UNCHANGED <<spans, writes, returned>> => Grown BY GrownStill
<1> QED
  BY <1>1, <1>2, <1>3, <1>4, <1>5, <1>6
  DEF Next, Callback, Application, Quiescent, Drop, Lock, SnapshotSpan, FromEvent,
      registry, app, history, vars


-----------------------------------------------------------------------------
(* The inductive invariant.                                                *)

(* What had returned before a write began has returned.                    *)
Dated == \A w \in Write : writes[w].before \subseteq returned

(* Every name of a write that is over, or that shows, is in the fields,    *)
(* with a value that was not over when the write began.                    *)
Due(id, fields, over) ==
  {w \in over : writes[w].span = id} \union {f.value : f \in Range(fields)}
Fresh(id, fields, over) ==
  \A w \in Due(id, fields, over) : \A n \in writes[w].names :
    \E f \in Range(fields) : f.name = n /\ f.value \notin writes[w].before

(* A write in progress is its call's alone; that of a new span is the only *)
(* one on a span that nobody else knows yet.                               *)
Writing(c) ==
  c.op # "event" =>
    /\ c.write \notin returned /\ writes[c.write].span = c.span
    /\ c.site = spans[c.span].site
    /\ c.stage \in {"visit", "locked"}
    /\ c.op = "new_span" =>
         /\ c.span \notin held
         /\ \A w \in Write : writes[w].span = c.span => w = c.write

(* What a layer has read and what it has yet to read is the context.       *)
IdsOf(chain) == [i \in DOMAIN chain |-> chain[i].id]
Walking(c) ==
  /\ Passes(c.layer, c.site)
  /\ IdsOf(c.chain) \o c.scope = Scope(c, c.layer)

(* What a layer has read of a span is fresh as of the call's begin.        *)
Reporting(c) ==
  /\ c.began \subseteq returned
  /\ \A s \in Range(c.chain) : Fresh(s.id, s.fields, c.began)

Good(c) == Naming(c) /\ Writing(c) /\ Walking(c) /\ Reporting(c)

AllGood == \A t \in Threads : \A i \in DOMAIN calls[t] : Good(calls[t][i])

Alone ==
  \A t, u \in Threads : \A i \in DOMAIN calls[t], j \in DOMAIN calls[u] :
    calls[t][i].op # "event" /\ calls[t][i].write = calls[u][j].write => t = u /\ i = j

(* The spans that are open, and those that some layer lets through.        *)
Open == UNION {Ancestors(o) : o \in held \union InUse}
Seen(id) == \E layer \in Layers : Passes(layer, spans[id].site)

FieldsOf(id) == IF id \in DOMAIN slots THEN slots[id] ELSE <<>>

(* The slot of an open span is fresh as of now.                            *)
SlotsFresh == \A id \in Open : Seen(id) => Fresh(id, FieldsOf(id), returned)

IInv == Typed /\ Older /\ Dated /\ AllGood /\ Alone /\ SlotsFresh

(* The values of fields are writes. *)
LEMMA ValuesOf ==
  ASSUME NEW fields \in Fields
  PROVE  \A f \in Range(fields) : f.value \in Write
<1> SUFFICES ASSUME NEW i \in DOMAIN fields PROVE fields[i].value \in Write
  BY DEF Range
<1> DEFINE F == [name : FieldNames, value : Write]
<1>1. fields \in Seq(F) BY DEF Fields
<1>2. fields[i] \in F
  <2> HIDE DEF F
  <2> QED BY <1>1
<1> QED BY <1>2

LEMMA FreshKept ==
  ASSUME Grown, NEW id, NEW fields \in Fields, NEW over \in SUBSET Write,
         Fresh(id, fields, over)
  PROVE  Fresh(id, fields, over)'
<1>1. {f.value : f \in Range(fields)} \subseteq Write BY ValuesOf
<1>2. \A w \in Write : writes'[w] = writes[w] BY DEF Grown
<1>3. Due(id, fields, over)' = Due(id, fields, over) BY <1>1, <1>2 DEF Due
<1>4. Due(id, fields, over) \subseteq Write BY <1>1 DEF Due
<1> HIDE DEF Due
<1> QED BY <1>2, <1>3, <1>4 DEF Fresh

LEMMA GoodKept ==
  ASSUME Typed, Grown, NEW c \in Call, Good(c),
         c.op # "event" => c.write \notin returned',
         c.op = "new_span" => /\ c.span \notin held'
                              /\ \A w \in Write' \ Write : writes'[w].span # c.span
  PROVE  Good(c)'
<1>1. /\ c.span \in Id \union {0} /\ c.write \in Write \union {0} /\ c.began \subseteq Write
      /\ \A s \in Range(c.chain) : s.id \in Id /\ s.fields \in Fields
  <2> DEFINE C == [id : Id, fields : Fields]
  <2>1. c.chain \in Seq(C) /\ c.span \in Id \union {0} /\ c.write \in Write \union {0}
        /\ c.began \subseteq Write
    BY DEF Call
  <2>2. \A s \in Range(c.chain) : s \in C
    <3> HIDE DEF C
    <3>1. \A i \in DOMAIN c.chain : c.chain[i] \in C BY <2>1
    <3> QED BY <3>1 DEF Range
  <2> QED BY <2>1, <2>2
<1>2. Naming(c)' BY DEF Good, Naming, Grown
<1>3. Writing(c)'
  <2> SUFFICES ASSUME c.op # "event" PROVE Writing(c)' BY DEF Writing
  <2>1. c.span \in Id /\ c.write \in Write BY DEF Good, Naming
  <2>2. writes'[c.write] = writes[c.write] /\ spans'[c.span] = spans[c.span]
    BY <2>1 DEF Grown
  <2>3. c.op = "new_span" => \A w \in Write' : writes'[w].span = c.span => w = c.write
    BY DEF Good, Writing, Grown
  <2> QED BY <2>1, <2>2, <2>3 DEF Good, Writing
<1>4. Walking(c)'
  <2>1. Scope(c, c.layer)' = Scope(c, c.layer) BY <1>1 DEF Scope, Grown
  <2> QED BY <2>1 DEF Good, Walking, Passes, IdsOf
<1>5. Reporting(c)'
  <2>1. c.began \subseteq returned' BY DEF Good, Reporting, Grown
  <2>2. \A s \in Range(c.chain) : Fresh(s.id, s.fields, c.began)'
    BY <1>1, FreshKept DEF Good, Reporting
  <2> QED BY <2>1, <2>2 DEF Reporting
<1> QED BY <1>2, <1>3, <1>4, <1>5 DEF Good

-----------------------------------------------------------------------------
(* What the calls of the other threads, and those below, keep.             *)

(* What keeps a call good: its write does not return, its span is not      *)
(* handed over, and nobody else writes to a span that is being created.    *)
Undisturbed(c) ==
  /\ c.op # "event" => c.write \notin returned'
  /\ c.op = "new_span" => /\ c.span \notin held'
                          /\ \A w \in Write' \ Write : writes'[w].span # c.span

LEMMA UndisturbedGood ==
  ASSUME Typed, Grown, AllGood, NEW u \in Threads, NEW j \in DOMAIN calls[u],
         Undisturbed(calls[u][j])
  PROVE  \A c : c = calls[u][j] => Good(c)'
<1> SUFFICES ASSUME NEW c, c = calls[u][j] PROVE Good(c)' OBVIOUS
<1>1. c \in Call BY DEF Typed, TypeOK
<1>2. Good(c) /\ Undisturbed(c) BY DEF AllGood
<1> QED BY <1>1, <1>2, GoodKept DEF Undisturbed

LEMMA AllGoodPushed ==
  ASSUME Typed, Grown, AllGood, NEW t \in Threads, NEW caller, Under(t, caller),
         NEW e, Good(e)', calls' = [calls EXCEPT ![t] = Append(caller, e)],
         \A u \in Threads : \A j \in DOMAIN calls[u] :
           u # t \/ j <= Len(caller) => Undisturbed(calls[u][j])
  PROVE  AllGood'
<1>0. TypeOK BY DEF Typed
<1>1. /\ \A u \in Threads : u # t => calls'[u] = calls[u]
      /\ DOMAIN calls'[t] = 1..Len(caller) + 1 /\ Len(caller) \in Nat
      /\ DOMAIN caller = 1..Len(caller)
      /\ calls'[t][Len(caller) + 1] = e
      /\ \A j \in 1..Len(caller) : /\ j \in DOMAIN calls[t]
                                   /\ calls'[t][j] = calls[t][j]
  BY <1>0, CallsPushed
<1>2. ASSUME NEW u \in Threads, NEW j \in DOMAIN calls'[u]
      PROVE  \A c : c = calls'[u][j] => Good(c)'
  <2>1. CASE u # t
    <3>1. j \in DOMAIN calls[u] /\ calls'[u][j] = calls[u][j] BY <1>1, <2>1
    <3> QED BY <2>1, <3>1, UndisturbedGood
  <2>2. CASE u = t /\ j \in 1..Len(caller)
    <3>1. j \in DOMAIN calls[u] /\ calls'[u][j] = calls[u][j] /\ j <= Len(caller)
      BY <1>1, <2>2
    <3> QED BY <3>1, UndisturbedGood
  <2>3. CASE u = t /\ j = Len(caller) + 1 BY <1>1, <2>3
  <2> QED BY <1>1, <2>1, <2>2, <2>3
<1> QED BY <1>2 DEF AllGood

LEMMA AllGoodPopped ==
  ASSUME Typed, Grown, AllGood, NEW t \in Threads, NEW caller, Under(t, caller),
         calls' = [calls EXCEPT ![t] = caller],
         \A u \in Threads : \A j \in DOMAIN calls[u] :
           u # t \/ j <= Len(caller) => Undisturbed(calls[u][j])
  PROVE  AllGood'
<1>1. calls \in [Threads -> Seq(Call)] BY DEF Typed, TypeOK
<1>2. DOMAIN caller = 1..Len(caller) /\ Len(caller) \in Nat
  <2>1. caller \in Seq(Call) BY DEF Under
  <2> QED BY <2>1
<1>3. calls'[t] = caller /\ \A u \in Threads : u # t => calls'[u] = calls[u] BY <1>1
<1>4. ASSUME NEW u \in Threads, NEW j \in DOMAIN calls'[u]
      PROVE  \A c : c = calls'[u][j] => Good(c)'
  <2>1. CASE u # t
    <3>1. j \in DOMAIN calls[u] /\ calls'[u][j] = calls[u][j] BY <1>3, <2>1
    <3> QED BY <2>1, <3>1, UndisturbedGood
  <2>2. CASE u = t
    <3>1. j \in DOMAIN calls[u] /\ calls'[u][j] = calls[u][j] /\ j <= Len(caller)
      BY <1>2, <1>3, <2>2 DEF Under
    <3> QED BY <3>1, UndisturbedGood
  <2> QED BY <2>1, <2>2
<1> QED BY <1>4 DEF AllGood

(* A call that enters a layer.                                             *)
LEMMA EnteredGood ==
  ASSUME NEW call \in Call', NEW layer \in Layers, NEW e, e = Entered(call, layer),
         Passes(layer, call.site), Scope(call, layer) \in Seq(Id'),
         \A c : Scope(c, layer)' = Scope(c, layer) \/ c # e,
         call.began \subseteq returned',
         call.op = "event" => call.write = 0,
         call.op # "event" =>
           /\ call.span \in Id' /\ call.write \in Write' /\ call.write \notin returned'
           /\ writes'[call.write].span = call.span /\ call.site = spans'[call.span].site
           /\ call.op = "new_span" =>
                /\ call.span \notin held'
                /\ \A w \in Write' : writes'[w].span = call.span => w = call.write
  PROVE  Good(e)'
<1>1. /\ e \in Call' /\ e.op = call.op /\ e.layer = layer /\ e.span = call.span
      /\ e.site = call.site /\ e.write = call.write /\ e.began = call.began
      /\ e.scope = Scope(call, layer) /\ e.chain = <<>>
      /\ e.stage = (IF Scope(call, layer) = <<>> THEN "visit" ELSE "read")
  BY EnteredType
<1>2. Scope(e, layer) = Scope(call, layer) BY <1>1 DEF Scope
<1>3. Naming(e)' BY <1>1 DEF Naming
<1>4. Writing(e)'
  <2>1. e.op # "event" => e.stage = "visit" BY <1>1 DEF Scope
  <2> QED BY <1>1, <2>1 DEF Writing
<1>5. Walking(e)'
  <2>1. IdsOf(e.chain) = <<>>
    <3>1. DOMAIN <<>> = {} OBVIOUS
    <3>2. IdsOf(e.chain) = [i \in {} |-> e.chain[i].id] BY <1>1, <3>1 DEF IdsOf
    <3>3. \A f : [i \in {} |-> f[i].id] = <<>> OBVIOUS
    <3> QED BY <3>2, <3>3
  <2>2. IdsOf(e.chain) \o e.scope = e.scope
    BY <1>1, <2>1, ConcatEmptySeq
  <2>3. Scope(e, layer)' = Scope(e, layer) OBVIOUS
  <2> QED BY <1>1, <1>2, <2>2, <2>3 DEF Walking, Passes, IdsOf
<1>6. Reporting(e)'
  <2>1. Range(e.chain) = {}
    <3>1. DOMAIN <<>> = {} OBVIOUS
    <3> QED BY <1>1, <3>1 DEF Range
  <2> QED BY <1>1, <2>1 DEF Reporting
<1> QED BY <1>3, <1>4, <1>5, <1>6 DEF Good

LEMMA ThroughGood ==
  ASSUME Typed, Grown, AllGood, NEW t \in Threads, NEW caller, Under(t, caller),
         NEW call \in Call', NEW first,
         \/ Returns(t, first, call, caller)
         \/ \E layer \in Layers : Enters(t, call, caller, layer),
         \A layer \in Layers : Scope(call, layer) \in Seq(Id'),
         call.began \subseteq returned,
         call.op = "event" => call.write = 0 /\ call.span \in Id \union {0},
         call.op # "event" =>
           /\ call.span \in Id' /\ call.write \in Write' /\ call.write \notin returned
           /\ writes'[call.write].span = call.span /\ call.site = spans'[call.span].site
           /\ call.op = "new_span" =>
                /\ call.span \notin held
                /\ \A w \in Write' : writes'[w].span = call.span => w = call.write,
         \A u \in Threads : \A j \in DOMAIN calls[u] :
           u # t \/ j <= Len(caller) => Undisturbed(calls[u][j])
  PROVE  AllGood'
<1>1. CASE Returns(t, first, call, caller)
  <2>1. calls' = [calls EXCEPT ![t] = caller] BY <1>1 DEF Returns
  <2> QED BY <2>1, AllGoodPopped
<1>2. CASE \E layer \in Layers : Enters(t, call, caller, layer)
  <2>1. PICK layer \in Layers : Enters(t, call, caller, layer) BY <1>2
  <2>2. PICK e : e = Entered(call, layer) OBVIOUS
  <2>3. /\ Passes(layer, call.site) /\ returned' = returned /\ held' = held
        /\ calls' = [calls EXCEPT ![t] = Append(caller, e)]
    BY <2>1, <2>2 DEF Enters
  <2>4. e.op = call.op /\ e.span = call.span BY <2>2, EnteredType
  <2>5. \A c : Scope(c, layer)' = Scope(c, layer) \/ c # e
    BY <2>4 DEF Scope, Grown
  <2>6. Good(e)' BY <2>2, <2>3, <2>5, EnteredGood
  <2> QED BY <2>3, <2>6, AllGoodPushed
<1> QED BY <1>1, <1>2

(* Steps that return no write and create none disturb no call.             *)
LEMMA StillUndisturbed ==
  ASSUME Typed, AllGood, Write' = Write, returned' \subseteq returned, held' \subseteq held
  PROVE  \A u \in Threads : \A j \in DOMAIN calls[u] : Undisturbed(calls[u][j])
BY DEF AllGood, Good, Writing, Undisturbed

LEMMA AllNamed ==
  ASSUME AllGood
  PROVE  AllNaming
BY DEF AllGood, AllNaming, Good

(* The calls that go through the layers, one by one.                       *)
GoesThrough(t, first, call, caller) ==
  /\ call \in Call'
  /\ \A layer \in Layers : Scope(call, layer) \in Seq(Id')
  /\ Under(t, caller)
  /\ \/ Returns(t, first, call, caller)
     \/ \E layer \in Layers : Enters(t, call, caller, layer)

LEMMA NewSpanCall ==
  ASSUME Typed, NEW t \in Threads, NEW site \in Sites, NEW parent \in {0} \union held,
         NEW names \in FieldSets, NewSpan(t, parent, site, names)
  PROVE  \E call, n, w :
           /\ GoesThrough(t, 1, call, calls[t])
           /\ call.op = "new_span" /\ call.span = n /\ call.site = site /\ call.write = w
           /\ call.began = returned
           /\ n \notin Id /\ n # 0 /\ Id' = Id \union {n}
           /\ spans' = Append(spans, [parent |-> parent, site |-> site])
           /\ spans'[n].site = site /\ spans'[n].parent = parent
           /\ w \notin Write /\ w # 0 /\ Write' = Write \union {w}
           /\ writes'[w].span = n /\ writes'[w].before = returned
           /\ UNCHANGED slots
<1> DEFINE n == Len(spans) + 1
           w == Len(writes) + 1
<1>1. /\ n \notin Id /\ Id' = Id \union {n}
      /\ spans' = Append(spans, [parent |-> parent, site |-> site])
      /\ spans'[n] = [parent |-> parent, site |-> site]
      /\ w \notin Write /\ w # 0 /\ Write' = Write \union {w}
      /\ writes'[w] = [span |-> n, names |-> names, before |-> returned]
      /\ UNCHANGED slots
  BY NewSpanCalls
<1>2. LET call == Begun("new_span", n, site, w)
      IN  \/ Returns(t, 1, call, calls[t])
          \/ \E layer \in Layers : Enters(t, call, calls[t], layer)
  BY NewSpanCalls
<1>3. n # 0 BY Domains
<1>4. PICK call : call = Begun("new_span", n, site, w) OBVIOUS
<1> HIDE DEF n, w
<1>5. /\ call.op = "new_span" /\ call.span = n /\ call.site = site /\ call.write = w
      /\ call.began = returned
  BY <1>4 DEF Begun
<1>6. \/ Returns(t, 1, call, calls[t])
      \/ \E layer \in Layers : Enters(t, call, calls[t], layer)
  BY <1>2, <1>4
<1>7. call \in Call'
  <2>1. returned \subseteq Write' BY <1>1 DEF Typed, TypeOK
  <2>2. n \in Id' \union {0} /\ w \in Write' \union {0} BY <1>1
  <2> QED BY <1>4, <2>1, <2>2, BegunType
<1>8. \A layer \in Layers : Scope(call, layer) \in Seq(Id')
  <2>1. <<>> \in Seq(Id') OBVIOUS
  <2> QED BY <1>5, <2>1 DEF Scope
<1>9. Under(t, calls[t]) BY UnderAll DEF Typed
<1>10. GoesThrough(t, 1, call, calls[t])
  <2> HIDE DEF Returns, Enters
  <2> QED BY <1>6, <1>7, <1>8, <1>9 DEF GoesThrough
<1>11. /\ spans'[n].site = site /\ spans'[n].parent = parent
       /\ writes'[w].span = n /\ writes'[w].before = returned
  <2>1. spans'[n] = [parent |-> parent, site |-> site] BY <1>1
  <2>2. writes'[w] = [span |-> n, names |-> names, before |-> returned] BY <1>1
  <2>3. spans'[n].site = site /\ spans'[n].parent = parent BY <2>1
  <2>4. writes'[w].span = n /\ writes'[w].before = returned BY <2>2
  <2> QED BY <2>3, <2>4
<1> HIDE DEF GoesThrough
<1> QED BY <1>1, <1>3, <1>5, <1>10, <1>11

LEMMA RecordCall ==
  ASSUME Typed, NEW t \in Threads, NEW id \in held, NEW names \in FieldSets,
         Record(t, id, names)
  PROVE  \E call, w :
           /\ GoesThrough(t, 1, call, calls[t])
           /\ call.op = "record" /\ call.span = id /\ call.site = spans[id].site
           /\ call.write = w /\ call.began = returned
           /\ id \in Id
           /\ w \notin Write /\ w # 0 /\ Write' = Write \union {w}
           /\ writes'[w].span = id /\ writes'[w].before = returned
           /\ UNCHANGED <<spans, slots>>
<1> DEFINE w == Len(writes) + 1
<1>1. /\ id \in Id /\ UNCHANGED <<spans, slots>>
      /\ w \notin Write /\ w # 0 /\ Write' = Write \union {w}
      /\ writes'[w] = [span |-> id, names |-> names, before |-> returned]
  BY RecordCalls
<1>2. LET call == Begun("record", id, spans[id].site, w)
      IN  \/ Returns(t, 1, call, calls[t])
          \/ \E layer \in Layers : Enters(t, call, calls[t], layer)
  BY RecordCalls
<1>3. PICK call : call = Begun("record", id, spans[id].site, w) OBVIOUS
<1> HIDE DEF w
<1>4. /\ call.op = "record" /\ call.span = id /\ call.site = spans[id].site /\ call.write = w
      /\ call.began = returned
  BY <1>3 DEF Begun
<1>5. \/ Returns(t, 1, call, calls[t])
      \/ \E layer \in Layers : Enters(t, call, calls[t], layer)
  BY <1>2, <1>3
<1>6. Id' = Id /\ spans[id].site \in Sites BY <1>1, Domains, TreeDomain DEF Id
<1>7. call \in Call'
  <2>1. returned \subseteq Write' BY <1>1 DEF Typed, TypeOK
  <2>2. id \in Id' \union {0} /\ w \in Write' \union {0} BY <1>1, <1>6
  <2> QED BY <1>3, <1>6, <2>1, <2>2, BegunType
<1>8. \A layer \in Layers : Scope(call, layer) \in Seq(Id')
  <2>1. <<>> \in Seq(Id') OBVIOUS
  <2> QED BY <1>4, <2>1 DEF Scope
<1>9. Under(t, calls[t]) BY UnderAll DEF Typed
<1>10. GoesThrough(t, 1, call, calls[t])
  <2> HIDE DEF Returns, Enters
  <2> QED BY <1>5, <1>7, <1>8, <1>9 DEF GoesThrough
<1>11. writes'[w].span = id /\ writes'[w].before = returned BY <1>1
<1> HIDE DEF GoesThrough
<1> QED BY <1>1, <1>4, <1>10, <1>11

LEMMA EventCall ==
  ASSUME Typed, Older, NEW t \in Threads, NEW id \in {0} \union held, NEW site \in Sites,
         Event(t, id, site)
  PROVE  \E call :
           /\ GoesThrough(t, 1, call, calls[t])
           /\ call.op = "event" /\ call.span = id /\ call.write = 0
           /\ call.began = returned /\ id \in Id \union {0}
           /\ UNCHANGED <<spans, slots, writes>>
<1>1. id \in Id \union {0} /\ UNCHANGED <<spans, slots, writes>>
  BY EventCalls
<1>2. LET call == Begun("event", id, site, 0)
      IN  \/ Returns(t, 1, call, calls[t])
          \/ \E layer \in Layers : Enters(t, call, calls[t], layer)
  BY EventCalls
<1>3. PICK call : call = Begun("event", id, site, 0) OBVIOUS
<1>4. /\ call.op = "event" /\ call.span = id /\ call.site = site /\ call.write = 0
      /\ call.began = returned
  BY <1>3 DEF Begun
<1>5. \/ Returns(t, 1, call, calls[t])
      \/ \E layer \in Layers : Enters(t, call, calls[t], layer)
  BY <1>2, <1>3
<1>6. Id' = Id /\ Write' = Write /\ returned \subseteq Write' BY <1>1, Unmoved DEF Typed, TypeOK
<1>7. call \in Call' BY <1>1, <1>3, <1>6, BegunType
<1>8. \A layer \in Layers : Scope(call, layer) \in Seq(Id')
  BY <1>1, <1>4, <1>6, ScopeType, Domains
<1>9. Under(t, calls[t]) BY UnderAll DEF Typed
<1>10. GoesThrough(t, 1, call, calls[t])
  <2> HIDE DEF Returns, Enters
  <2> QED BY <1>5, <1>7, <1>8, <1>9 DEF GoesThrough
<1> HIDE DEF GoesThrough
<1> QED BY <1>1, <1>4, <1>10

LEMMA StoreCall ==
  ASSUME Typed, Older, AllNaming, NEW t \in Threads, Store(t)
  PROVE  \E call, first :
           /\ GoesThrough(t, first, call, Front(calls[t]))
           /\ call = Top(t) /\ call = calls[t][Len(calls[t])]
           /\ Len(calls[t]) \in DOMAIN calls[t] /\ Len(Front(calls[t])) = Len(calls[t]) - 1
           /\ call \in Call /\ call.op # "event" /\ call.span \in Id /\ call.write \in Write
           /\ Id' = Id /\ Write' = Write /\ UNCHANGED <<spans, writes>>
<1>1. PICK call : call = Top(t) OBVIOUS
<1>2. /\ call = calls[t][Len(calls[t])] /\ Len(calls[t]) \in DOMAIN calls[t]
      /\ call \in Call /\ call.op # "event" /\ call.span \in Id /\ call.write \in Write
      /\ Under(t, Front(calls[t])) /\ Len(Front(calls[t])) = Len(calls[t]) - 1
      /\ UNCHANGED <<spans, writes>>
  BY <1>1, StoreCalls
<1>3. PICK first : \/ Returns(t, first, call, Front(calls[t]))
                   \/ \E layer \in Layers : Enters(t, call, Front(calls[t]), layer)
  BY <1>1, StoreCalls
<1>4. Id' = Id /\ Write' = Write /\ Call' = Call BY <1>2, Unmoved
<1>5. \A layer \in Layers : Scope(call, layer) \in Seq(Id')
  BY <1>2, <1>4, ScopeType, Domains
<1>6. GoesThrough(t, first, call, Front(calls[t]))
  <2> HIDE DEF Returns, Enters
  <2> QED BY <1>2, <1>3, <1>4, <1>5 DEF GoesThrough
<1> HIDE DEF GoesThrough
<1> QED BY <1>1, <1>2, <1>4, <1>6

LEMMA EmitCall ==
  ASSUME Typed, Older, AllNaming, NEW t \in Threads, EmitRecord(t)
  PROVE  \E call, first :
           /\ GoesThrough(t, first, call, Front(calls[t]))
           /\ call = calls[t][Len(calls[t])]
           /\ Len(calls[t]) \in DOMAIN calls[t] /\ Len(Front(calls[t])) = Len(calls[t]) - 1
           /\ call.op = "event" /\ call.write = 0 /\ call.span \in Id \union {0}
           /\ UNCHANGED <<spans, slots, writes>>
<1>1. PICK call : call = Top(t) OBVIOUS
<1>2. /\ call = calls[t][Len(calls[t])] /\ Len(calls[t]) \in DOMAIN calls[t]
      /\ call \in Call /\ call.op = "event" /\ call.write = 0
      /\ Under(t, Front(calls[t])) /\ Len(Front(calls[t])) = Len(calls[t]) - 1
      /\ UNCHANGED <<spans, slots, writes>>
  BY <1>1, EmitCalls
<1>3. PICK first : \/ Returns(t, first, call, Front(calls[t]))
                   \/ \E layer \in Layers : Enters(t, call, Front(calls[t]), layer)
  BY <1>1, EmitCalls
<1>4. Id' = Id /\ Call' = Call BY <1>2, Unmoved
<1>5. call.span \in Id \union {0} BY <1>2 DEF Call
<1>6. \A layer \in Layers : Scope(call, layer) \in Seq(Id')
  BY <1>4, <1>5, ScopeType, Domains
<1>7. GoesThrough(t, first, call, Front(calls[t]))
  <2> HIDE DEF Returns, Enters
  <2> QED BY <1>2, <1>3, <1>4, <1>6 DEF GoesThrough
<1> HIDE DEF GoesThrough
<1> QED BY <1>2, <1>5, <1>7

LEMMA GoodNewSpan ==
  ASSUME Typed, Grown, AllGood, NEW t \in Threads, NEW site \in Sites,
         NEW parent \in {0} \union held, NEW names \in FieldSets,
         NewSpan(t, parent, site, names)
  PROVE  AllGood'
<1>1. PICK call, n, w :
        /\ GoesThrough(t, 1, call, calls[t])
        /\ call.op = "new_span" /\ call.span = n /\ call.site = site /\ call.write = w
        /\ call.began = returned
        /\ n \notin Id /\ n # 0 /\ Id' = Id \union {n}
        /\ spans' = Append(spans, [parent |-> parent, site |-> site])
        /\ spans'[n].site = site /\ spans'[n].parent = parent
        /\ w \notin Write /\ w # 0 /\ Write' = Write \union {w}
        /\ writes'[w].span = n /\ writes'[w].before = returned
        /\ UNCHANGED slots
  BY NewSpanCall
<1>2. held \subseteq Id /\ returned \subseteq Write /\ \A v \in Write : writes'[v].span \in Id
  BY DEF Typed, TypeOK, Grown
<1>3. returned' \subseteq returned \union {w} /\ held' \subseteq held \union {n}
  BY <1>1, ThroughGives DEF GoesThrough
<1>4. \A u \in Threads : \A j \in DOMAIN calls[u] : Undisturbed(calls[u][j])
  <2> TAKE u \in Threads
  <2> TAKE j \in DOMAIN calls[u]
  <2>1. Naming(calls[u][j]) /\ Writing(calls[u][j]) BY DEF AllGood, Good
  <2>2. \A v \in Write' \ Write : writes'[v].span = n BY <1>1
  <2> QED BY <1>1, <1>3, <2>1, <2>2 DEF Naming, Writing, Undisturbed
<1>5. /\ call.span \in Id' /\ call.write \in Write' /\ call.write \notin returned
      /\ writes'[call.write].span = call.span /\ call.site = spans'[call.span].site
      /\ call.span \notin held
      /\ \A v \in Write' : writes'[v].span = call.span => v = call.write
      /\ call.began \subseteq returned
  BY <1>1, <1>2
<1> QED BY <1>1, <1>4, <1>5, ThroughGood DEF GoesThrough

LEMMA GoodRecord ==
  ASSUME Typed, Grown, AllGood, NEW t \in Threads, NEW id \in held,
         NEW names \in FieldSets, Record(t, id, names)
  PROVE  AllGood'
<1>1. PICK call, w :
        /\ GoesThrough(t, 1, call, calls[t])
        /\ call.op = "record" /\ call.span = id /\ call.site = spans[id].site
        /\ call.write = w /\ call.began = returned
        /\ id \in Id
        /\ w \notin Write /\ w # 0 /\ Write' = Write \union {w}
        /\ writes'[w].span = id /\ writes'[w].before = returned
        /\ UNCHANGED <<spans, slots>>
  BY RecordCall
<1>2. Id' = Id /\ returned \subseteq Write BY <1>1 DEF Typed, TypeOK, Id
<1>3. returned' \subseteq returned \union {w} /\ held' \subseteq held
  BY <1>1, ThroughGives DEF GoesThrough
<1>4. \A u \in Threads : \A j \in DOMAIN calls[u] : Undisturbed(calls[u][j])
  <2> TAKE u \in Threads
  <2> TAKE j \in DOMAIN calls[u]
  <2>1. Naming(calls[u][j]) /\ Writing(calls[u][j]) BY DEF AllGood, Good
  <2>2. \A v \in Write' \ Write : writes'[v].span = id BY <1>1
  <2> QED BY <1>1, <1>3, <2>1, <2>2 DEF Naming, Writing, Undisturbed
<1>5. /\ call.span \in Id' /\ call.write \in Write' /\ call.write \notin returned
      /\ writes'[call.write].span = call.span /\ call.site = spans'[call.span].site
      /\ call.op # "new_span" /\ call.began \subseteq returned
  BY <1>1, <1>2
<1> QED BY <1>1, <1>4, <1>5, ThroughGood DEF GoesThrough

LEMMA GoodEvent ==
  ASSUME Typed, Older, Grown, AllGood, NEW t \in Threads, NEW id \in {0} \union held,
         NEW site \in Sites, Event(t, id, site)
  PROVE  AllGood'
<1>1. PICK call :
        /\ GoesThrough(t, 1, call, calls[t])
        /\ call.op = "event" /\ call.span = id /\ call.write = 0
        /\ call.began = returned /\ id \in Id \union {0}
        /\ UNCHANGED <<spans, slots, writes>>
  BY EventCall
<1>2. Write' = Write BY <1>1 DEF Write
<1>3. returned' \subseteq returned /\ held' \subseteq held
  BY <1>1, ThroughGives DEF GoesThrough
<1>4. \A u \in Threads : \A j \in DOMAIN calls[u] : Undisturbed(calls[u][j])
  BY <1>2, <1>3, StillUndisturbed
<1>5. call.began \subseteq returned /\ call.span \in Id \union {0} BY <1>1
<1> QED BY <1>1, <1>4, <1>5, ThroughGood DEF GoesThrough

LEMMA GoodStore ==
  ASSUME Typed, Older, Grown, AllGood, Alone, NEW t \in Threads, Store(t)
  PROVE  AllGood'
<1>0. AllNaming BY AllNamed
<1>1. PICK call, first :
        /\ GoesThrough(t, first, call, Front(calls[t]))
        /\ call = Top(t) /\ call = calls[t][Len(calls[t])]
        /\ Len(calls[t]) \in DOMAIN calls[t] /\ Len(Front(calls[t])) = Len(calls[t]) - 1
        /\ call \in Call /\ call.op # "event" /\ call.span \in Id /\ call.write \in Write
        /\ Id' = Id /\ Write' = Write /\ UNCHANGED <<spans, writes>>
  BY <1>0, StoreCall
<1>2. Writing(call) /\ Reporting(call) BY <1>1 DEF AllGood, Good
<1>3. /\ returned' \subseteq returned \union {call.write}
      /\ held' \subseteq held \union {x \in {call.span} : call.op = "new_span"}
  BY <1>1, ThroughGives DEF GoesThrough
<1>4. ASSUME NEW u \in Threads, NEW j \in DOMAIN calls[u],
             u # t \/ j <= Len(Front(calls[t]))
      PROVE  Undisturbed(calls[u][j])
  <2> DEFINE c == calls[u][j]
  <2>1. Naming(c) /\ Writing(c) BY DEF AllGood, Good
  <2>2. ~ (u = t /\ j = Len(calls[t]))
    <3>1. calls[t] \in Seq(Call) BY DEF Typed, TypeOK
    <3> QED BY <1>1, <1>4, <3>1
  <2>3. c.op # "event" => c.write # call.write BY <1>1, <2>2 DEF Alone
  <2> HIDE DEF c
  <2>4. c.op = "new_span" /\ call.op = "new_span" => c.span # call.span
    BY <1>1, <1>2, <2>1, <2>3 DEF Writing
  <2>5. c.op # "event" => c.write \notin returned' BY <1>3, <2>1, <2>3 DEF Writing
  <2>6. c.op = "new_span" => c.span \notin held' BY <1>3, <2>1, <2>4 DEF Writing
  <2> QED BY <1>1, <2>5, <2>6 DEF Undisturbed, c
<1>5. call.began \subseteq returned BY <1>2 DEF Reporting
<1>6. /\ call.write \notin returned
      /\ writes'[call.write].span = call.span /\ call.site = spans'[call.span].site
      /\ call.op = "new_span" =>
           /\ call.span \notin held
           /\ \A w \in Write' : writes'[w].span = call.span => w = call.write
  BY <1>1, <1>2 DEF Writing
<1>7. /\ call.op # "event" /\ call.span \in Id' /\ call.write \in Write'
      /\ GoesThrough(t, first, call, Front(calls[t]))
  BY <1>1
<1> QED BY <1>4, <1>5, <1>6, <1>7, ThroughGood DEF GoesThrough

LEMMA GoodEmit ==
  ASSUME Typed, Older, Grown, AllGood, NEW t \in Threads, EmitRecord(t)
  PROVE  AllGood'
<1>0. AllNaming BY AllNamed
<1>1. PICK call, first :
        /\ GoesThrough(t, first, call, Front(calls[t]))
        /\ call = calls[t][Len(calls[t])]
        /\ Len(calls[t]) \in DOMAIN calls[t] /\ Len(Front(calls[t])) = Len(calls[t]) - 1
        /\ call.op = "event" /\ call.write = 0 /\ call.span \in Id \union {0}
        /\ UNCHANGED <<spans, slots, writes>>
  BY <1>0, EmitCall
<1>2. Write' = Write BY <1>1 DEF Write
<1>3. returned' \subseteq returned /\ held' \subseteq held
  BY <1>1, ThroughGives DEF GoesThrough
<1>4. \A u \in Threads : \A j \in DOMAIN calls[u] : Undisturbed(calls[u][j])
  BY <1>2, <1>3, StillUndisturbed
<1>5. call.began \subseteq returned BY <1>1 DEF AllGood, Good, Reporting
<1> QED BY <1>1, <1>4, <1>5, ThroughGood DEF GoesThrough

(* A call that moves on within its layer.                                  *)
LEMMA GoodLock ==
  ASSUME Typed, Grown, AllGood, NEW t \in Threads, Lock(t)
  PROVE  AllGood'
<1>0. TypeOK BY DEF Typed
<1>1. PICK call : call = Top(t) OBVIOUS
<1>2. PICK e : e = [call EXCEPT !.stage = "locked"] OBVIOUS
<1>3. /\ ~Idle(t) /\ call.op # "event" /\ call.stage = "visit"
      /\ UNCHANGED <<spans, held, writes, returned>>
  BY <1>1 DEF Lock, In, At, app, history
<1>4. calls' = [calls EXCEPT ![t] = Append(Front(calls[t]), e)]
  BY <1>0, <1>1, <1>2 DEF Lock, Become, TypeOK
<1>5. /\ call = calls[t][Len(calls[t])] /\ Len(calls[t]) \in DOMAIN calls[t] /\ call \in Call
      /\ Under(t, Front(calls[t]))
  BY <1>0, <1>1, <1>3, UnderAll
<1>6. /\ e.op = call.op /\ e.layer = call.layer /\ e.span = call.span /\ e.site = call.site
      /\ e.write = call.write /\ e.began = call.began /\ e.scope = call.scope
      /\ e.chain = call.chain /\ e.stage = "locked"
  BY <1>2, <1>5 DEF Call
<1>7. \A u \in Threads : \A j \in DOMAIN calls[u] : Undisturbed(calls[u][j])
  <2>1. Write' = Write BY <1>3 DEF Write
  <2> QED BY <1>3, <2>1, StillUndisturbed
<1>8. Good(call)'
  <2>1. \A c : c = calls[t][Len(calls[t])] => Good(c)' BY <1>5, <1>7, UndisturbedGood
  <2> QED BY <1>5, <2>1
<1>9. Good(e)'
  <2>1. Naming(e)' BY <1>3, <1>6, <1>8 DEF Good, Naming
  <2>2. Writing(e)' BY <1>6, <1>8 DEF Good, Writing
  <2>3. Walking(e)'
    <3>1. Scope(e, e.layer)' = Scope(call, call.layer)' BY <1>6 DEF Scope
    <3> QED BY <1>6, <1>8, <3>1 DEF Good, Walking, IdsOf
  <2>4. Reporting(e)' BY <1>6, <1>8 DEF Good, Reporting
  <2> QED BY <2>1, <2>2, <2>3, <2>4 DEF Good
<1> QED BY <1>4, <1>5, <1>7, <1>9, AllGoodPushed

LEMMA GoodFromEvent ==
  ASSUME Typed, Grown, AllGood, NEW t \in Threads, FromEvent(t)
  PROVE  AllGood'
<1>0. TypeOK BY DEF Typed
<1>1. PICK call : call = Top(t) OBVIOUS
<1>2. PICK e : e = [call EXCEPT !.stage = "emit"] OBVIOUS
<1>3. /\ ~Idle(t) /\ call.op = "event" /\ call.stage = "visit"
      /\ UNCHANGED <<spans, held, writes, returned>>
  BY <1>1 DEF FromEvent, In, At, app, history, registry
<1>4. calls' = [calls EXCEPT ![t] = Append(Front(calls[t]), e)]
  BY <1>0, <1>1, <1>2 DEF FromEvent, Become, TypeOK
<1>5. /\ call = calls[t][Len(calls[t])] /\ Len(calls[t]) \in DOMAIN calls[t] /\ call \in Call
      /\ Under(t, Front(calls[t]))
  BY <1>0, <1>1, <1>3, UnderAll
<1>6. /\ e.op = call.op /\ e.layer = call.layer /\ e.span = call.span /\ e.site = call.site
      /\ e.write = call.write /\ e.began = call.began /\ e.scope = call.scope
      /\ e.chain = call.chain /\ e.stage = "emit"
  BY <1>2, <1>5 DEF Call
<1>7. \A u \in Threads : \A j \in DOMAIN calls[u] : Undisturbed(calls[u][j])
  <2>1. Write' = Write BY <1>3 DEF Write
  <2> QED BY <1>3, <2>1, StillUndisturbed
<1>8. Good(call)'
  <2>1. \A c : c = calls[t][Len(calls[t])] => Good(c)' BY <1>5, <1>7, UndisturbedGood
  <2> QED BY <1>5, <2>1
<1>9. Good(e)'
  <2>1. Naming(e)' BY <1>3, <1>6, <1>8 DEF Good, Naming
  <2>2. Writing(e)' BY <1>3, <1>6 DEF Writing
  <2>3. Walking(e)'
    <3>1. Scope(e, e.layer)' = Scope(call, call.layer)' BY <1>6 DEF Scope
    <3> QED BY <1>6, <1>8, <3>1 DEF Good, Walking, IdsOf
  <2>4. Reporting(e)' BY <1>6, <1>8 DEF Good, Reporting
  <2> QED BY <2>1, <2>2, <2>3, <2>4 DEF Good
<1> QED BY <1>4, <1>5, <1>7, <1>9, AllGoodPushed

-----------------------------------------------------------------------------
(* Reading one span more.                                                  *)

LEMMA Shifted ==
  ASSUME NEW S, NEW q \in Seq(S), NEW s \in Seq(S), s # <<>>
  PROVE  /\ Head(s) \in S /\ Tail(s) \in Seq(S)
         /\ Append(q, Head(s)) \o Tail(s) = q \o s
         /\ Len(s) = 1 <=> Tail(s) = <<>>
<1>1. Len(s) \in Nat \ {0} /\ Len(q) \in Nat BY EmptySeq
<1>2. /\ Head(s) \in S /\ Head(s) = s[1] /\ Tail(s) \in Seq(S) /\ Len(Tail(s)) = Len(s) - 1
      /\ \A i \in 1..Len(s) - 1 : Tail(s)[i] = s[i + 1]
  BY <1>1
<1>3. /\ Append(q, Head(s)) \in Seq(S) /\ Len(Append(q, Head(s))) = Len(q) + 1
      /\ \A i \in 1..Len(q) : Append(q, Head(s))[i] = q[i]
      /\ Append(q, Head(s))[Len(q) + 1] = Head(s)
  BY <1>2, AppendProperties
<1> DEFINE a == Append(q, Head(s))
           b == Tail(s)
<1> HIDE DEF a, b
<1>4. /\ a \in Seq(S) /\ Len(a) = Len(q) + 1 /\ b \in Seq(S) /\ Len(b) = Len(s) - 1
      /\ \A i \in 1..Len(q) : a[i] = q[i]
      /\ a[Len(q) + 1] = s[1]
      /\ \A i \in 1..Len(s) - 1 : b[i] = s[i + 1]
  BY <1>2, <1>3 DEF a, b
<1>5. /\ a \o b \in Seq(S) /\ Len(a \o b) = Len(a) + Len(b)
      /\ \A i \in 1..Len(a) + Len(b) :
           (a \o b)[i] = IF i <= Len(a) THEN a[i] ELSE b[i - Len(a)]
  BY <1>4, ConcatProperties
<1>6. /\ q \o s \in Seq(S) /\ Len(q \o s) = Len(q) + Len(s)
      /\ \A i \in 1..Len(q) + Len(s) :
           (q \o s)[i] = IF i <= Len(q) THEN q[i] ELSE s[i - Len(q)]
  BY ConcatProperties
<1>7. Len(a \o b) = Len(q \o s) /\ Len(a) + Len(b) = Len(q) + Len(s)
  BY <1>1, <1>4, <1>5, <1>6
<1>8. ASSUME NEW i \in 1..Len(a \o b) PROVE (a \o b)[i] = (q \o s)[i]
  <2>1. i \in 1..Len(q) + Len(s) /\ i \in 1..Len(a) + Len(b) BY <1>5, <1>7
  <2>2. CASE i <= Len(q)
    <3>1. i <= Len(a) /\ i \in 1..Len(q) BY <1>1, <1>4, <2>1, <2>2
    <3> QED BY <1>4, <1>5, <1>6, <2>1, <2>2, <3>1
  <2>3. CASE i = Len(q) + 1
    <3>1. i <= Len(a) /\ ~ (i <= Len(q)) /\ i - Len(q) = 1 BY <1>1, <1>4, <2>3
    <3> QED BY <1>4, <1>5, <1>6, <2>1, <2>3, <3>1
  <2>4. CASE i > Len(q) + 1
    <3>1. /\ ~ (i <= Len(a)) /\ ~ (i <= Len(q)) /\ i - Len(a) \in 1..Len(s) - 1
          /\ i - Len(a) + 1 = i - Len(q)
      BY <1>1, <1>4, <2>1, <2>4
    <3> QED BY <1>4, <1>5, <1>6, <2>1, <3>1
  <2> QED BY <1>1, <2>1, <2>2, <2>3, <2>4
<1>9. a \o b = q \o s
  <2> DEFINE x == a \o b
             y == q \o s
  <2>1. x \in Seq(S) /\ y \in Seq(S) /\ Len(x) = Len(y) /\ \A i \in 1..Len(x) : x[i] = y[i]
    BY <1>5, <1>6, <1>7, <1>8
  <2> HIDE DEF x, y
  <2>2. x = y BY <2>1, SeqEqual
  <2> QED BY <2>2 DEF x, y
<1>10. Len(s) = 1 <=> b = <<>> BY <1>1, <1>4, EmptySeq
<1> QED BY <1>2, <1>9, <1>10 DEF a, b

LEMMA IdsAppended ==
  ASSUME NEW S, NEW ch \in Seq([id : Id, fields : S]), NEW s \in [id : Id, fields : S]
  PROVE  /\ IdsOf(ch) \in Seq(Id)
         /\ IdsOf(Append(ch, s)) = Append(IdsOf(ch), s.id)
         /\ Range(Append(ch, s)) = Range(ch) \union {s}
         /\ Len(IdsOf(ch)) = Len(ch)
<1> DEFINE C == [id : Id, fields : S]
<1>1. /\ Len(ch) \in Nat /\ DOMAIN ch = 1..Len(ch) /\ \A i \in 1..Len(ch) : ch[i] \in C
      /\ s \in C
  <2> HIDE DEF C
  <2>1. ch \in Seq(C) /\ s \in C BY DEF C
  <2> QED BY <2>1
<1>2. \A x \in C : x.id \in Id OBVIOUS
<1>3. /\ Append(ch, s) \in Seq(C) /\ Len(Append(ch, s)) = Len(ch) + 1
      /\ \A i \in 1..Len(ch) : Append(ch, s)[i] = ch[i]
      /\ Append(ch, s)[Len(ch) + 1] = s
  <2> HIDE DEF C
  <2>1. ch \in Seq(C) /\ s \in C BY DEF C
  <2> QED BY <2>1, AppendProperties
<1> HIDE DEF C
<1>4. DOMAIN Append(ch, s) = 1..Len(ch) + 1 BY <1>1, <1>3
<1>5. IdsOf(ch) = [i \in 1..Len(ch) |-> ch[i].id] BY <1>1 DEF IdsOf
<1>6. IdsOf(ch) \in Seq(Id) /\ Len(IdsOf(ch)) = Len(ch)
  <2>1. \A i \in 1..Len(ch) : ch[i].id \in Id BY <1>1, <1>2
  <2> QED BY <1>1, <1>5, <2>1
<1>7. IdsOf(Append(ch, s)) = [i \in 1..Len(ch) + 1 |-> Append(ch, s)[i].id]
  BY <1>4 DEF IdsOf
<1>8. IdsOf(Append(ch, s)) = Append(IdsOf(ch), s.id)
  <2> DEFINE x == IdsOf(Append(ch, s))
             y == Append(IdsOf(ch), s.id)
  <2>1. s.id \in Id BY <1>1, <1>2
  <2>2. /\ y \in Seq(Id) /\ Len(y) = Len(ch) + 1
        /\ \A i \in 1..Len(ch) : y[i] = IdsOf(ch)[i]
        /\ y[Len(ch) + 1] = s.id
    BY <1>6, <2>1, AppendProperties
  <2>3. \A i \in 1..Len(ch) + 1 : Append(ch, s)[i].id \in Id
    BY <1>1, <1>2, <1>3
  <2>4. x \in Seq(Id) /\ Len(x) = Len(ch) + 1
    <3>1. Len(ch) + 1 \in Nat BY <1>1
    <3> QED BY <1>7, <2>3, <3>1
  <2>5. \A i \in 1..Len(ch) + 1 : x[i] = Append(ch, s)[i].id BY <1>7
  <2>6. \A i \in 1..Len(ch) + 1 : x[i] = y[i]
    <3> TAKE i \in 1..Len(ch) + 1
    <3>1. CASE i \in 1..Len(ch)
      <4>1. y[i] = ch[i].id BY <1>5, <2>2, <3>1
      <4>2. x[i] = ch[i].id BY <1>3, <2>5, <3>1
      <4> QED BY <4>1, <4>2
    <3>2. CASE i = Len(ch) + 1 BY <1>3, <2>2, <2>5, <3>2
    <3>3. i \in 1..Len(ch) \/ i = Len(ch) + 1 BY <1>1
    <3> QED BY <3>1, <3>2, <3>3
  <2> HIDE DEF x, y
  <2>7. x = y BY <2>2, <2>4, <2>6, SeqEqual
  <2> QED BY <2>7 DEF x, y
<1>9. Range(Append(ch, s)) = Range(ch) \union {s}
  <2>1. DOMAIN Append(ch, s) = DOMAIN ch \union {Len(ch) + 1} BY <1>1, <1>4
  <2>2. \A i \in DOMAIN ch : Append(ch, s)[i] = ch[i] BY <1>1, <1>3
  <2> DEFINE q == Append(ch, s)
             k == Len(ch) + 1
  <2>3. q[k] = s BY <1>3
  <2> HIDE DEF q, k
  <2>4. DOMAIN q = DOMAIN ch \union {k} /\ \A i \in DOMAIN ch : q[i] = ch[i]
    BY <2>1, <2>2 DEF q, k
  <2>5. Range(q) = Range(ch) \union {s} BY <2>3, <2>4 DEF Range
  <2> QED BY <2>5 DEF q
<1> QED BY <1>6, <1>8, <1>9

(* The next span a layer reads is open, and the layer lets it through.     *)
LEMMA NextInScope ==
  ASSUME Typed, Older, NEW t \in Threads, NEW call \in Range(calls[t]),
         Naming(call), Walking(call), call.scope # <<>>
  PROVE  /\ call.op = "event" /\ call.layer \in Layers
         /\ call.chain \in Seq([id : Id, fields : Fields]) /\ call.scope \in Seq(Id)
         /\ Head(call.scope) \in Id /\ Head(call.scope) \in Open /\ Seen(Head(call.scope))
<1> DEFINE C == [id : Id, fields : Fields]
           s == call.scope
           ids == IdsOf(call.chain)
           line == InContext(call.layer, call.span)
<1>1. /\ call.layer \in Layers /\ call.span \in Id \union {0}
      /\ call.chain \in Seq(C) /\ s \in Seq(Id)
  <2>1. call \in Call BY DEF Typed, TypeOK, Range
  <2> QED BY <2>1 DEF Call
<1>2. ids \in Seq(Id) /\ Len(ids) \in Nat
  <2>1. CASE call.chain = <<>>
    <3>1. DOMAIN <<>> = {} /\ <<>> \in Seq(Id) OBVIOUS
    <3>2. ids = <<>>
      <4>1. ids = [i \in {} |-> call.chain[i].id] BY <2>1, <3>1 DEF IdsOf
      <4>2. \A f : [i \in {} |-> f[i].id] = <<>> OBVIOUS
      <4> QED BY <4>1, <4>2
    <3> HIDE DEF ids
    <3> QED BY <3>1, <3>2
  <2>2. CASE call.chain # <<>>
    <3>1. Len(call.chain) \in Nat \ {0} BY <1>1, <2>2, EmptySeq
    <3>2. call.chain[1] \in C
      <4> HIDE DEF C
      <4> QED BY <1>1, <3>1
    <3>3. ids \in Seq(Id) BY <1>1, <3>2, IdsAppended
    <3> HIDE DEF ids
    <3> QED BY <3>3
  <2> QED BY <2>1, <2>2
<1>3. ids \o s = Scope(call, call.layer) BY DEF Walking
<1> HIDE DEF ids, s, line
<1>4. Len(s) \in Nat \ {0} /\ Head(s) = s[1] /\ Head(s) \in Id
  <2>1. s # <<>> BY DEF s
  <2> QED BY <1>1, <2>1, EmptySeq
<1>5. /\ Len(ids \o s) = Len(ids) + Len(s)
      /\ \A i \in 1..Len(ids) + Len(s) :
           (ids \o s)[i] = IF i <= Len(ids) THEN ids[i] ELSE s[i - Len(ids)]
  BY <1>1, <1>2, ConcatProperties
<1>6. Len(ids) + 1 \in 1..Len(ids \o s) /\ (ids \o s)[Len(ids) + 1] = Head(s)
  BY <1>2, <1>4, <1>5
<1>7. ids \o s # <<>>
  <2>1. Len(<<>>) = 0 OBVIOUS
  <2> QED BY <1>2, <1>4, <1>5, <2>1
<1>8. call.op = "event" /\ ids \o s = line BY <1>3, <1>7 DEF Scope, line
<1>9. /\ line \in Seq(Id)
      /\ Range(line) = {x \in Ancestors(call.span) : Passes(call.layer, spans[x].site)}
  BY <1>1, ContextListsVisible, Domains DEF line
<1>10. Head(s) \in Range(line)
  <2>1. Len(ids) + 1 \in DOMAIN line BY <1>6, <1>8, <1>9
  <2> QED BY <1>6, <1>8, <2>1 DEF Range
<1>11. Head(s) \in Ancestors(call.span) /\ Passes(call.layer, spans[Head(s)].site)
  BY <1>9, <1>10
<1>12. call.span \in InUse BY DEF InUse
<1>13. Head(s) \in Open BY <1>11, <1>12 DEF Open
<1>14. Seen(Head(s)) BY <1>1, <1>11 DEF Seen
<1> QED BY <1>1, <1>4, <1>8, <1>13, <1>14 DEF s

LEMMA GoodSnapshot ==
  ASSUME Typed, Older, Grown, AllGood, SlotsFresh, NEW t \in Threads, SnapshotSpan(t)
  PROVE  AllGood'
<1>0. TypeOK BY DEF Typed
<1>1. PICK call : call = Top(t) OBVIOUS
<1>2. PICK s : s = Snapshot(Head(call.scope)) OBVIOUS
<1>3. PICK e : e = [call EXCEPT !.stage = IF Len(call.scope) = 1 THEN "visit" ELSE "read",
                                !.scope = Tail(call.scope),
                                !.chain = Append(call.chain, s)]
  OBVIOUS
<1>4. /\ ~Idle(t) /\ call.op = "event" /\ call.stage = "read"
      /\ UNCHANGED <<spans, held, writes, returned>>
  BY <1>1 DEF SnapshotSpan, In, At, app, history, registry
<1>5. /\ call = calls[t][Len(calls[t])] /\ Len(calls[t]) \in DOMAIN calls[t] /\ call \in Call
      /\ Under(t, Front(calls[t]))
  BY <1>0, <1>1, <1>4, UnderAll
<1>6. calls' = [calls EXCEPT ![t] = Append(Front(calls[t]), e)]
  <2> DEFINE C == [id : Id, fields : Fields]
             T == [op : {"new_span", "record", "event"}, layer : Layers,
                   stage : {"read", "visit", "locked", "emit"},
                   span : Id \union {0}, site : Sites, write : Write \union {0},
                   began : SUBSET Write, scope : Seq(Id), chain : Seq(C)]
  <2>1. calls' = [calls EXCEPT ![t] = Append(Front(@),
           [Top(t) EXCEPT !.stage = IF Len(Top(t).scope) = 1 THEN "visit" ELSE "read",
                          !.scope = Tail(@),
                          !.chain = Append(@, Snapshot(Head(Top(t).scope)))])]
    BY DEF SnapshotSpan, Become
  <2>2. call \in T BY <1>5 DEF Call
  <2>3. t \in DOMAIN calls BY <1>0 DEF TypeOK
  <2> HIDE DEF C
  <2> QED BY <1>1, <1>2, <1>3, <2>1, <2>2, <2>3
<1>7. /\ e.op = call.op /\ e.layer = call.layer /\ e.span = call.span /\ e.site = call.site
      /\ e.write = call.write /\ e.began = call.began /\ e.scope = Tail(call.scope)
      /\ e.chain = Append(call.chain, s)
      /\ e.stage = (IF Len(call.scope) = 1 THEN "visit" ELSE "read")
  BY <1>3, <1>5 DEF Call
<1>8. Good(call) BY <1>5 DEF AllGood
<1>9. call.scope # <<>> /\ call \in Range(calls[t])
  BY <1>4, <1>5, <1>8 DEF Good, Naming, Range
<1>10. /\ call.layer \in Layers
       /\ call.chain \in Seq([id : Id, fields : Fields]) /\ call.scope \in Seq(Id)
       /\ Head(call.scope) \in Id /\ Head(call.scope) \in Open /\ Seen(Head(call.scope))
  BY <1>8, <1>9, NextInScope DEF Good
<1>11. /\ s.id = Head(call.scope) /\ s.fields = FieldsOf(s.id)
       /\ s \in [id : Id, fields : Fields]
  <2>1. <<>> \in Fields
    <3>1. <<>> \in Seq([name : FieldNames, value : Write]) /\ DOMAIN <<>> = {} OBVIOUS
    <3> QED BY <3>1 DEF Fields
  <2>2. FieldsOf(Head(call.scope)) \in Fields BY <1>0, <2>1 DEF FieldsOf, TypeOK
  <2>3. s = [id |-> Head(call.scope), fields |-> FieldsOf(Head(call.scope))]
    BY <1>2 DEF Snapshot, FieldsOf
  <2> HIDE DEF FieldsOf
  <2> QED BY <1>10, <2>2, <2>3
<1>12. /\ IdsOf(call.chain) \in Seq(Id)
       /\ IdsOf(e.chain) = Append(IdsOf(call.chain), Head(call.scope))
       /\ Range(e.chain) = Range(call.chain) \union {s}
  <2>1. /\ IdsOf(call.chain) \in Seq(Id)
        /\ IdsOf(Append(call.chain, s)) = Append(IdsOf(call.chain), s.id)
        /\ Range(Append(call.chain, s)) = Range(call.chain) \union {s}
        /\ Len(IdsOf(call.chain)) = Len(call.chain)
    BY <1>10, <1>11, IdsAppended
  <2> QED BY <1>7, <1>11, <2>1
<1>13. /\ IdsOf(e.chain) \o e.scope = IdsOf(call.chain) \o call.scope
       /\ Len(call.scope) = 1 <=> e.scope = <<>>
  <2> DEFINE q == IdsOf(call.chain)
             r == call.scope
  <2>1. q \in Seq(Id) /\ r \in Seq(Id) /\ r # <<>> BY <1>9, <1>10, <1>12
  <2> HIDE DEF q, r
  <2>2. /\ Head(r) \in Id /\ Tail(r) \in Seq(Id)
        /\ Append(q, Head(r)) \o Tail(r) = q \o r
        /\ Len(r) = 1 <=> Tail(r) = <<>>
    BY <2>1, Shifted
  <2> QED BY <1>7, <1>12, <2>2 DEF q, r
<1>14. Id' = Id /\ Write' = Write BY <1>4 DEF Id, Write
<1>15. \A u \in Threads : \A j \in DOMAIN calls[u] : Undisturbed(calls[u][j])
  BY <1>4, <1>14, StillUndisturbed
<1>16. Good(call)'
  <2>1. \A c : c = calls[t][Len(calls[t])] => Good(c)' BY <1>5, <1>15, UndisturbedGood
  <2> QED BY <1>5, <2>1
<1>17. Naming(e)' BY <1>4, <1>7, <1>13, <1>16 DEF Good, Naming
<1>18. Writing(e)' BY <1>4, <1>7 DEF Writing
<1>19. Walking(e)'
  <2>1. Scope(e, e.layer)' = Scope(call, call.layer)' BY <1>7 DEF Scope
  <2> QED BY <1>7, <1>13, <1>16, <2>1 DEF Good, Walking, IdsOf
<1>20. Fresh(s.id, s.fields, e.began)'
  <2>1. Fresh(s.id, s.fields, returned) BY <1>10, <1>11 DEF SlotsFresh
  <2>2. call.began \subseteq returned BY <1>8 DEF Good, Reporting
  <2>3. Fresh(s.id, s.fields, call.began)
    <3>1. Due(s.id, s.fields, call.began) \subseteq Due(s.id, s.fields, returned)
      BY <2>2 DEF Due
    <3> QED BY <2>1, <3>1 DEF Fresh
  <2>4. s.fields \in Fields BY <1>11
  <2>5. call.began \in SUBSET Write BY <1>5 DEF Call
  <2> QED BY <1>7, <2>3, <2>4, <2>5, FreshKept
<1>21. Reporting(e)' BY <1>7, <1>12, <1>16, <1>20 DEF Good, Reporting
<1>22. Good(e)' BY <1>17, <1>18, <1>19, <1>21 DEF Good
<1> QED BY <1>5, <1>6, <1>15, <1>22, AllGoodPushed

LEMMA AllGoodStep ==
  ASSUME Typed, Older, Alone, SlotsFresh, AllGood, [Next]_vars
  PROVE  AllGood'
<1>1. AllNaming BY AllNamed
<1>2. Typed' /\ Grown BY <1>1, TypeStep, GrowsStep
<1>3. ASSUME NEW t \in Threads, Callback(t) PROVE AllGood'
  BY <1>2, <1>3, GoodLock, GoodStore, GoodSnapshot, GoodFromEvent, GoodEmit DEF Callback
<1>4. ASSUME NEW t \in Threads, Application(t) PROVE AllGood'
  BY <1>2, <1>4, GoodNewSpan, GoodRecord, GoodEvent DEF Application
<1>5. ASSUME UNCHANGED <<spans, calls, writes, returned>>, held' \subseteq held
      PROVE  AllGood'
  <2>1. Write' = Write BY <1>5 DEF Write
  <2>2. \A u \in Threads : \A j \in DOMAIN calls[u] : Undisturbed(calls[u][j])
    BY <1>5, <2>1, StillUndisturbed
  <2>3. \A u \in Threads : \A j \in DOMAIN calls[u] :
          \A c : c = calls[u][j] => Good(c)'
    BY <1>2, <2>2, UndisturbedGood
  <2> QED BY <1>5, <2>3 DEF AllGood
<1>6. ASSUME NEW id \in held, Drop(id) PROVE AllGood'
  BY <1>5, <1>6 DEF Drop, history
<1> QED
  BY <1>3, <1>4, <1>5, <1>6 DEF Next, Quiescent, vars, registry, app, history

-----------------------------------------------------------------------------
(* A write belongs to one call.                                            *)

LEMMA AlonePushed ==
  ASSUME Typed, AllNaming, Alone, NEW t \in Threads, NEW caller, Under(t, caller),
         NEW e, calls' = [calls EXCEPT ![t] = Append(caller, e)],
         \/ e.op = "event" /\ e.write = 0
         \/ e.write \notin Write /\ e.write # 0
         \/ /\ Len(caller) + 1 \in DOMAIN calls[t]
            /\ e.op = calls[t][Len(caller) + 1].op
            /\ e.write = calls[t][Len(caller) + 1].write
  PROVE  Alone'
<1>0. TypeOK BY DEF Typed
<1>1. /\ \A u \in Threads : u # t => calls'[u] = calls[u]
      /\ DOMAIN calls'[t] = 1..Len(caller) + 1 /\ Len(caller) \in Nat
      /\ DOMAIN caller = 1..Len(caller)
      /\ calls'[t][Len(caller) + 1] = e
      /\ \A j \in 1..Len(caller) : /\ j \in DOMAIN calls[t]
                                   /\ calls'[t][j] = calls[t][j]
  BY <1>0, CallsPushed
<1> DEFINE Old(u, j) == /\ j \in DOMAIN calls[u]
                        /\ calls'[u][j].op = calls[u][j].op
                        /\ calls'[u][j].write = calls[u][j].write
           New(u, j) == u = t /\ j = Len(caller) + 1 /\ calls'[u][j] = e
<1>2. ASSUME NEW u \in Threads, NEW j \in DOMAIN calls'[u]
      PROVE  Old(u, j) \/ New(u, j)
  <2>1. CASE u # t
    <3>1. calls'[u] = calls[u] BY <1>1, <2>1
    <3> QED BY <3>1
  <2>2. CASE u = t /\ j \in 1..Len(caller)
    <3>1. j \in DOMAIN calls[t] /\ calls'[t][j] = calls[t][j] BY <1>1, <2>2
    <3> QED BY <2>2, <3>1
  <2>3. CASE u = t /\ j = Len(caller) + 1 BY <1>1, <2>3
  <2> QED BY <1>1, <2>1, <2>2, <2>3
<1>3. ASSUME NEW u \in Threads, NEW j, Old(u, j)
      PROVE  \/ calls'[u][j].op = "event" /\ calls'[u][j].write = 0
             \/ calls'[u][j].op # "event" /\ calls'[u][j].write \in Write
  BY <1>3 DEF AllNaming, Naming
<1>4. 0 \notin Write BY Domains
<1> SUFFICES ASSUME NEW u \in Threads, NEW v \in Threads,
                    NEW i \in DOMAIN calls'[u], NEW j \in DOMAIN calls'[v],
                    calls'[u][i].op # "event", calls'[u][i].write = calls'[v][j].write
             PROVE  u = v /\ i = j
  BY DEF Alone
<1> HIDE DEF Old, New
<1>5. CASE Old(u, i) /\ Old(v, j)
  BY <1>5 DEF Alone, Old
<1>6. CASE New(u, i) /\ New(v, j) BY <1>6 DEF New
<1>7. ASSUME NEW x \in Threads, NEW k, Old(x, k), NEW y \in Threads, NEW l, New(y, l),
             calls'[x][k].write = calls'[y][l].write,
             calls'[x][k].op # "event" \/ calls'[y][l].op # "event"
      PROVE  x = y /\ k = l
  <2>1. y = t /\ l = Len(caller) + 1 /\ calls'[y][l] = e BY <1>7 DEF New
  <2>2. \/ calls'[x][k].op = "event" /\ calls'[x][k].write = 0
        \/ calls'[x][k].op # "event" /\ calls'[x][k].write \in Write
    BY <1>3, <1>7
  <2>3. CASE e.op = "event" /\ e.write = 0 BY <1>4, <1>7, <2>1, <2>2, <2>3
  <2>4. CASE e.write \notin Write /\ e.write # 0 BY <1>7, <2>1, <2>2, <2>4
  <2>5. CASE /\ Len(caller) + 1 \in DOMAIN calls[t]
             /\ e.op = calls[t][Len(caller) + 1].op
             /\ e.write = calls[t][Len(caller) + 1].write
    <3>1. /\ k \in DOMAIN calls[x] /\ l \in DOMAIN calls[y]
          /\ calls[x][k].write = calls[y][l].write
          /\ calls[x][k].op # "event" \/ calls[y][l].op # "event"
      BY <1>7, <2>1, <2>5 DEF Old
    <3> QED BY <3>1 DEF Alone
  <2> QED BY <2>3, <2>4, <2>5
<1> QED BY <1>2, <1>5, <1>6, <1>7

LEMMA AlonePopped ==
  ASSUME Typed, Alone, NEW t \in Threads, NEW caller, Under(t, caller),
         calls' = [calls EXCEPT ![t] = caller]
  PROVE  Alone'
<1>1. calls \in [Threads -> Seq(Call)] BY DEF Typed, TypeOK
<1>2. calls'[t] = caller /\ \A u \in Threads : u # t => calls'[u] = calls[u] BY <1>1
<1>3. \A u \in Threads : \A j \in DOMAIN calls'[u] :
        j \in DOMAIN calls[u] /\ calls'[u][j] = calls[u][j]
  BY <1>2 DEF Under
<1> QED BY <1>3 DEF Alone

LEMMA AloneThrough ==
  ASSUME Typed, AllNaming, Alone, NEW t \in Threads, NEW caller, Under(t, caller),
         NEW call \in Call', NEW first,
         \A layer \in Layers : Scope(call, layer) \in Seq(Id'),
         \/ Returns(t, first, call, caller)
         \/ \E layer \in Layers : Enters(t, call, caller, layer),
         \/ call.op = "event" /\ call.write = 0
         \/ call.write \notin Write /\ call.write # 0
         \/ /\ Len(caller) + 1 \in DOMAIN calls[t]
            /\ call.op = calls[t][Len(caller) + 1].op
            /\ call.write = calls[t][Len(caller) + 1].write
  PROVE  Alone'
<1>1. CASE Returns(t, first, call, caller)
  BY <1>1, AlonePopped DEF Returns
<1>2. CASE \E layer \in Layers : Enters(t, call, caller, layer)
  <2>1. PICK layer \in Layers : Enters(t, call, caller, layer) BY <1>2
  <2>2. PICK e : e = Entered(call, layer) OBVIOUS
  <2>3. calls' = [calls EXCEPT ![t] = Append(caller, e)] BY <2>1, <2>2 DEF Enters
  <2>4. e.op = call.op /\ e.write = call.write BY <2>2, EnteredType
  <2>5. \/ e.op = "event" /\ e.write = 0
        \/ e.write \notin Write /\ e.write # 0
        \/ /\ Len(caller) + 1 \in DOMAIN calls[t]
           /\ e.op = calls[t][Len(caller) + 1].op
           /\ e.write = calls[t][Len(caller) + 1].write
    BY <2>4
  <2> QED BY <2>3, <2>5, AlonePushed
<1> QED BY <1>1, <1>2

LEMMA AloneNewSpan ==
  ASSUME Typed, AllNaming, Alone, NEW t \in Threads, NEW site \in Sites,
         NEW parent \in {0} \union held, NEW names \in FieldSets,
         NewSpan(t, parent, site, names)
  PROVE  Alone'
<1>1. PICK call, n, w :
        /\ GoesThrough(t, 1, call, calls[t])
        /\ call.op = "new_span" /\ call.span = n /\ call.site = site /\ call.write = w
        /\ call.began = returned
        /\ n \notin Id /\ n # 0 /\ Id' = Id \union {n}
        /\ spans' = Append(spans, [parent |-> parent, site |-> site])
        /\ spans'[n].site = site /\ spans'[n].parent = parent
        /\ w \notin Write /\ w # 0 /\ Write' = Write \union {w}
        /\ writes'[w].span = n /\ writes'[w].before = returned
        /\ UNCHANGED slots
  BY NewSpanCall
<1> QED BY <1>1, AloneThrough DEF GoesThrough

LEMMA AloneStep ==
  ASSUME Typed, Older, AllNaming, Alone, [Next]_vars
  PROVE  Alone'
<1>0. TypeOK /\ 0 \notin Write BY Domains DEF Typed
<1>1. ASSUME NEW t \in Threads, NEW site \in Sites, NEW parent \in {0} \union held,
             NEW names \in FieldSets, NewSpan(t, parent, site, names)
      PROVE  Alone'
  BY <1>1, AloneNewSpan
<1>2. ASSUME NEW t \in Threads, NEW id \in held, NEW names \in FieldSets,
             Record(t, id, names)
      PROVE  Alone'
  <2>1. PICK call, w : /\ GoesThrough(t, 1, call, calls[t])
                       /\ call.write = w /\ w \notin Write /\ w # 0
    BY <1>2, RecordCall
  <2> QED BY <2>1, AloneThrough DEF GoesThrough
<1>3. ASSUME NEW t \in Threads, NEW id \in {0} \union held, NEW site \in Sites,
             Event(t, id, site)
      PROVE  Alone'
  <2>1. PICK call : /\ GoesThrough(t, 1, call, calls[t])
                    /\ call.op = "event" /\ call.write = 0
    BY <1>3, EventCall
  <2> QED BY <2>1, AloneThrough DEF GoesThrough
<1>4. ASSUME NEW t \in Threads, NEW call, NEW first,
             GoesThrough(t, first, call, Front(calls[t])),
             call = calls[t][Len(calls[t])], Len(calls[t]) \in DOMAIN calls[t],
             Len(Front(calls[t])) = Len(calls[t]) - 1
      PROVE  Alone'
  <2>1. Len(Front(calls[t])) + 1 = Len(calls[t])
    <3>1. calls[t] \in Seq(Call) BY <1>0 DEF TypeOK
    <3> QED BY <1>4, <3>1
  <2>2. /\ Len(Front(calls[t])) + 1 \in DOMAIN calls[t]
        /\ call.op = calls[t][Len(Front(calls[t])) + 1].op
        /\ call.write = calls[t][Len(Front(calls[t])) + 1].write
    BY <1>4, <2>1
  <2> QED BY <1>4, <2>2, AloneThrough DEF GoesThrough
<1>5. ASSUME NEW t \in Threads, Store(t) PROVE Alone' BY <1>4, <1>5, StoreCall
<1>6. ASSUME NEW t \in Threads, EmitRecord(t) PROVE Alone' BY <1>4, <1>6, EmitCall
<1>7. ASSUME NEW t \in Threads, ~Idle(t), NEW e,
             calls' = [calls EXCEPT ![t] = Append(Front(calls[t]), e)],
             e.op = Top(t).op, e.write = Top(t).write
      PROVE  Alone'
  <2>1. /\ Under(t, Front(calls[t])) /\ Len(calls[t]) \in DOMAIN calls[t]
        /\ Top(t) = calls[t][Len(calls[t])]
        /\ Len(Front(calls[t])) = Len(calls[t]) - 1
    BY <1>0, <1>7, UnderAll
  <2>2. Len(Front(calls[t])) + 1 = Len(calls[t])
    <3>1. calls[t] \in Seq(Call) BY <1>0 DEF TypeOK
    <3> QED BY <2>1, <3>1
  <2>3. /\ Len(Front(calls[t])) + 1 \in DOMAIN calls[t]
        /\ e.op = calls[t][Len(Front(calls[t])) + 1].op
        /\ e.write = calls[t][Len(Front(calls[t])) + 1].write
    BY <1>7, <2>1, <2>2
  <2> QED BY <1>7, <2>1, <2>3, AlonePushed
<1>8. ASSUME NEW t \in Threads, NEW next, ~Idle(t), Become(t, next),
             next.op = Top(t).op, next.write = Top(t).write
      PROVE  Alone'
  <2>1. calls' = [calls EXCEPT ![t] = Append(Front(calls[t]), next)]
    BY <1>0, <1>8 DEF Become, TypeOK
  <2> QED BY <1>7, <1>8, <2>1
<1>9. ASSUME NEW t \in Threads, Lock(t) \/ SnapshotSpan(t) \/ FromEvent(t) PROVE Alone'
  <2>1. ~Idle(t) BY <1>9 DEF Lock, SnapshotSpan, FromEvent, In, At
  <2>2. Top(t) \in Call BY <1>0, <2>1, UnderAll
  <2>3. CASE Lock(t)
    <3>1. PICK next : next = [Top(t) EXCEPT !.stage = "locked"] OBVIOUS
    <3>2. next.op = Top(t).op /\ next.write = Top(t).write BY <2>2, <3>1 DEF Call
    <3>3. Become(t, next) BY <2>3, <3>1 DEF Lock
    <3> QED BY <1>8, <2>1, <3>2, <3>3
  <2>4. CASE FromEvent(t)
    <3>1. PICK next : next = [Top(t) EXCEPT !.stage = "emit"] OBVIOUS
    <3>2. next.op = Top(t).op /\ next.write = Top(t).write BY <2>2, <3>1 DEF Call
    <3>3. Become(t, next) BY <2>4, <3>1 DEF FromEvent
    <3> QED BY <1>8, <2>1, <3>2, <3>3
  <2>5. CASE SnapshotSpan(t)
    <3>1. PICK next : next =
            [Top(t) EXCEPT !.stage = IF Len(Top(t).scope) = 1 THEN "visit" ELSE "read",
                           !.scope = Tail(@),
                           !.chain = Append(@, Snapshot(Head(Top(t).scope)))]
      OBVIOUS
    <3>2. next.op = Top(t).op /\ next.write = Top(t).write BY <2>2, <3>1 DEF Call
    <3>3. Become(t, next) BY <2>5, <3>1 DEF SnapshotSpan
    <3> QED BY <1>8, <2>1, <3>2, <3>3
  <2> QED BY <1>9, <2>3, <2>4, <2>5
<1>10. UNCHANGED calls => Alone' BY DEF Alone
<1> QED
  BY <1>1, <1>2, <1>3, <1>5, <1>6, <1>9, <1>10
  DEF Next, Callback, Application, Quiescent, Drop, vars

LEMMA DatedStep ==
  ASSUME Typed, Older, AllNaming, Dated, Grown, [Next]_vars
  PROVE  Dated'
<1>1. \A w \in Write : writes'[w].before \subseteq returned' BY DEF Dated, Grown
<1>2. \A w \in Write' \ Write : writes'[w].before \subseteq returned'
  <2>1. ASSUME NEW t \in Threads, NEW site \in Sites, NEW parent \in {0} \union held,
               NEW names \in FieldSets, NewSpan(t, parent, site, names)
        PROVE  \A w \in Write' \ Write : writes'[w].before \subseteq returned'
    <3>1. PICK w : Write' = Write \union {w} /\ writes'[w].before = returned
      BY <2>1, NewSpanCall
    <3> QED BY <3>1 DEF Grown
  <2>2. ASSUME NEW t \in Threads, NEW id \in held, NEW names \in FieldSets,
               Record(t, id, names)
        PROVE  \A w \in Write' \ Write : writes'[w].before \subseteq returned'
    <3>1. PICK w : Write' = Write \union {w} /\ writes'[w].before = returned
      BY <2>2, RecordCall
    <3> QED BY <3>1 DEF Grown
  <2>3. UNCHANGED writes => Write' = Write BY DEF Write
  <2> QED
    BY <2>1, <2>2, <2>3
    DEF Next, Callback, Application, Quiescent, Event, Drop, Lock, Store, SnapshotSpan,
        FromEvent, EmitRecord, vars, history
<1> QED BY <1>1, <1>2 DEF Dated

-----------------------------------------------------------------------------
(* The spans that stay open.                                               *)

LEMMA InUseOf ==
  ASSUME Typed
  PROVE  /\ InUse \subseteq Id \union {0}
         /\ \A x : x \in InUse <=>
              \E u \in Threads : \E j \in DOMAIN calls[u] : x = calls[u][j].span
<1>1. \A x : x \in InUse <=> \E u \in Threads : \E j \in DOMAIN calls[u] : x = calls[u][j].span
  BY DEF InUse, Range
<1>2. ASSUME NEW u \in Threads, NEW j \in DOMAIN calls[u]
      PROVE  calls[u][j].span \in Id \union {0}
  <2>1. calls[u][j] \in Call BY DEF Typed, TypeOK
  <2> QED BY <2>1 DEF Call
<1> QED BY <1>1, <1>2

LEMMA InUsePushed ==
  ASSUME Typed, NEW t \in Threads, NEW caller, Under(t, caller), NEW e,
         calls' = [calls EXCEPT ![t] = Append(caller, e)]
  PROVE  InUse' \subseteq InUse \union {e.span}
<1>1. /\ \A u \in Threads : u # t => calls'[u] = calls[u]
      /\ DOMAIN calls'[t] = 1..Len(caller) + 1 /\ Len(caller) \in Nat
      /\ DOMAIN caller = 1..Len(caller)
      /\ calls'[t][Len(caller) + 1] = e
      /\ \A j \in 1..Len(caller) : /\ j \in DOMAIN calls[t]
                                   /\ calls'[t][j] = calls[t][j]
  BY CallsPushed DEF Typed
<1>2. \A x \in InUse' : \E u \in Threads : \E j \in DOMAIN calls'[u] : x = calls'[u][j].span
  BY DEF InUse, Range
<1>3. ASSUME NEW u \in Threads, NEW j \in DOMAIN calls'[u]
      PROVE  calls'[u][j].span \in InUse \union {e.span}
  <2>1. CASE u # t BY <1>1, <2>1, InUseOf
  <2>2. CASE u = t /\ j \in 1..Len(caller) BY <1>1, <2>2, InUseOf
  <2>3. CASE u = t /\ j = Len(caller) + 1 BY <1>1, <2>3
  <2> QED BY <1>1, <2>1, <2>2, <2>3
<1> QED BY <1>2, <1>3

LEMMA InUsePopped ==
  ASSUME Typed, NEW t \in Threads, NEW caller, Under(t, caller),
         calls' = [calls EXCEPT ![t] = caller]
  PROVE  InUse' \subseteq InUse
<1>1. calls'[t] = caller /\ \A u \in Threads : u # t => calls'[u] = calls[u]
  BY DEF Typed, TypeOK
<1>2. \A x \in InUse' : \E u \in Threads : \E j \in DOMAIN calls'[u] : x = calls'[u][j].span
  BY DEF InUse, Range
<1>3. \A u \in Threads : \A j \in DOMAIN calls'[u] :
        j \in DOMAIN calls[u] /\ calls'[u][j] = calls[u][j]
  BY <1>1 DEF Under
<1> QED BY <1>2, <1>3, InUseOf

LEMMA UseThrough ==
  ASSUME Typed, NEW t \in Threads, NEW call, NEW first, NEW caller,
         GoesThrough(t, first, call, caller)
  PROVE  held' \union InUse' \subseteq held \union InUse \union {call.span}
<1>1. Under(t, caller) /\ call \in Call' BY DEF GoesThrough
<1>2. held' \subseteq held \union {call.span} BY ThroughGives DEF GoesThrough
<1>3. CASE Returns(t, first, call, caller)
  <2>1. calls' = [calls EXCEPT ![t] = caller] BY <1>3 DEF Returns
  <2> QED BY <1>1, <1>2, <2>1, InUsePopped
<1>4. CASE \E layer \in Layers : Enters(t, call, caller, layer)
  <2>1. PICK layer \in Layers : Enters(t, call, caller, layer) BY <1>4
  <2>2. PICK e : e = Entered(call, layer) OBVIOUS
  <2>3. calls' = [calls EXCEPT ![t] = Append(caller, e)] BY <2>1, <2>2 DEF Enters
  <2>4. e.span = call.span BY <1>1, <2>2, EnteredType DEF GoesThrough
  <2>5. InUse' \subseteq InUse \union {e.span} BY <1>1, <2>3, InUsePushed
  <2> QED BY <1>2, <2>4, <2>5
<1> QED BY <1>3, <1>4 DEF GoesThrough

LEMMA OpenKept ==
  ASSUME Typed, Older, Grown, held' \union InUse' \subseteq held \union InUse \union {0}
  PROVE  Open' \subseteq Open
<1>1. held \subseteq Id /\ InUse \subseteq Id \union {0}
  BY InUseOf DEF Typed, TypeOK
<1>2. Ancestors(0) = {} BY Domains, AncestorsOf
<1>3. \A o \in held' \union InUse' : Ancestors(o)' = Ancestors(o) BY <1>1 DEF Grown
<1>4. Open' = UNION {Ancestors(o)' : o \in held' \union InUse'} BY DEF Open
<1>5. SUFFICES ASSUME NEW x, NEW o \in held' \union InUse', x \in Ancestors(o)
      PROVE  x \in Open
  BY <1>3, <1>4
<1>6. o # 0 BY <1>2, <1>5
<1> QED BY <1>5, <1>6 DEF Open

LEMMA OpenSpans ==
  ASSUME NEW id \in Open
  PROVE  id \in Id
BY DEF Open, Ancestors

-----------------------------------------------------------------------------
(* The slots stay fresh.                                                   *)

LEMMA FieldsType ==
  ASSUME Typed, NEW id
  PROVE  FieldsOf(id) \in Fields
<1>1. <<>> \in Fields
  <2>1. DOMAIN <<>> = {} OBVIOUS
  <2>2. <<>> \in Seq([name : FieldNames, value : Write]) OBVIOUS
  <2> QED BY <2>1, <2>2 DEF Fields
<1> QED BY <1>1 DEF FieldsOf, Typed, TypeOK

(* A slot that a step leaves alone, and no write on whose span returns.    *)
LEMMA SlotKept ==
  ASSUME Typed, Grown, SlotsFresh, NEW id \in Open, Seen(id)',
         FieldsOf(id)' = FieldsOf(id),
         \A w \in returned' \ returned : writes'[w].span # id
  PROVE  Fresh(id, FieldsOf(id), returned)'
<1>1. id \in Id BY OpenSpans
<1>2. Seen(id) BY <1>1 DEF Seen, Passes, Grown
<1>3. PICK fields, over : fields = FieldsOf(id) /\ over = returned OBVIOUS
<1>4. fields \in Fields /\ over \in SUBSET Write BY <1>3, FieldsType DEF Typed, TypeOK
<1>5. Fresh(id, fields, over) BY <1>2, <1>3 DEF SlotsFresh
<1>6. Fresh(id, fields, over)' BY <1>4, <1>5, FreshKept
<1>7. returned \subseteq returned' BY DEF Grown
<1>8. {w \in returned' : writes'[w].span = id} = {w \in over : writes'[w].span = id}
  BY <1>3, <1>7
<1>9. Due(id, FieldsOf(id), returned)' = Due(id, fields, over)'
  BY <1>3, <1>8 DEF Due
<1> HIDE DEF Due
<1> QED BY <1>3, <1>6, <1>9 DEF Fresh

LEMMA SlotsStill ==
  ASSUME Typed, Older, Grown, SlotsFresh,
         held' \union InUse' \subseteq held \union InUse \union {0},
         UNCHANGED <<slots, returned>>
  PROVE  SlotsFresh'
<1>1. Open' \subseteq Open BY OpenKept
<1>2. \A id : FieldsOf(id)' = FieldsOf(id) BY DEF FieldsOf
<1> QED BY <1>1, <1>2, SlotKept DEF SlotsFresh

(* AncestorsOf as a formula, so that it holds of the next state too.       *)
ParentFirst ==
  \A id \in Id : Ancestors(id) = {id} \union Ancestors(spans[id].parent)
LEMMA ParentsFirst == Tree /\ Older => ParentFirst
BY AncestorsOf DEF ParentFirst
LEMMA ParentsFirstNext == (Tree /\ Older => ParentFirst)'
BY ParentsFirst, PTL

(* A span that is created starts with no fields.                           *)
LEMMA SlotsNewSpan ==
  ASSUME Typed, Older, Tree', Older', Grown, SlotsFresh,
         NEW t \in Threads, NEW site \in Sites, NEW parent \in {0} \union held,
         NEW names \in FieldSets, NewSpan(t, parent, site, names)
  PROVE  SlotsFresh'
<1>1. PICK call, n, w :
        /\ GoesThrough(t, 1, call, calls[t])
        /\ call.op = "new_span" /\ call.span = n /\ call.site = site /\ call.write = w
        /\ call.began = returned
        /\ n \notin Id /\ n # 0 /\ Id' = Id \union {n}
        /\ spans' = Append(spans, [parent |-> parent, site |-> site])
        /\ spans'[n].site = site /\ spans'[n].parent = parent
        /\ w \notin Write /\ w # 0 /\ Write' = Write \union {w}
        /\ writes'[w].span = n /\ writes'[w].before = returned
        /\ UNCHANGED slots
  BY NewSpanCall
<1>2. /\ held \subseteq Id /\ InUse \subseteq Id \union {0} /\ DOMAIN slots \subseteq Id
      /\ returned \subseteq Write
  BY InUseOf DEF Typed, TypeOK
<1>3. held' \union InUse' \subseteq held \union InUse \union {n} BY <1>1, UseThrough
<1>4. ParentFirst' BY ParentsFirstNext
<1>5. Ancestors(n)' = {n} \union Ancestors(parent)'
  <2>1. n \in Id' BY <1>1
  <2> QED BY <1>1, <1>4, <2>1 DEF ParentFirst
<1>6. Ancestors(parent)' = Ancestors(parent) /\ Ancestors(0) = {}
  BY <1>2, Domains, AncestorsOf DEF Grown
<1>7. Open' \subseteq Open \union {n}
  <2>1. Open' = UNION {Ancestors(o)' : o \in held' \union InUse'} BY DEF Open
  <2>2. SUFFICES ASSUME NEW x, NEW o \in held' \union InUse', x \in Ancestors(o)', x # n
        PROVE  x \in Open
    BY <2>1
  <2>3. CASE o = n
    <3>1. x \in Ancestors(parent) BY <1>5, <1>6, <2>2, <2>3
    <3>2. parent \in held BY <1>6, <3>1
    <3> QED BY <3>1, <3>2 DEF Open
  <2>4. CASE o # n
    <3>1. o \in held \union InUse /\ o \in Id \union {0} BY <1>2, <1>3, <2>4
    <3>2. x \in Ancestors(o) BY <2>2, <3>1 DEF Grown
    <3> QED BY <3>1, <3>2 DEF Open
  <2> QED BY <2>3, <2>4
<1>8. returned' \subseteq returned \union {w} BY <1>1, ThroughGives DEF GoesThrough
<1>9. \A id : FieldsOf(id)' = FieldsOf(id) BY <1>1 DEF FieldsOf
<1>10. ASSUME NEW id \in Open, Seen(id)'
       PROVE  Fresh(id, FieldsOf(id), returned)'
  <2>1. id \in Id BY OpenSpans
  <2>2. \A v \in returned' \ returned : writes'[v].span # id BY <1>1, <1>8, <2>1
  <2> QED BY <1>9, <1>10, <2>2, SlotKept
<1>11. ASSUME Seen(n)'
       PROVE  Fresh(n, FieldsOf(n), returned)'
  <2>1. PICK layer \in Layers : Passes(layer, site)
    BY <1>1, <1>11 DEF Seen, Passes
  <2>2. returned' = returned
    <3>1. CASE Returns(t, 1, call, calls[t])
      BY <1>1, <2>1, <3>1 DEF Returns, Layers
    <3>2. CASE \E l \in Layers : Enters(t, call, calls[t], l)
      BY <3>2 DEF Enters
    <3> QED BY <1>1, <3>1, <3>2 DEF GoesThrough
  <2>3. FieldsOf(n)' = <<>> BY <1>1, <1>2 DEF FieldsOf
  <2>4. \A v \in returned : writes'[v].span # n
    <3>1. \A v \in Write : writes[v].span \in Id BY Domains
    <3> QED BY <1>1, <1>2, <3>1 DEF Grown
  <2>5. Range(<<>>) = {}
    <3>1. DOMAIN <<>> = {} OBVIOUS
    <3> QED BY <3>1 DEF Range
  <2>6. Due(n, FieldsOf(n), returned)' = {} BY <2>2, <2>3, <2>4, <2>5 DEF Due
  <2> HIDE DEF Due
  <2> QED BY <2>6 DEF Fresh
<1> QED BY <1>7, <1>10, <1>11 DEF SlotsFresh

(* An update that no layer takes returns at once, and no layer looks at    *)
(* its span.                                                               *)
LEMMA SlotsRecord ==
  ASSUME Typed, Older, Grown, SlotsFresh, NEW t \in Threads, NEW id \in held,
         NEW names \in FieldSets, Record(t, id, names)
  PROVE  SlotsFresh'
<1>1. PICK call, w :
        /\ GoesThrough(t, 1, call, calls[t])
        /\ call.op = "record" /\ call.span = id /\ call.site = spans[id].site
        /\ call.write = w /\ call.began = returned
        /\ id \in Id
        /\ w \notin Write /\ w # 0 /\ Write' = Write \union {w}
        /\ writes'[w].span = id /\ writes'[w].before = returned
        /\ UNCHANGED <<spans, slots>>
  BY RecordCall
<1>2. Open' \subseteq Open
  <2>1. held' \union InUse' \subseteq held \union InUse \union {id} BY <1>1, UseThrough
  <2>2. held' \union InUse' \subseteq held \union InUse \union {0} BY <2>1
  <2> QED BY <2>2, OpenKept
<1>3. returned' \subseteq returned \union {w} BY <1>1, ThroughGives DEF GoesThrough
<1>4. \A x : FieldsOf(x)' = FieldsOf(x) BY <1>1 DEF FieldsOf
<1>5. Seen(id)' => returned' = returned
  <2>1. CASE Returns(t, 1, call, calls[t])
    BY <1>1, <2>1 DEF Returns, Layers, Seen, Passes
  <2>2. CASE \E layer \in Layers : Enters(t, call, calls[t], layer)
    BY <2>2 DEF Enters
  <2> QED BY <1>1, <2>1, <2>2 DEF GoesThrough
<1>6. ASSUME NEW x \in Open, Seen(x)'
      PROVE  Fresh(x, FieldsOf(x), returned)'
  <2>1. \A v \in returned' \ returned : writes'[v].span # x BY <1>1, <1>3, <1>5, <1>6
  <2> QED BY <1>4, <1>6, <2>1, SlotKept
<1> QED BY <1>2, <1>6 DEF SlotsFresh

(* A span that stays open keeps its slot.                                  *)
LEMMA SlotsDrop ==
  ASSUME Typed, Older, Grown, SlotsFresh, NEW id \in held, Drop(id)
  PROVE  SlotsFresh'
<1>1. /\ held' = held \ {id} /\ UNCHANGED <<calls, returned>>
      /\ LET open == UNION {Ancestors(o) : o \in held' \union InUse}
         IN  slots' = Restrict(slots, DOMAIN slots \intersect open)
  BY DEF Drop, history
<1>2. InUse' = InUse BY <1>1 DEF InUse
<1>3. Open' \subseteq Open
  <2>1. held' \union InUse' \subseteq held \union InUse \union {0} BY <1>1, <1>2
  <2> QED BY <2>1, OpenKept
<1>4. Open' = UNION {Ancestors(o) : o \in held' \union InUse}
  <2>1. \A o \in held' \union InUse : Ancestors(o)' = Ancestors(o)
    BY <1>1, InUseOf DEF Grown, Typed, TypeOK
  <2> QED BY <1>2, <2>1 DEF Open
<1>5. slots' = Restrict(slots, DOMAIN slots \intersect Open') BY <1>1, <1>4
<1>6. \A x \in Open' : FieldsOf(x)' = FieldsOf(x) BY <1>5 DEF FieldsOf, Restrict
<1> QED BY <1>1, <1>3, <1>6, SlotKept DEF SlotsFresh

(* The slot that is written to: what a write gives is no older than the    *)
(* others are due, and what it does not give stays.                        *)
LEMMA SlotsStore ==
  ASSUME Typed, Older, Grown, Typed', Dated, AllGood, SlotsFresh,
         NEW t \in Threads, Store(t)
  PROVE  SlotsFresh'
<1>0. AllNaming BY AllNamed
<1>1. PICK call, first :
        /\ GoesThrough(t, first, call, Front(calls[t]))
        /\ call = Top(t) /\ call = calls[t][Len(calls[t])]
        /\ Len(calls[t]) \in DOMAIN calls[t] /\ Len(Front(calls[t])) = Len(calls[t]) - 1
        /\ call \in Call /\ call.op # "event" /\ call.span \in Id /\ call.write \in Write
        /\ Id' = Id /\ Write' = Write /\ UNCHANGED <<spans, writes>>
  BY <1>0, StoreCall
<1>2. PICK id, w0 : id = call.span /\ w0 = call.write OBVIOUS
<1>3. /\ w0 \in Write /\ w0 \notin returned /\ writes[w0].span = id
      /\ call.op = "new_span" => \A w \in Write : writes[w].span = id => w = w0
  BY <1>1, <1>2 DEF AllGood, Good, Writing
<1>4. \A w \in Write : w0 \notin writes[w].before BY <1>3 DEF Dated
<1>5. Open' \subseteq Open
  <2>1. call.span \in InUse BY <1>1, InUseOf
  <2>2. held' \union InUse' \subseteq held \union InUse \union {call.span}
    BY <1>1, UseThrough
  <2>3. held' \union InUse' \subseteq held \union InUse \union {0} BY <2>1, <2>2
  <2> QED BY <2>3, OpenKept
<1>6. returned' \subseteq returned \union {w0} /\ returned' \subseteq Write
  <2>1. returned' \subseteq returned \union {w0}
    BY <1>1, <1>2, ThroughGives DEF GoesThrough
  <2> QED BY <1>3, <2>1 DEF Typed, TypeOK
<1> DEFINE C == Captured(w0)
           F == FieldsOf(id)
           G == State(call.op, id, C)
<1>7. slots' = [x \in DOMAIN slots \union {id} |-> IF x = id THEN G ELSE slots[x]]
  BY <1>1, <1>2 DEF Store
<1>8. \A x : x # id => FieldsOf(x)' = FieldsOf(x) BY <1>7 DEF FieldsOf
<1>9. FieldsOf(id)' = G BY <1>7 DEF FieldsOf
<1>10. ASSUME NEW x \in Open, Seen(x)', x # id
       PROVE  Fresh(x, FieldsOf(x), returned)'
  <2>1. \A w \in returned' \ returned : writes'[w].span # x
    BY <1>1, <1>3, <1>6, <1>10
  <2> QED BY <1>8, <1>10, <2>1, SlotKept
<1>11. /\ C \in Fields
       /\ \A f \in Range(C) : f.name \in writes[w0].names /\ f.value = w0
       /\ \A n \in writes[w0].names : \E f \in Range(C) : f.name = n
  BY <1>3, Domains, CapturedFields
<1>12. ASSUME id \in Open, Seen(id)',
              NEW w \in {v \in returned' : writes[v].span = id} \union {f.value : f \in Range(G)},
              NEW n \in writes[w].names
       PROVE  \E f \in Range(G) : f.name = n /\ f.value \notin writes[w].before
  <2>1. \A v \in returned : \A m \in writes[v].names :
          writes[v].span = id => \E f \in Range(F) : f.name = m /\ f.value \notin writes[v].before
    <3>1. Seen(id) BY <1>1, <1>12 DEF Seen, Passes
    <3> QED BY <1>12, <3>1 DEF SlotsFresh, Fresh, Due
  <2>2. \A g \in Range(F) : \A m \in writes[g.value].names :
          \E f \in Range(F) : f.name = m /\ f.value \notin writes[g.value].before
    <3>1. Seen(id) BY <1>1, <1>12 DEF Seen, Passes
    <3> QED BY <1>12, <3>1 DEF SlotsFresh, Fresh, Due
  <2>3. F \in Fields BY FieldsType
  <2>4. CASE call.op = "record" /\ id \in DOMAIN slots
    <3>1. F = slots[id] BY <2>4 DEF FieldsOf
    <3>2. G = MergeFields(F, C) BY <2>4, <3>1 DEF State
    <3> HIDE DEF C, F, G
    <3>3. /\ \A u \in Range(C) : u \in Range(G)
          /\ \A f \in Range(F) : (\A u \in Range(C) : u.name # f.name) => f \in Range(G)
          /\ \A f \in Range(G) : f \in Range(C) \/ f \in Range(F)
      BY <1>11, <2>3, <3>2, MergedFields
    <3>4. CASE n \in writes[w0].names
      <4>1. PICK f \in Range(C) : f.name = n /\ f.value = w0 BY <1>11, <3>4
      <4>2. w \in Write
        <5>1. \A f2 \in Range(F) : f2.value \in Write BY <2>3, ValuesOf
        <5> QED BY <1>3, <1>6, <1>11, <3>3, <5>1
      <4> QED BY <1>4, <3>3, <4>1, <4>2
    <3>5. CASE n \notin writes[w0].names
      <4>1. w # w0 BY <3>5
      <4>2. \E f \in Range(F) : f.name = n /\ f.value \notin writes[w].before
        BY <1>6, <1>11, <2>1, <2>2, <3>3, <4>1
      <4> QED BY <1>11, <3>3, <3>5, <4>2
    <3> QED BY <3>4, <3>5
  <2>5. CASE ~ (call.op = "record" /\ id \in DOMAIN slots)
    <3>1. G = C BY <2>5 DEF State
    <3>2. call.op = "new_span" \/ Range(F) = {}
      <4>1. CASE call.op = "record"
        <5>1. F = <<>> BY <2>5, <4>1 DEF FieldsOf
        <5>2. DOMAIN <<>> = {} OBVIOUS
        <5> QED BY <5>1, <5>2 DEF Range
      <4> QED BY <1>1, <4>1 DEF Call
    <3> HIDE DEF C, F, G
    <3>3. CASE n \in writes[w0].names
      <4>1. PICK f \in Range(C) : f.name = n /\ f.value = w0 BY <1>11, <3>3
      <4>2. w \in Write BY <1>3, <1>6, <1>11, <3>1
      <4> QED BY <1>4, <3>1, <4>1, <4>2
    <3>4. CASE n \notin writes[w0].names
      <4>1. w # w0 BY <3>4
      <4>2. w \in returned /\ writes[w].span = id BY <1>6, <1>11, <3>1, <4>1
      <4>3. Range(F) # {} BY <2>1, <4>2
      <4>4. w = w0 BY <1>3, <3>2, <4>2, <4>3 DEF Typed, TypeOK
      <4> QED BY <4>1, <4>4
    <3> QED BY <3>3, <3>4
  <2> QED BY <2>4, <2>5
<1>13. ASSUME id \in Open, Seen(id)'
       PROVE  Fresh(id, FieldsOf(id), returned)'
  <2>1. Due(id, FieldsOf(id), returned)'
          = {v \in returned' : writes[v].span = id} \union {f.value : f \in Range(G)}
    BY <1>1, <1>9 DEF Due
  <2> HIDE DEF Due, G
  <2> QED BY <1>1, <1>9, <1>12, <1>13, <2>1 DEF Fresh
<1> HIDE DEF C, F, G
<1> QED BY <1>2, <1>5, <1>10, <1>13 DEF SlotsFresh

LEMMA SlotsStep ==
  ASSUME Typed, Older, Typed', Older', Grown, Dated, AllGood, SlotsFresh, [Next]_vars
  PROVE  SlotsFresh'
<1>0. AllNaming BY AllNamed
<1>1. ASSUME NEW t \in Threads, NEW site \in Sites, NEW parent \in {0} \union held,
             NEW names \in FieldSets, NewSpan(t, parent, site, names)
      PROVE  SlotsFresh'
  <2>1. Tree' BY DEF Typed, TypeOK, Tree
  <2> QED BY <1>1, <2>1, SlotsNewSpan
<1>2. ASSUME NEW t \in Threads, NEW id \in held, NEW names \in FieldSets,
             Record(t, id, names)
      PROVE  SlotsFresh'
  BY <1>2, SlotsRecord
<1>3. ASSUME NEW t \in Threads, NEW id \in {0} \union held, NEW site \in Sites,
             Event(t, id, site)
      PROVE  SlotsFresh'
  <2>1. PICK call :
          /\ GoesThrough(t, 1, call, calls[t])
          /\ call.op = "event" /\ call.span = id /\ call.write = 0
          /\ call.began = returned /\ id \in Id \union {0}
          /\ UNCHANGED <<spans, slots, writes>>
    BY <1>3, EventCall
  <2>2. held' \union InUse' \subseteq held \union InUse \union {id} BY <2>1, UseThrough
  <2>3. held' \union InUse' \subseteq held \union InUse \union {0} BY <2>2
  <2>4. returned' = returned BY <2>1, ThroughGives DEF GoesThrough
  <2> QED BY <2>1, <2>3, <2>4, SlotsStill
<1>4. ASSUME NEW t \in Threads, EmitRecord(t) PROVE SlotsFresh'
  <2>1. PICK call, first :
          /\ GoesThrough(t, first, call, Front(calls[t]))
          /\ call = calls[t][Len(calls[t])]
          /\ Len(calls[t]) \in DOMAIN calls[t] /\ Len(Front(calls[t])) = Len(calls[t]) - 1
          /\ call.op = "event" /\ call.write = 0 /\ call.span \in Id \union {0}
          /\ UNCHANGED <<spans, slots, writes>>
    BY <1>0, <1>4, EmitCall
  <2>2. held' \union InUse' \subseteq held \union InUse \union {call.span}
    BY <2>1, UseThrough
  <2>3. call.span \in InUse BY <2>1, InUseOf
  <2>4. held' \union InUse' \subseteq held \union InUse \union {0} BY <2>2, <2>3
  <2>5. returned' = returned BY <2>1, ThroughGives DEF GoesThrough
  <2> QED BY <2>1, <2>4, <2>5, SlotsStill
<1>5. ASSUME NEW t \in Threads, Store(t) PROVE SlotsFresh' BY <1>5, SlotsStore
<1>6. ASSUME NEW id \in held, Drop(id) PROVE SlotsFresh' BY <1>6, SlotsDrop
<1>7. ASSUME NEW t \in Threads, NEW next, ~Idle(t), Become(t, next), next.span = Top(t).span,
             UNCHANGED <<slots, held, returned>>
      PROVE  SlotsFresh'
  <2>1. calls' = [calls EXCEPT ![t] = Append(Front(calls[t]), next)]
    BY <1>7 DEF Become, Typed, TypeOK
  <2>2. /\ Under(t, Front(calls[t])) /\ Len(calls[t]) \in DOMAIN calls[t]
        /\ Top(t) = calls[t][Len(calls[t])]
    BY <1>7, UnderAll DEF Typed
  <2>3. InUse' \subseteq InUse \union {next.span} BY <2>1, <2>2, InUsePushed
  <2>4. next.span \in InUse BY <1>7, <2>2, InUseOf
  <2>5. held' \union InUse' \subseteq held \union InUse \union {0} BY <1>7, <2>3, <2>4
  <2> QED BY <1>7, <2>5, SlotsStill
<1>8. ASSUME NEW t \in Threads, Lock(t) \/ SnapshotSpan(t) \/ FromEvent(t)
      PROVE  SlotsFresh'
  <2>1. ~Idle(t) /\ UNCHANGED <<slots, held, returned>>
    BY <1>8 DEF Lock, SnapshotSpan, FromEvent, In, At, registry, app, history
  <2>2. Top(t) \in Call BY <2>1, UnderAll DEF Typed
  <2>3. CASE Lock(t)
    <3>1. PICK next : next = [Top(t) EXCEPT !.stage = "locked"] OBVIOUS
    <3>2. next.span = Top(t).span BY <2>2, <3>1 DEF Call
    <3>3. Become(t, next) BY <2>3, <3>1 DEF Lock
    <3> QED BY <1>7, <2>1, <3>2, <3>3
  <2>4. CASE FromEvent(t)
    <3>1. PICK next : next = [Top(t) EXCEPT !.stage = "emit"] OBVIOUS
    <3>2. next.span = Top(t).span BY <2>2, <3>1 DEF Call
    <3>3. Become(t, next) BY <2>4, <3>1 DEF FromEvent
    <3> QED BY <1>7, <2>1, <3>2, <3>3
  <2>5. CASE SnapshotSpan(t)
    <3>1. PICK next : next =
            [Top(t) EXCEPT !.stage = IF Len(Top(t).scope) = 1 THEN "visit" ELSE "read",
                           !.scope = Tail(@),
                           !.chain = Append(@, Snapshot(Head(Top(t).scope)))]
      OBVIOUS
    <3>2. next.span = Top(t).span BY <2>2, <3>1 DEF Call
    <3>3. Become(t, next) BY <2>5, <3>1 DEF SnapshotSpan
    <3> QED BY <1>7, <2>1, <3>2, <3>3
  <2> QED BY <1>8, <2>3, <2>4, <2>5
<1>9. ASSUME UNCHANGED vars PROVE SlotsFresh'
  <2>1. UNCHANGED <<slots, returned, held, calls>> BY <1>9 DEF vars, registry, app, history
  <2>2. InUse' = InUse BY <2>1 DEF InUse
  <2> QED BY <2>1, <2>2, SlotsStill
<1> QED
  BY <1>1, <1>2, <1>3, <1>4, <1>5, <1>6, <1>8, <1>9
  DEF Next, Callback, Application, Quiescent

-----------------------------------------------------------------------------
(* The invariant holds, and what follows from it.                          *)

LEMMA InitInv == Init => IInv
<1> SUFFICES ASSUME Init PROVE IInv OBVIOUS
<1>1. Typed /\ Older BY TypeInit
<1>2. /\ spans = <<>> /\ writes = <<>> /\ held = {}
      /\ calls = [t \in Threads |-> <<>>]
  BY DEF Init
<1>3. DOMAIN <<>> = {} OBVIOUS
<1>4. Id = {} /\ Write = {} /\ \A t \in Threads : DOMAIN calls[t] = {}
  BY <1>2, <1>3 DEF Id, Write
<1>5. Open = {} BY <1>4 DEF Open, Ancestors
<1> QED BY <1>1, <1>4, <1>5 DEF IInv, Dated, AllGood, Alone, SlotsFresh

LEMMA StepInv == IInv /\ [Next]_vars => IInv'
<1> SUFFICES ASSUME IInv, [Next]_vars PROVE IInv' OBVIOUS
<1>1. Typed /\ Older /\ Dated /\ AllGood /\ Alone /\ SlotsFresh BY DEF IInv
<1>2. AllNaming BY <1>1, AllNamed
<1>3. Typed' /\ Older' /\ Grown BY <1>1, <1>2, TypeStep, OlderStep, GrowsStep
<1>4. Dated' BY <1>1, <1>2, <1>3, DatedStep
<1>5. AllGood' BY <1>1, <1>3, AllGoodStep
<1>6. Alone' BY <1>1, <1>2, AloneStep
<1>7. SlotsFresh' BY <1>1, <1>3, SlotsStep
<1> QED BY <1>3, <1>4, <1>5, <1>6, <1>7 DEF IInv

LEMMA Invariance == Spec => []IInv
BY InitInv, StepInv, PTL DEF Spec

(* The state is of its type: among others, no span ever has a field twice, *)
(* whatever the layers that share its slot write to it (merge_fields).     *)
THEOREM LayerTypeCorrect == Spec => []TypeOK
<1>1. IInv => TypeOK BY DEF IInv, Typed
<1> QED BY <1>1, Invariance, PTL

LEMMA EmittedCalls ==
  ASSUME IInv, NEW c \in Emitting
  PROVE  c \in Call /\ Good(c) /\ c.stage = "emit"
<1>1. PICK t \in Threads : c \in Range(calls[t]) BY DEF Emitting
<1>2. PICK i \in DOMAIN calls[t] : c = calls[t][i] BY <1>1 DEF Range
<1>3. Good(c) BY <1>2 DEF IInv, AllGood
<1>4. c \in Call BY <1>2 DEF IInv, Typed, TypeOK
<1> QED BY <1>3, <1>4 DEF Emitting

(* However the calls of the threads and layers interleave, an event that   *)
(* reaches the pipeline reports of each of its spans (snapshot_span) every *)
(* name that its writes have given it, with a value that no write had      *)
(* replaced before the event began.                                        *)
THEOREM SlotsNeverGoStale == Spec => []FieldsFresh
<1>1. IInv => FieldsFresh
  BY EmittedCalls DEF FieldsFresh, Good, Reporting, Fresh, Due
<1> QED BY <1>1, Invariance, PTL

(* An event that reaches the pipeline names its visible spans, all of them *)
(* and from the root on, and the innermost as the current one              *)
(* (build_span_context), whatever spans were created and closed since.     *)
THEOREM ContextIsComplete == Spec => []ContextComplete
<1>1. ASSUME IInv, NEW c \in Emitting, c.layer \in ListsSpans \union NamesCurrent
      PROVE  LET visible == {id \in Ancestors(c.span) : spans[id].site \in EnabledSites[c.layer]}
             IN  /\ {s.id : s \in Range(c.chain)} = visible
                 /\ \A i, j \in DOMAIN c.chain : i < j => c.chain[i].id < c.chain[j].id
  <2> DEFINE visible == {id \in Ancestors(c.span) : spans[id].site \in EnabledSites[c.layer]}
             line == InContext(c.layer, c.span)
  <2>1. c \in Call /\ Good(c) /\ c.stage = "emit" BY <1>1, EmittedCalls
  <2>2. c.scope = <<>> /\ c.op = "event" BY <2>1 DEF Good, Naming, Writing
  <2>3. c.span \in Id \union {0} BY <2>1 DEF Call
  <2>4. Tree /\ Older BY <1>1, Domains DEF IInv
  <2>5. /\ line \in Seq(Id)
        /\ Range(line) = {x \in Ancestors(c.span) : Passes(c.layer, spans[x].site)}
        /\ \A i \in 1..Len(line) : /\ line[i] <= c.span
                                   /\ \A j \in 1..Len(line) : i < j => line[i] < line[j]
    BY <2>3, <2>4, ContextListsVisible
  <2>6. Range(line) = visible BY <2>5 DEF Passes
  <2> HIDE DEF line, visible
  <2>7. IdsOf(c.chain) \o <<>> = line
    BY <1>1, <2>1, <2>2 DEF Good, Walking, Scope, line
  <2>8. IdsOf(c.chain) = line
    <3> DEFINE R == [id : Id, fields : Fields]
    <3>1. c.chain \in Seq(R) BY <2>1 DEF Call
    <3>2. \A r \in R : r.id \in Id OBVIOUS
    <3> HIDE DEF R
    <3>3. /\ Len(c.chain) \in Nat /\ DOMAIN c.chain = 1..Len(c.chain)
          /\ \A i \in DOMAIN c.chain : c.chain[i].id \in Id
      BY <3>1, <3>2
    <3>4. IdsOf(c.chain) \in Seq(Id) BY <3>3 DEF IdsOf
    <3> QED BY <2>7, <3>4, ConcatEmptySeq
  <2>9. DOMAIN line = DOMAIN c.chain /\ \A i \in DOMAIN line : line[i] = c.chain[i].id
    BY <2>8 DEF IdsOf
  <2>10. {s.id : s \in Range(c.chain)} = Range(line) BY <2>9 DEF Range
  <2>11. DOMAIN line = 1..Len(line) BY <2>5
  <2> QED BY <2>5, <2>6, <2>9, <2>10, <2>11 DEF visible
<1>2. ASSUME IInv, NEW c \in Emitting, c.layer \in NamesCurrent
      PROVE  LET visible == {id \in Ancestors(c.span) : spans[id].site \in EnabledSites[c.layer]}
             IN  /\ RecordSpan(c) = <<>> <=> visible = {}
                 /\ \A s \in Range(RecordSpan(c)) : /\ s.id \in visible
                                                   /\ \A id \in visible : id <= s.id
  <2> DEFINE visible == {id \in Ancestors(c.span) : spans[id].site \in EnabledSites[c.layer]}
             n == Len(c.chain)
  <2>1. /\ {s.id : s \in Range(c.chain)} = visible
        /\ \A i, j \in DOMAIN c.chain : i < j => c.chain[i].id < c.chain[j].id
    BY <1>1, <1>2
  <2> HIDE DEF visible
  <2>2. c.chain \in Seq([id : Id, fields : Fields]) /\ Id \subseteq Nat
    <3>1. c \in Call BY <1>2, EmittedCalls
    <3>2. Id = 1..Len(spans) /\ Len(spans) \in Nat BY <1>2, Domains DEF IInv
    <3> QED BY <3>1, <3>2 DEF Call
  <2>3. n \in Nat /\ DOMAIN c.chain = 1..n /\ \A i \in 1..n : c.chain[i].id \in Nat
    <3> DEFINE R == [id : Id, fields : Fields]
    <3>1. c.chain \in Seq(R) /\ \A r \in R : r.id \in Nat BY <2>2
    <3> HIDE DEF R
    <3>2. /\ Len(c.chain) \in Nat /\ DOMAIN c.chain = 1..Len(c.chain)
          /\ \A i \in 1..Len(c.chain) : c.chain[i] \in R
      BY <3>1
    <3> QED BY <3>1, <3>2
  <2>4. c.chain = <<>> <=> n = 0 BY <2>2, EmptySeq
  <2>5. CASE c.chain = <<>>
    <3>1. RecordSpan(c) = <<>> BY <2>5 DEF RecordSpan
    <3>2. Range(c.chain) = {} BY <2>3, <2>4, <2>5 DEF Range
    <3>3. DOMAIN <<>> = {} OBVIOUS
    <3>4. Range(RecordSpan(c)) = {} BY <3>1, <3>3 DEF Range
    <3> QED BY <2>1, <3>1, <3>2, <3>4 DEF visible
  <2>6. CASE c.chain # <<>>
    <3>1. RecordSpan(c) = <<Last(c.chain)>> BY <1>2, <2>6 DEF RecordSpan
    <3>2. n \in DOMAIN c.chain /\ Last(c.chain) = c.chain[n] BY <2>3, <2>4, <2>6 DEF Last
    <3>3. c.chain[n].id \in visible BY <2>1, <3>2 DEF Range
    <3>4. \A id \in visible : id <= c.chain[n].id
      <4> SUFFICES ASSUME NEW i \in DOMAIN c.chain PROVE c.chain[i].id <= c.chain[n].id
        BY <2>1 DEF Range
      <4>1. i = n \/ i < n BY <2>3
      <4> QED BY <2>1, <2>3, <3>2, <4>1
    <3>5. Range(RecordSpan(c)) = {c.chain[n]}
      <4>1. RecordSpan(c) = <<c.chain[n]>> BY <3>1, <3>2
      <4>2. DOMAIN RecordSpan(c) = {1} /\ RecordSpan(c)[1] = c.chain[n] BY <4>1
      <4> QED BY <4>2 DEF Range
    <3>6. RecordSpan(c) # <<>> BY <3>1
    <3> QED BY <3>3, <3>4, <3>5, <3>6 DEF visible
  <2> QED BY <2>5, <2>6
<1>3. IInv => ContextComplete
  <2> SUFFICES ASSUME IInv, NEW c \in Emitting
               PROVE  LET visible == {id \in Ancestors(c.span) :
                                        spans[id].site \in EnabledSites[c.layer]}
                          listed  == RecordSpans(c)
                          named   == RecordSpan(c)
                      IN  /\ c.layer \in ListsSpans =>
                               /\ {s.id : s \in Range(listed)} = visible
                               /\ \A i, j \in DOMAIN listed : i < j => listed[i].id < listed[j].id
                          /\ c.layer \in NamesCurrent =>
                               /\ named = <<>> <=> visible = {}
                               /\ \A s \in Range(named) : /\ s.id \in visible
                                                          /\ \A id \in visible : id <= s.id
    BY DEF ContextComplete
  <2>1. c.layer \in ListsSpans => RecordSpans(c) = c.chain BY DEF RecordSpans
  <2> QED BY <1>1, <1>2, <2>1
<1> QED BY <1>3, Invariance, PTL
=============================================================================

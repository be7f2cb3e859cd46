---------------------------- MODULE FilterProofs ----------------------------
(***************************************************************************)
(* Proofs about the target filter, for every set of module paths, every    *)
(* set of levels and specifications of every length: what the order of     *)
(* texts by length and the comparison of their prefixes decide is what     *)
(* module paths do.                                                        *)
(***************************************************************************)
EXTENDS Filter, FiniteSetTheorems, SequenceTheorems, NaturalsInduction, TLAPS

-----------------------------------------------------------------------------
(* Least and greatest elements.                                            *)

LEMMA LeastOf ==
  ASSUME NEW I \in SUBSET Nat, I # {}
  PROVE  \E m \in I : \A k \in I : m <= k
<1> DEFINE less == {p \in Nat \X Nat : p[1] < p[2]}
<1>1. IsWellFoundedOn(less, Nat)
  <2>1. less = OpToRel(<, Nat) BY DEF OpToRel
  <2> HIDE DEF less
  <2> QED BY <2>1, NatLessThanWellFounded
<1>2. PICK m \in I : \A k \in I : <<k, m>> \notin less
  <2> HIDE DEF less
  <2> QED BY <1>1, WFMin
<1>3. \A k \in I : k \in Nat /\ m \in Nat /\ ~(k < m) BY <1>2
<1> QED BY <1>3

LEMMA MinOf ==
  ASSUME NEW I \in SUBSET Nat, I # {}
  PROVE  Min(I) \in I /\ \A k \in I : Min(I) <= k
BY LeastOf DEF Min

LEMMA MaxOf ==
  ASSUME NEW I \in SUBSET Nat, I # {}, NEW b \in Nat, \A k \in I : k <= b
  PROVE  Max(I) \in I /\ \A k \in I : k <= Max(I)
<1> DEFINE J == {b - k : k \in I}
<1>1. J \in SUBSET Nat /\ J # {}
  <2>1. \A k \in I : k \in Nat /\ b - k \in Nat OBVIOUS
  <2> QED BY <2>1
<1>2. PICK m \in J : \A k \in J : m <= k
  <2> HIDE DEF J
  <2> QED BY <1>1, LeastOf
<1>3. PICK x \in I : m = b - x BY <1>2
<1>4. \A k \in I : x >= k BY <1>2, <1>3
<1>5. \A k \in I : Max(I) \in I /\ Max(I) >= k BY <1>3, <1>4 DEF Max
<1> QED BY <1>3, <1>5

-----------------------------------------------------------------------------
(* The text of a path.                                                     *)

Char == Letters \union {":"}
Names == Seq(Seq(Letters))

(* The text up to and with each segment, a separator behind every one.     *)
Lined(path, line) ==
  /\ line \in [0..Len(path) -> Seq(Char)]
  /\ line[0] = <<>>
  /\ \A k \in 1..Len(path) : line[k] = line[k - 1] \o path[k] \o Separator

LEMMA SeparatorIs ==
  /\ Separator \in Seq(Char) /\ Len(Separator) = 2
  /\ Separator[1] = ":" /\ Separator[2] = ":"
<1>1. ":" \in Char BY DEF Char
<1>2. <<":", ":">> \in Seq(Char) BY <1>1
<1>3. Len(<<":", ":">>) = 2 OBVIOUS
<1>4. <<":", ":">>[1] = ":" /\ <<":", ":">>[2] = ":" OBVIOUS
<1> QED BY <1>2, <1>3, <1>4 DEF Separator

LEMMA NameOf ==
  ASSUME NEW path \in Names, NEW i \in 1..Len(path)
  PROVE  /\ path[i] \in Seq(Letters) /\ path[i] \in Seq(Char)
         /\ \A x \in 1..Len(path[i]) : path[i][x] # ":"
<1>1. path[i] \in Seq(Letters) BY DEF Names
<1>2. Letters \subseteq Char BY DEF Char
<1>3. path[i] \in Seq(Char) BY <1>1, <1>2, SeqMonotonic
<1>4. \A x \in 1..Len(path[i]) : path[i][x] # ":" BY <1>1, FilterAssumption
<1> QED BY <1>1, <1>3, <1>4

LEMMA Closed ==
  ASSUME NEW s \in Seq(Char)
  PROVE  /\ s \o Separator \in Seq(Char)
         /\ Len(s) \in Nat /\ Len(s \o Separator) = Len(s) + 2
         /\ \A x \in 1..Len(s) : (s \o Separator)[x] = s[x]
         /\ (s \o Separator)[Len(s) + 1] = ":"
<1>1. Separator \in Seq(Char) /\ Len(Separator) = 2 /\ Separator[1] = ":" BY SeparatorIs
<1>2. s \o Separator \in Seq(Char) /\ Len(s \o Separator) = Len(s) + Len(Separator)
  BY <1>1, ConcatProperties
<1>3. Len(s) \in Nat /\ Len(s \o Separator) = Len(s) + 2 BY <1>1, <1>2
<1>4. \A x \in 1..Len(s \o Separator) :
        (s \o Separator)[x] = IF x <= Len(s) THEN s[x] ELSE Separator[x - Len(s)]
  BY <1>1, ConcatProperties
<1>5. \A x \in 1..Len(s) : x \in 1..Len(s \o Separator) /\ x <= Len(s) BY <1>3
<1>6. Len(s) + 1 \in 1..Len(s \o Separator) /\ ~(Len(s) + 1 <= Len(s))
      /\ Len(s) + 1 - Len(s) = 1
  BY <1>3
<1> QED BY <1>1, <1>2, <1>3, <1>4, <1>5, <1>6

LEMMA TextOf ==
  ASSUME NEW path \in Names, path # <<>>
  PROVE  /\ Text(path) \in Seq(Char)
         /\ \E line : Lined(path, line) /\ line[Len(path)] = Text(path) \o Separator
<1> DEFINE n == Len(path)
           Def(f, k) == IF k = 1 THEN path[1] ELSE f[k - 1] \o Separator \o path[k]
           upto == CHOOSE f : f = [k \in 1..n |-> Def(f, k)]
<1>1. Text(path) = upto[n] BY DEF Text
<1>2. n \in Nat /\ n # 0 /\ \A k \in 1..n : path[k] \in Seq(Char)
  BY NameOf, EmptySeq DEF Names
<1> HIDE DEF n
<1> DEFINE Upto(k, f) == /\ f \in [1..k -> Seq(Char)]
                         /\ \A j \in 1..k : f[j] = Def(f, j)
           Missing == {k \in 1..n : \A f : ~Upto(k, f)}
<1>3. ASSUME NEW k \in 1..n, NEW f, Upto(k - 1, f)
      PROVE  \E g : Upto(k, g)
  <2> DEFINE g == [j \in 1..k |-> IF j = k THEN Def(f, k) ELSE f[j]]
  <2>1. \A j \in 1..k - 1 : g[j] = f[j] /\ g[j] \in Seq(Char)
    <3>1. f \in [1..k - 1 -> Seq(Char)] BY <1>3
    <3>2. \A j \in 1..k - 1 : j \in 1..k /\ j # k BY <1>2
    <3> HIDE DEF Def
    <3> QED BY <3>1, <3>2
  <2>2. Def(f, k) \in Seq(Char)
    <3>1. CASE k = 1 BY <1>2, <3>1
    <3>2. CASE k # 1
      <4>1. k - 1 \in 1..k - 1 BY <1>2, <3>2
      <4>2. f[k - 1] \in Seq(Char) /\ path[k] \in Seq(Char) BY <1>2, <1>3, <4>1
      <4> QED BY <3>2, <4>2, SeparatorIs
    <3> QED BY <3>1, <3>2
  <2>3. g[k] = Def(f, k)
    <3>1. k \in 1..k BY <1>2
    <3> HIDE DEF Def
    <3> QED BY <3>1
  <2>4. g \in [1..k -> Seq(Char)]
    <3>1. \A j \in 1..k : j = k \/ j \in 1..k - 1 BY <1>2
    <3>2. \A j \in 1..k : g[j] \in Seq(Char)
      <4> HIDE DEF g, Def
      <4> QED BY <2>1, <2>2, <2>3, <3>1
    <3> QED BY <3>2
  <2>5. \A j \in 1..k : Def(g, j) = Def(f, j)
    <3> TAKE j \in 1..k
    <3>1. CASE j = 1 BY <3>1
    <3>2. CASE j # 1
      <4>1. j - 1 \in 1..k - 1 BY <1>2, <3>2
      <4>2. g[j - 1] = f[j - 1] BY <2>1, <4>1
      <4> HIDE DEF g
      <4> QED BY <4>2
    <3> QED BY <3>1, <3>2
  <2>6. \A j \in 1..k : g[j] = Def(g, j)
    <3> TAKE j \in 1..k
    <3> HIDE DEF g, Def
    <3>1. CASE j = k BY <2>3, <2>5, <3>1
    <3>2. CASE j \in 1..k - 1
      <4>1. f[j] = Def(f, j) BY <1>3, <3>2
      <4> QED BY <2>1, <2>5, <3>2, <4>1
    <3>3. j = k \/ j \in 1..k - 1 BY <1>2
    <3> QED BY <3>1, <3>2, <3>3
  <2> QED BY <2>4, <2>6
<1>4. \E f : Upto(0, f)
  <2>1. Upto(0, [j \in 1..0 |-> <<>>]) OBVIOUS
  <2> QED BY <2>1
<1>5. Missing = {}
  <2> SUFFICES ASSUME Missing # {} PROVE FALSE OBVIOUS
  <2>1. Missing \in SUBSET Nat OBVIOUS
  <2>2. PICK m \in Missing : \A k \in Missing : m <= k
    <3> HIDE DEF Missing
    <3> QED BY <2>1, LeastOf
  <2>3. m \in 1..n /\ \A f : ~Upto(m, f) BY <2>2
  <2> HIDE DEF Upto
  <2>4. m - 1 = 0 \/ m - 1 \in 1..n BY <1>2, <2>3
  <2>5. m - 1 \notin Missing
    <3> HIDE DEF Missing
    <3> QED BY <1>2, <2>2, <2>3
  <2>6. \E f : Upto(m - 1, f) BY <1>4, <2>4, <2>5
  <2> QED BY <1>3, <2>3, <2>6
<1>6. PICK f : Upto(n, f)
  <2> HIDE DEF Upto
  <2>1. n \in 1..n BY <1>2
  <2> QED BY <1>5, <2>1
<1>7. f = [k \in 1..n |-> Def(f, k)] BY <1>6
<1>8. upto = [k \in 1..n |-> Def(upto, k)]
  <2> HIDE DEF Def
  <2> QED BY <1>7
<1>9. \A k \in 1..n : upto[k] = Def(upto, k)
  <2> HIDE DEF upto, Def
  <2> QED BY <1>8
<1> HIDE DEF upto
<1>10. \A k \in 1..n : upto[k] \in Seq(Char)
  <2> DEFINE Wrong == {k \in 1..n : upto[k] \notin Seq(Char)}
  <2> SUFFICES ASSUME Wrong # {} PROVE FALSE OBVIOUS
  <2>1. Wrong \in SUBSET Nat OBVIOUS
  <2>2. PICK m \in Wrong : \A k \in Wrong : m <= k
    <3> HIDE DEF Wrong
    <3> QED BY <2>1, LeastOf
  <2>3. m \in 1..n /\ upto[m] \notin Seq(Char) BY <2>2
  <2>4. CASE m = 1 BY <1>2, <1>9, <2>3, <2>4
  <2>5. CASE m # 1
    <3>1. m - 1 \in 1..n /\ ~(m <= m - 1) BY <1>2, <2>3, <2>5
    <3>2. upto[m - 1] \in Seq(Char) BY <2>2, <3>1
    <3>3. upto[m] = upto[m - 1] \o Separator \o path[m] BY <1>9, <2>3, <2>5
    <3> QED BY <1>2, <2>3, <3>2, <3>3, SeparatorIs
  <2> QED BY <2>4, <2>5
<1> DEFINE line == [k \in 0..n |-> IF k = 0 THEN <<>> ELSE upto[k] \o Separator]
<1>11. /\ line[0] = <<>> /\ \A k \in 1..n : line[k] = upto[k] \o Separator
       /\ line \in [0..n -> Seq(Char)]
  <2>1. \A k \in 1..n : upto[k] \o Separator \in Seq(Char) BY <1>10, SeparatorIs
  <2>2. \A k \in 0..n : k = 0 \/ k \in 1..n BY <1>2
  <2>3. 0 \in 0..n /\ \A k \in 1..n : k \in 0..n /\ k # 0 BY <1>2
  <2>4. <<>> \in Seq(Char) OBVIOUS
  <2>5. line[0] = <<>> /\ \A k \in 1..n : line[k] = upto[k] \o Separator BY <2>3
  <2>6. \A k \in 0..n : line[k] \in Seq(Char)
    <3> HIDE DEF line
    <3> QED BY <2>1, <2>2, <2>4, <2>5
  <2>7. line \in [0..n -> Seq(Char)] BY <2>6
  <2> QED BY <2>5, <2>7
<1> HIDE DEF line
<1>12. \A k \in 1..n : line[k] = line[k - 1] \o path[k] \o Separator
  <2> TAKE k \in 1..n
  <2>1. CASE k = 1
    <3>1. line[k] = path[1] \o Separator BY <1>9, <1>11, <2>1
    <3>2. <<>> \o path[1] = path[1] BY <1>2, <2>1, ConcatEmptySeq
    <3>3. k - 1 = 0 BY <2>1
    <3>4. line[k - 1] \o path[k] = path[1] BY <1>11, <2>1, <3>2, <3>3
    <3> QED BY <3>1, <3>4
  <2>2. CASE k # 1
    <3>1. k - 1 \in 1..n BY <1>2, <2>2
    <3>2. line[k] = (upto[k - 1] \o Separator \o path[k]) \o Separator
      BY <1>9, <1>11, <2>2
    <3>3. line[k - 1] = upto[k - 1] \o Separator BY <1>11, <3>1
    <3> QED BY <3>2, <3>3
  <2> QED BY <2>1, <2>2
<1>13. n \in 1..n BY <1>2
<1>14. Text(path) \in Seq(Char) /\ line[n] = Text(path) \o Separator
  BY <1>1, <1>10, <1>11, <1>13
<1>15. Lined(path, line) BY <1>11, <1>12 DEF Lined, n
<1> QED BY <1>14, <1>15 DEF n

Begins(p, q) == Len(p) <= Len(q) /\ \A i \in 1..Len(p) : p[i] = q[i]

LEMMA PrefixOf ==
  ASSUME NEW S, NEW s \in Seq(S), NEW t \in Seq(S)
  PROVE  IsPrefix(s, t) <=> Begins(s, t)
<1>1. SubSeq(s, 1, Len(s)) = s OBVIOUS
<1>2. ASSUME Len(s) <= Len(t)
      PROVE  s = SubSeq(t, 1, Len(s)) <=> \A i \in 1..Len(s) : s[i] = t[i]
  <2>1. /\ SubSeq(t, 1, Len(s)) \in Seq(S) /\ Len(SubSeq(t, 1, Len(s))) = Len(s)
        /\ \A i \in 1..Len(s) : SubSeq(t, 1, Len(s))[i] = t[i]
    BY <1>2
  <2>2. (\A i \in 1..Len(s) : s[i] = t[i]) => s = SubSeq(t, 1, Len(s))
    BY <2>1, SeqEqual
  <2> QED BY <2>1, <2>2
<1> QED BY <1>1, <1>2 DEF IsPrefix, Begins

(* Where the characters of the line are.                                   *)
Laid(path, line, k) ==
  /\ line[k - 1] \in Seq(Char) /\ line[k] \in Seq(Char) /\ path[k] \in Seq(Char)
  /\ Len(line[k - 1]) \in Nat /\ Len(path[k]) \in Nat
  /\ Len(line[k]) = Len(line[k - 1]) + Len(path[k]) + 2
  /\ \A x \in 1..Len(line[k - 1]) : line[k][x] = line[k - 1][x]
  /\ \A x \in 1..Len(path[k]) : line[k][Len(line[k - 1]) + x] = path[k][x]
  /\ line[k][Len(line[k - 1]) + Len(path[k]) + 1] = ":"

LEMMA Layout ==
  ASSUME NEW path \in Names, NEW line, Lined(path, line), NEW k \in 1..Len(path)
  PROVE  Laid(path, line, k)
<1>1. Len(path) \in Nat /\ path[k] \in Seq(Char) BY NameOf DEF Names
<1>2. k - 1 \in 0..Len(path) /\ k \in 0..Len(path) BY <1>1
<1>3. line[k - 1] \in Seq(Char) /\ line[k] \in Seq(Char) BY <1>2 DEF Lined
<1> DEFINE o == line[k - 1]
           a == path[k]
           m == o \o a
<1>4. line[k] = m \o Separator BY DEF Lined
<1>5. o \in Seq(Char) /\ a \in Seq(Char) /\ Len(o) \in Nat /\ Len(a) \in Nat
  BY <1>1, <1>3
<1> HIDE DEF o, a
<1>6. /\ m \in Seq(Char) /\ Len(m) = Len(o) + Len(a)
      /\ \A x \in 1..Len(o) : m[x] = o[x]
      /\ \A x \in 1..Len(a) : m[Len(o) + x] = a[x]
  <2>1. \A x \in 1..Len(m) : m[x] = IF x <= Len(o) THEN o[x] ELSE a[x - Len(o)]
    BY <1>5, ConcatProperties
  <2>2. m \in Seq(Char) /\ Len(m) = Len(o) + Len(a) BY <1>5, ConcatProperties
  <2> QED BY <1>5, <2>1, <2>2
<1> HIDE DEF m
<1>7. /\ Len(m \o Separator) = Len(m) + 2
      /\ \A x \in 1..Len(m) : (m \o Separator)[x] = m[x]
      /\ (m \o Separator)[Len(m) + 1] = ":"
  BY <1>6, Closed
<1>8. /\ Len(m \o Separator) = Len(o) + Len(a) + 2
      /\ \A x \in 1..Len(o) : (m \o Separator)[x] = o[x]
      /\ \A x \in 1..Len(a) : (m \o Separator)[Len(o) + x] = a[x]
      /\ (m \o Separator)[Len(o) + Len(a) + 1] = ":"
  BY <1>5, <1>6, <1>7
<1> QED BY <1>3, <1>4, <1>5, <1>8 DEF o, a, Laid

(* What is written stays written.                                          *)
LEMMA LineGrows ==
  ASSUME NEW path \in Names, NEW line, Lined(path, line), NEW j \in 0..Len(path)
  PROVE  /\ line[j] \in Seq(Char) /\ Len(line[j]) \in Nat
         /\ \A k \in j..Len(path) :
              /\ line[k] \in Seq(Char) /\ Len(line[k]) \in Nat
              /\ Len(line[j]) <= Len(line[k])
              /\ k # j => Len(line[j]) + 2 <= Len(line[k])
              /\ \A x \in 1..Len(line[j]) : line[k][x] = line[j][x]
<1> DEFINE n == Len(path)
           Right(k) == /\ Len(line[j]) <= Len(line[k])
                       /\ k # j => Len(line[j]) + 2 <= Len(line[k])
                       /\ \A x \in 1..Len(line[j]) : line[k][x] = line[j][x]
           Wrong == {k \in j..n : ~Right(k)}
<1>1. n \in Nat /\ j \in Nat /\ j <= n BY DEF Names
<1>2. \A k \in 0..n : line[k] \in Seq(Char) /\ Len(line[k]) \in Nat BY DEF Lined
<1>3. Right(j) BY <1>2
<1>4. ASSUME NEW k \in j + 1..n, Right(k - 1) PROVE Right(k)
  <2>1. k \in 1..n /\ k - 1 \in 0..n /\ k # j BY <1>1
  <2>2. /\ Len(line[k - 1]) \in Nat /\ Len(path[k]) \in Nat
        /\ Len(line[k]) = Len(line[k - 1]) + Len(path[k]) + 2
        /\ \A x \in 1..Len(line[k - 1]) : line[k][x] = line[k - 1][x]
    <3>1. Laid(path, line, k) BY <2>1, Layout
    <3> QED BY <3>1 DEF Laid
  <2>3. Len(line[j]) \in Nat /\ Len(line[j]) <= Len(line[k - 1])
        /\ \A x \in 1..Len(line[j]) : line[k - 1][x] = line[j][x]
    BY <1>1, <1>2, <1>4
  <2>4. Len(line[j]) + 2 <= Len(line[k]) /\ Len(line[j]) <= Len(line[k])
    <3> DEFINE x == Len(line[j])
               y == Len(line[k - 1])
               z == Len(path[k])
    <3>1. x \in Nat /\ y \in Nat /\ z \in Nat /\ x <= y /\ Len(line[k]) = y + z + 2
      BY <2>2, <2>3
    <3> HIDE DEF x, y, z
    <3> QED BY <3>1 DEF x
  <2>5. \A x \in 1..Len(line[j]) : x \in 1..Len(line[k - 1]) BY <2>2, <2>3
  <2>6. \A x \in 1..Len(line[j]) : line[k][x] = line[j][x] BY <2>2, <2>3, <2>5
  <2> QED BY <2>4, <2>6
<1> HIDE DEF Right, n
<1>5. Wrong = {}
  <2> SUFFICES ASSUME Wrong # {} PROVE FALSE OBVIOUS
  <2>1. Wrong \in SUBSET Nat BY <1>1
  <2>2. PICK m \in Wrong : \A k \in Wrong : m <= k
    <3> HIDE DEF Wrong
    <3> QED BY <2>1, LeastOf
  <2>3. m \in j..n /\ ~Right(m) BY <2>2
  <2>4. m \in j + 1..n /\ m - 1 \in j..n /\ ~(m <= m - 1) BY <1>1, <1>3, <2>3
  <2>5. m - 1 \notin Wrong
    <3> HIDE DEF Wrong
    <3> QED BY <2>2, <2>4
  <2> QED BY <1>4, <2>3, <2>4, <2>5
<1>6. \A k \in j..n : Right(k) /\ k \in 0..n BY <1>1, <1>5
<1> QED BY <1>1, <1>2, <1>6 DEF Right, n

(* Paths that agree on some segments agree on their text.                  *)
LEMMA LinesAgree ==
  ASSUME NEW p \in Names, NEW q \in Names, NEW k \in Nat, k <= Len(p), k <= Len(q),
         \A i \in 1..k : p[i] = q[i],
         NEW lp, Lined(p, lp), NEW lq, Lined(q, lq)
  PROVE  lp[k] = lq[k]
<1> DEFINE Wrong == {i \in 0..k : lp[i] # lq[i]}
<1>1. Len(p) \in Nat /\ Len(q) \in Nat BY DEF Names
<1> SUFFICES ASSUME Wrong # {} PROVE FALSE OBVIOUS
<1>2. Wrong \in SUBSET Nat OBVIOUS
<1>3. PICK m \in Wrong : \A i \in Wrong : m <= i
  <2> HIDE DEF Wrong
  <2> QED BY <1>2, LeastOf
<1>4. m \in 0..k /\ lp[m] # lq[m] BY <1>3
<1>5. m # 0 BY <1>4 DEF Lined
<1>6. m \in 1..k /\ m - 1 \in 0..k /\ ~(m <= m - 1) BY <1>4, <1>5
<1>7. m - 1 \notin Wrong
  <2> HIDE DEF Wrong
  <2> QED BY <1>3, <1>6
<1>8. lp[m - 1] = lq[m - 1] /\ p[m] = q[m] BY <1>6, <1>7
<1>9. m \in 1..Len(p) /\ m \in 1..Len(q) BY <1>1, <1>6
<1>10. lp[m] = lp[m - 1] \o p[m] \o Separator /\ lq[m] = lq[m - 1] \o q[m] \o Separator
  BY <1>9 DEF Lined
<1> QED BY <1>4, <1>8, <1>10

(* The line of a path begins that of another exactly if the path does.     *)
LEMMA LineShared ==
  ASSUME NEW p \in Names, NEW q \in Names, Begins(p, q),
         NEW lp, Lined(p, lp), NEW lq, Lined(q, lq)
  PROVE  lp[Len(p)] = lq[Len(p)]
<1>1. Len(p) \in Nat /\ Len(p) <= Len(p) BY DEF Names
<1>2. Len(p) <= Len(q) /\ \A i \in 1..Len(p) : p[i] = q[i] BY DEF Begins
<1> QED BY <1>1, <1>2, LinesAgree

LEMMA LineBegins ==
  ASSUME NEW p \in Names, NEW q \in Names,
         NEW lp, Lined(p, lp), NEW lq, Lined(q, lq)
  PROVE  Begins(p, q) <=> Begins(lp[Len(p)], lq[Len(q)])
<1> DEFINE n == Len(p)
           m == Len(q)
           P == lp[n]
           Q == lq[m]
<1>1. n \in Nat /\ m \in Nat BY DEF Names
<1>2. Len(P) \in Nat /\ Len(Q) \in Nat BY <1>1, LineGrows
<1>3. ASSUME Begins(p, q) PROVE Begins(P, Q)
  <2>1. n <= m /\ \A i \in 1..n : p[i] = q[i] BY <1>3 DEF Begins
  <2>2. P = lq[n] BY <1>1, <2>1, LinesAgree
  <2>3. n \in 0..m /\ m \in n..m BY <1>1, <2>1
  <2>4. Len(lq[n]) <= Len(Q) /\ \A x \in 1..Len(lq[n]) : Q[x] = lq[n][x]
    BY <2>3, LineGrows
  <2> HIDE DEF P, Q
  <2> QED BY <2>2, <2>4 DEF Begins
<1>4. ASSUME Begins(P, Q), ~Begins(p, q) PROVE FALSE
  <2> DEFINE Wrong == {k \in 1..n : k > m \/ p[k] # q[k]}
  <2>1. Wrong # {}
    <3>1. CASE n > m
      <4>1. n \in Wrong BY <1>1, <3>1
      <4> QED BY <4>1
    <3>2. CASE n <= m
      <4>1. PICK k \in 1..n : p[k] # q[k] BY <1>4, <3>2 DEF Begins
      <4> QED BY <4>1
    <3> QED BY <1>1, <3>1, <3>2
  <2>2. Wrong \in SUBSET Nat BY <1>1
  <2>3. PICK k \in Wrong : \A i \in Wrong : k <= i
    <3> HIDE DEF Wrong
    <3> QED BY <2>1, <2>2, LeastOf
  <2>4. k \in 1..n /\ (k > m \/ p[k] # q[k]) BY <2>3
  <2>5. \A i \in 1..n : i < k => i <= m /\ p[i] = q[i]
    <3> SUFFICES ASSUME NEW i \in 1..n, i < k PROVE i \notin Wrong BY <1>1
    <3>1. ~(k <= i) BY <1>1, <2>4
    <3> HIDE DEF Wrong
    <3> QED BY <2>3, <3>1
  <2> HIDE DEF Wrong
  <2>6. k - 1 \in Nat /\ k - 1 <= n /\ k - 1 <= m
    <3>1. k = 1 \/ k - 1 \in 1..n BY <1>1, <2>4
    <3> QED BY <1>1, <2>4, <2>5, <3>1
  <2>7. \A i \in 1..k - 1 : p[i] = q[i] BY <1>1, <2>4, <2>5
  <2>8. lp[k - 1] = lq[k - 1] BY <2>6, <2>7, LinesAgree DEF n, m
  <2> DEFINE o == Len(lp[k - 1])
             a == Len(p[k])
  <2>9. /\ o \in Nat /\ a \in Nat /\ Len(lp[k]) = o + a + 2
        /\ \A x \in 1..a : lp[k][o + x] = p[k][x]
        /\ lp[k][o + a + 1] = ":"
    <3>1. Laid(p, lp, k) BY <2>4, Layout
    <3> QED BY <3>1 DEF Laid
  <2>10. Len(lp[k]) <= Len(P) /\ \A x \in 1..Len(lp[k]) : P[x] = lp[k][x]
    <3>1. k \in 0..n /\ n \in k..n BY <1>1, <2>4
    <3> QED BY <3>1, LineGrows DEF n
  <2>11. Len(P) <= Len(Q) /\ \A x \in 1..Len(P) : P[x] = Q[x] BY <1>4 DEF Begins
  <2> HIDE DEF P, o, a
  <2>12. CASE k > m
    <3>1. Q = lp[k - 1] BY <1>1, <2>4, <2>6, <2>8, <2>12
    <3>2. Len(Q) = o BY <3>1 DEF o
    <3> HIDE DEF Q
    <3> QED BY <1>2, <2>9, <2>10, <2>11, <3>2
  <2>13. CASE k <= m
    <3> DEFINE b == Len(q[k])
    <3>1. k \in 1..m BY <1>1, <2>4, <2>13
    <3>2. /\ b \in Nat /\ Len(lq[k]) = o + b + 2
          /\ \A x \in 1..b : lq[k][o + x] = q[k][x]
          /\ lq[k][o + b + 1] = ":"
      <4>1. Laid(q, lq, k) BY <3>1, Layout
      <4> QED BY <2>8, <4>1 DEF o, Laid
    <3>3. Len(lq[k]) <= Len(Q) /\ \A x \in 1..Len(lq[k]) : Q[x] = lq[k][x]
      <4>1. k \in 0..m /\ m \in k..m BY <1>1, <3>1
      <4> QED BY <4>1, LineGrows DEF m
    <3>4. /\ p[k] \in Seq(Letters) /\ \A x \in 1..a : p[k][x] # ":"
          /\ q[k] \in Seq(Letters) /\ \A x \in 1..b : q[k][x] # ":"
      BY <2>4, <3>1, NameOf DEF a
    <3> HIDE DEF Q, b
    <3>5. \A x \in 1..a : Q[o + x] = p[k][x] BY <2>9, <2>10, <2>11
    <3>6. Q[o + a + 1] = ":" BY <2>9, <2>10, <2>11
    <3>7. \A x \in 1..b : Q[o + x] = q[k][x] BY <2>9, <3>2, <3>3
    <3>8. Q[o + b + 1] = ":" BY <2>9, <3>2, <3>3
    <3>9. ~(a < b)
      <4> SUFFICES ASSUME a < b PROVE FALSE OBVIOUS
      <4>1. a + 1 \in 1..b /\ o + (a + 1) = o + a + 1 BY <2>9, <3>2
      <4> QED BY <3>4, <3>6, <3>7, <4>1
    <3>10. ~(b < a)
      <4> SUFFICES ASSUME b < a PROVE FALSE OBVIOUS
      <4>1. b + 1 \in 1..a /\ o + (b + 1) = o + b + 1 BY <2>9, <3>2
      <4> QED BY <3>4, <3>5, <3>8, <4>1
    <3>11. a = b BY <2>9, <3>2, <3>9, <3>10
    <3>12. \A x \in 1..a : p[k][x] = q[k][x] BY <3>5, <3>7, <3>11
    <3>13. p[k] = q[k] BY <3>4, <3>11, <3>12, SeqEqual DEF a, b
    <3> QED BY <2>4, <2>13, <3>13, <1>1
  <2> QED BY <1>1, <2>4, <2>12, <2>13
<1> QED BY <1>3, <1>4

(* A directive matches a target exactly if its path is the target or a     *)
(* parent of it.                                                           *)
LEMMA MatchesPrefix ==
  ASSUME NEW p \in Paths, NEW q \in Paths
  PROVE  TargetMatches(Text(p), Text(q)) <=> IsPrefix(p, q)
<1> DEFINE n == Len(p)
           m == Len(q)
           S == Text(p)
           T == Text(q)
<1>1. p \in Names /\ q \in Names /\ p # <<>> /\ q # <<>>
  BY FilterAssumption DEF Names, NoPath
<1>2. S \in Seq(Char) /\ T \in Seq(Char) BY <1>1, TextOf
<1>3. PICK lp : Lined(p, lp) /\ lp[n] = S \o Separator BY <1>1, TextOf
<1>4. PICK lq : Lined(q, lq) /\ lq[m] = T \o Separator BY <1>1, TextOf
<1>5. n \in Nat /\ m \in Nat /\ n # 0 /\ m # 0 BY <1>1, EmptySeq DEF Names
<1>6. IsPrefix(p, q) <=> Begins(p, q)
  <2>1. p \in Seq(Seq(Letters)) /\ q \in Seq(Seq(Letters)) BY <1>1 DEF Names
  <2> QED BY <2>1, PrefixOf
<1>7. Begins(p, q) <=> Begins(lp[n], lq[m]) BY <1>1, <1>3, <1>4, LineBegins
<1>8. /\ S \o Separator \in Seq(Char) /\ Len(S \o Separator) = Len(S) + 2 /\ Len(S) \in Nat
      /\ T \o Separator \in Seq(Char) /\ Len(T \o Separator) = Len(T) + 2 /\ Len(T) \in Nat
      /\ \A x \in 1..Len(T) : (T \o Separator)[x] = T[x]
  BY <1>2, Closed
<1>9. ASSUME TargetMatches(S, T) PROVE IsPrefix(p, q)
  <2>1. CASE S = T
    <3>1. Begins(lp[n], lq[m]) BY <1>3, <1>4, <2>1, <1>8 DEF Begins
    <3> QED BY <1>6, <1>7, <3>1
  <2>2. CASE IsPrefix(S \o Separator, T)
    <3>1. /\ Len(S \o Separator) <= Len(T)
          /\ \A x \in 1..Len(S \o Separator) : (S \o Separator)[x] = T[x]
      <4> HIDE DEF S, T
      <4>1. Begins(S \o Separator, T) BY <1>2, <1>8, <2>2, PrefixOf
      <4> QED BY <4>1 DEF Begins
    <3>2. Begins(S \o Separator, T \o Separator)
      <4> HIDE DEF S, T
      <4>1. \A x \in 1..Len(S \o Separator) : x \in 1..Len(T) BY <1>8, <3>1
      <4> QED BY <1>8, <3>1, <4>1 DEF Begins
    <3> QED BY <1>3, <1>4, <1>6, <1>7, <3>2
  <2> QED BY <1>9, <2>1, <2>2 DEF TargetMatches
<1>10. ASSUME IsPrefix(p, q) PROVE TargetMatches(S, T)
  <2>1. n <= m /\ \A i \in 1..n : p[i] = q[i] BY <1>6, <1>10 DEF Begins
  <2>2. CASE n = m
    <3>1. p = q BY <1>1, <2>1, <2>2, SeqEqual DEF Names
    <3> QED BY <3>1 DEF TargetMatches
  <2>3. CASE n # m
    <3>1. m - 1 \in Nat /\ n <= m - 1 /\ m - 1 \in 0..m /\ n \in 0..m /\ m - 1 \in n..m
          /\ m \in m - 1..m /\ m # m - 1
      BY <1>5, <2>1, <2>3
    <3>2. lp[n] = lq[n]
      <4>1. Begins(p, q) BY <1>6, <1>10
      <4>2. Lined(p, lp) /\ Lined(q, lq) /\ p \in Names /\ q \in Names BY <1>1, <1>3, <1>4
      <4>3. lp[Len(p)] = lq[Len(p)] BY <4>1, <4>2, LineShared
      <4> QED BY <4>3
    <3>3. Len(lq[n]) <= Len(lq[m - 1]) /\ Len(lq[n]) \in Nat /\ Len(lq[m - 1]) \in Nat
      BY <1>1, <1>4, <3>1, LineGrows
    <3>4. Len(lq[m - 1]) + 2 <= Len(lq[m]) BY <1>1, <1>4, <3>1, LineGrows
    <3>5. Begins(lp[n], lq[m]) BY <1>6, <1>7, <1>10
    <3> HIDE DEF S, T, n, m
    <3>6. Len(S \o Separator) <= Len(T)
      BY <1>3, <1>4, <1>8, <3>2, <3>3, <3>4
    <3>7. \A x \in 1..Len(S \o Separator) : (S \o Separator)[x] = T[x]
      <4>1. \A x \in 1..Len(S \o Separator) : x \in 1..Len(T) BY <1>8, <3>6
      <4> QED BY <1>3, <1>4, <1>8, <3>5, <4>1 DEF Begins
    <3>8. IsPrefix(S \o Separator, T)
      <4>1. Begins(S \o Separator, T) BY <3>6, <3>7 DEF Begins
      <4> QED BY <1>2, <1>8, <4>1, PrefixOf
    <3> QED BY <3>8 DEF TargetMatches, S, T
  <2> QED BY <2>2, <2>3
<1> QED BY <1>9, <1>10

(* Of the parents of a path, the one with the longer text is the deeper.   *)
LEMMA LongerIsDeeper ==
  ASSUME NEW p \in Paths, NEW q \in Paths, NEW r \in Paths, IsPrefix(p, r), IsPrefix(q, r)
  PROVE  /\ Len(Text(p)) \in Nat /\ Len(Text(q)) \in Nat /\ Len(p) \in Nat /\ Len(q) \in Nat
         /\ Len(Text(p)) > Len(Text(q)) <=> Len(p) > Len(q)
<1>1. \A x \in Paths : x \in Names /\ x # <<>>
  BY FilterAssumption DEF Names, NoPath
<1>2. PICK lr : Lined(r, lr) BY <1>1, TextOf
<1>3. ASSUME NEW x \in Paths, IsPrefix(x, r)
      PROVE  /\ Len(Text(x)) \in Nat /\ Len(x) \in Nat
             /\ Len(x) \in 0..Len(r)
             /\ Len(lr[Len(x)]) = Len(Text(x)) + 2
  <2>1. PICK lx : Lined(x, lx) /\ lx[Len(x)] = Text(x) \o Separator BY <1>1, TextOf
  <2>2. Len(x) \in Nat /\ Len(r) \in Nat BY <1>1 DEF Names
  <2>3. Begins(x, r) /\ Len(x) <= Len(r)
    <3>1. x \in Seq(Seq(Letters)) /\ r \in Seq(Seq(Letters)) BY <1>1 DEF Names
    <3>2. Begins(x, r) BY <1>3, <3>1, PrefixOf
    <3> QED BY <3>2 DEF Begins
  <2>4. lx[Len(x)] = lr[Len(x)] BY <1>1, <1>2, <2>1, <2>3, LineShared
  <2>5. Text(x) \in Seq(Char) BY <1>1, TextOf
  <2>6. Len(Text(x) \o Separator) = Len(Text(x)) + 2
    BY <2>5, Closed
  <2>7. Len(Text(x)) \in Nat BY <2>5
  <2> QED BY <2>1, <2>2, <2>3, <2>4, <2>6, <2>7
<1>4. ASSUME NEW j \in 0..Len(r), NEW k \in 0..Len(r), j < k
      PROVE  Len(lr[j]) \in Nat /\ Len(lr[k]) \in Nat /\ Len(lr[j]) < Len(lr[k])
  <2>1. Len(r) \in Nat BY <1>1 DEF Names
  <2>2. k \in j..Len(r) /\ k # j BY <1>4, <2>1
  <2>3. Len(lr[j]) \in Nat /\ Len(lr[k]) \in Nat /\ Len(lr[j]) + 2 <= Len(lr[k])
    BY <1>1, <1>2, <2>2, LineGrows
  <2> QED BY <2>3
<1>5. /\ Len(Text(p)) \in Nat /\ Len(p) \in Nat /\ Len(p) \in 0..Len(r)
      /\ Len(lr[Len(p)]) = Len(Text(p)) + 2
  BY <1>3
<1>6. /\ Len(Text(q)) \in Nat /\ Len(q) \in Nat /\ Len(q) \in 0..Len(r)
      /\ Len(lr[Len(q)]) = Len(Text(q)) + 2
  BY <1>3
<1>7. CASE Len(p) > Len(q)
  <2>1. Len(lr[Len(q)]) < Len(lr[Len(p)]) BY <1>4, <1>5, <1>6, <1>7
  <2> QED BY <1>5, <1>6, <1>7, <2>1
<1>8. CASE Len(q) > Len(p)
  <2>1. Len(lr[Len(p)]) < Len(lr[Len(q)]) BY <1>4, <1>5, <1>6, <1>8
  <2> QED BY <1>5, <1>6, <1>8, <2>1
<1>9. CASE Len(p) = Len(q)
  <2>1. Len(Text(p)) = Len(Text(q)) BY <1>5, <1>6, <1>9
  <2> QED BY <1>5, <1>6, <1>9, <2>1
<1> QED BY <1>5, <1>6, <1>7, <1>8, <1>9

-----------------------------------------------------------------------------
(* Directives can be sorted, and in one way only: the place of each is the *)
(* number of those before it.                                              *)

LEMMA Ranked ==
  ASSUME NEW n \in Nat, NEW R,
         \A i \in 1..n : <<i, i>> \notin R,
         \A i, j \in 1..n : i # j => <<i, j>> \in R \/ <<j, i>> \in R,
         \A i, j, k \in 1..n : <<i, j>> \in R /\ <<j, k>> \in R => <<i, k>> \in R
  PROVE  \E p \in Bijection(1..n, 1..n) :
           \A i, j \in 1..n : i < j => <<p[i], p[j]>> \in R
<1> DEFINE D == 1..n
           Below(i) == {j \in D : <<j, i>> \in R}
           rank == [i \in D |-> Cardinality(Below(i)) + 1]
<1>1. IsFiniteSet(D) /\ Cardinality(D) = n BY FS_Interval
<1>2. ASSUME NEW i \in D
      PROVE  /\ IsFiniteSet(Below(i)) /\ Cardinality(Below(i)) \in Nat
             /\ Cardinality(Below(i) \union {i}) = Cardinality(Below(i)) + 1
             /\ Cardinality(Below(i)) < n
  <2>1. Below(i) \in SUBSET D /\ i \notin Below(i) OBVIOUS
  <2>2. Below(i) \union {i} \in SUBSET D OBVIOUS
  <2> HIDE DEF Below, D
  <2>3. IsFiniteSet(Below(i)) BY <1>1, <2>1, FS_Subset
  <2>4. Cardinality(Below(i)) \in Nat BY <2>3, FS_CardinalityType
  <2>5. Cardinality(Below(i) \union {i}) = Cardinality(Below(i)) + 1
    BY <2>1, <2>3, FS_AddElement
  <2>6. Cardinality(Below(i) \union {i}) <= n BY <1>1, <2>2, FS_Subset
  <2> QED BY <2>3, <2>4, <2>5, <2>6
<1>3. ASSUME NEW i \in D, NEW j \in D, <<i, j>> \in R
      PROVE  rank[i] < rank[j]
  <2>1. Below(i) \union {i} \in SUBSET Below(j) BY <1>3
  <2>2. Cardinality(Below(i) \union {i}) <= Cardinality(Below(j))
    <3>1. IsFiniteSet(Below(j)) BY <1>2
    <3> HIDE DEF Below
    <3> QED BY <2>1, <3>1, FS_Subset
  <2>3. /\ Cardinality(Below(i)) \in Nat /\ Cardinality(Below(j)) \in Nat
        /\ Cardinality(Below(i) \union {i}) = Cardinality(Below(i)) + 1
    BY <1>2
  <2> HIDE DEF Below
  <2>4. rank[i] = Cardinality(Below(i)) + 1 /\ rank[j] = Cardinality(Below(j)) + 1
    OBVIOUS
  <2> QED BY <2>2, <2>3, <2>4
<1>4. \A i \in D : rank[i] \in D
  <2> TAKE i \in D
  <2>1. Cardinality(Below(i)) \in Nat /\ Cardinality(Below(i)) < n BY <1>2
  <2> HIDE DEF Below
  <2> QED BY <2>1
<1>5. rank \in [D -> D]
  <2> HIDE DEF D, Below
  <2> QED BY <1>4
<1> HIDE DEF rank
<1>6. \A i, j \in D : i # j => rank[i] # rank[j]
  <2> TAKE i, j \in D
  <2>1. <<i, j>> \in R => rank[i] < rank[j] BY <1>3
  <2>2. <<j, i>> \in R => rank[j] < rank[i] BY <1>3
  <2>3. rank[i] \in Nat /\ rank[j] \in Nat BY <1>4
  <2> QED BY <2>1, <2>2, <2>3
<1>7. \A k \in D : \E i \in D : rank[i] = k
  <2> DEFINE T == {rank[i] : i \in D}
  <2>1. rank \in Surjection(D, T) BY <1>5 DEF Surjection
  <2>2. rank \in Injection(D, T)
    <3>1. rank \in [D -> T] BY <2>1 DEF Surjection
    <3>2. IsInjective(rank) BY <1>5, <1>6 DEF IsInjective
    <3> QED BY <3>1, <3>2 DEF Injection
  <2>3. T \in SUBSET D BY <1>4
  <2> HIDE DEF T, D
  <2>4. Cardinality(T) = n BY <1>1, <2>1, <2>2, FS_Surjection
  <2>5. T = D BY <1>1, <2>3, <2>4, FS_Subset
  <2> QED BY <2>5 DEF T
<1> DEFINE p == [k \in D |-> CHOOSE i \in D : rank[i] = k]
<1>8. \A k \in D : p[k] \in D /\ rank[p[k]] = k BY <1>7
<1>9. p \in Bijection(D, D)
  <2>1. p \in [D -> D]
    <3> HIDE DEF D
    <3> QED BY <1>8
  <2> HIDE DEF p
  <2>2. IsInjective(p) BY <1>8, <2>1 DEF IsInjective
  <2>3. \A i \in D : p[rank[i]] = i
    <3> TAKE i \in D
    <3>1. rank[i] \in D BY <1>4
    <3>2. p[rank[i]] \in D /\ rank[p[rank[i]]] = rank[i] BY <1>8, <3>1
    <3> QED BY <1>6, <3>2
  <2>4. p \in Surjection(D, D) BY <1>4, <2>1, <2>3 DEF Surjection
  <2> QED BY <2>1, <2>2, <2>4 DEF Bijection, Injection
<1> HIDE DEF p
<1>10. \A i, j \in D : i < j => <<p[i], p[j]>> \in R
  <2> SUFFICES ASSUME NEW i \in D, NEW j \in D, i < j, <<p[i], p[j]>> \notin R
               PROVE  FALSE
    OBVIOUS
  <2>1. p[i] \in D /\ rank[p[i]] = i /\ p[j] \in D /\ rank[p[j]] = j BY <1>8
  <2>2. p[i] # p[j] BY <2>1
  <2>3. <<p[j], p[i]>> \in R BY <2>1, <2>2
  <2>4. j < i BY <1>3, <2>1, <2>3
  <2> QED BY <2>4
<1> QED BY <1>9, <1>10

(* What sort_by leaves: longer targets first, and those of one length in   *)
(* the order given.                                                        *)
Given == [target : Seq(Char), level : Bounds]

Ahead(ds, i, j) ==
  \/ LongerFirst(ds[i], ds[j])
  \/ ~LongerFirst(ds[j], ds[i]) /\ i < j

LEMMA SortedOf ==
  ASSUME NEW ds \in Seq(Given)
  PROVE  \E order \in Bijection(DOMAIN ds, DOMAIN ds) :
           /\ \A i, j \in DOMAIN ds : i < j => Ahead(ds, order[i], order[j])
           /\ Sorted(ds) = [i \in DOMAIN ds |-> ds[order[i]]]
<1> DEFINE n == Len(ds)
           D == DOMAIN ds
           Fits(p) == \A i, j \in D : i < j => Ahead(ds, p[i], p[j])
           order == CHOOSE p \in Bijection(D, D) : Fits(p)
<1>1. n \in Nat /\ D = 1..n OBVIOUS
<1>2. \A i \in D : Len(ds[i].target) \in Nat
  <2> TAKE i \in D
  <2>1. ds[i] \in Given OBVIOUS
  <2>2. ds[i].target \in Seq(Char) BY <2>1 DEF Given
  <2> QED BY <2>2
<1> HIDE DEF n
<1>3. \E p \in Bijection(D, D) : Fits(p)
  <2> DEFINE R == {ij \in (1..n) \X (1..n) : Ahead(ds, ij[1], ij[2])}
  <2>1. \A i, j \in 1..n : <<i, j>> \in R <=> Ahead(ds, i, j) OBVIOUS
  <2>2. \A i, j \in 1..n : Ahead(ds, i, j) <=>
          \/ Len(ds[i].target) > Len(ds[j].target)
          \/ ~(Len(ds[j].target) > Len(ds[i].target)) /\ i < j
    BY DEF Ahead, LongerFirst
  <2> HIDE DEF R
  <2>3. \A i \in 1..n : <<i, i>> \notin R BY <1>1, <1>2, <2>1, <2>2
  <2>4. \A i, j \in 1..n : i # j => <<i, j>> \in R \/ <<j, i>> \in R
    BY <1>1, <1>2, <2>1, <2>2
  <2>5. \A i, j, k \in 1..n : <<i, j>> \in R /\ <<j, k>> \in R => <<i, k>> \in R
    <3> TAKE i, j, k \in 1..n
    <3> HAVE <<i, j>> \in R /\ <<j, k>> \in R
    <3>1. Len(ds[i].target) \in Nat /\ Len(ds[j].target) \in Nat /\ Len(ds[k].target) \in Nat
      BY <1>1, <1>2
    <3>2. Ahead(ds, i, k) BY <1>1, <2>1, <2>2, <3>1
    <3> QED BY <2>1, <3>2
  <2>6. PICK p \in Bijection(1..n, 1..n) : \A i, j \in 1..n : i < j => <<p[i], p[j]>> \in R
    BY <1>1, <2>3, <2>4, <2>5, Ranked
  <2>7. \A i \in 1..n : p[i] \in 1..n BY DEF Bijection, Injection
  <2>8. Fits(p) BY <1>1, <2>1, <2>6, <2>7
  <2> QED BY <1>1, <2>6, <2>8
<1>4. order \in Bijection(D, D) /\ Fits(order)
  <2> HIDE DEF Fits
  <2> QED BY <1>3
<1>5. Sorted(ds) = [i \in D |-> ds[order[i]]] BY DEF Sorted, Ahead
<1> HIDE DEF order
<1> QED BY <1>4, <1>5

-----------------------------------------------------------------------------
(* The inductive invariant: what has been read is well formed, and is what *)
(* the directives and the default level say.                               *)

Typed ==
  /\ pieces \in Seq(Pieces)
  /\ next \in 1..(Len(pieces) + 1)
  /\ directives \in Seq(Given)

(* Every rule read so far has its directive, in the order of the pieces.   *)
ReadBy(f) ==
  /\ f \in [DOMAIN directives -> 1..(next - 1)]
  /\ \A i \in DOMAIN directives :
       /\ pieces[f[i]].kind = "rule"
       /\ directives[i] = [target |-> Text(pieces[f[i]].target), level |-> pieces[f[i]].level]
  /\ \A i, j \in DOMAIN directives : i < j => f[i] < f[j]
  /\ \A x \in 1..(next - 1) :
       pieces[x].kind = "rule" => \E i \in DOMAIN directives : f[i] = x

RulesRead == \E f \in [DOMAIN directives -> 1..(next - 1)] : ReadBy(f)

(* The default level is the last bare one.                                 *)
BareRead ==
  \/ default_level = {} /\ \A x \in 1..(next - 1) : pieces[x].kind # "bare"
  \/ \E b \in 1..(next - 1) :
       /\ pieces[b].kind = "bare" /\ default_level = {pieces[b].level}
       /\ \A x \in 1..(next - 1) : pieces[x].kind = "bare" => x <= b

WellFormed == \A x \in 1..(next - 1) : ErrorIn(pieces[x]) = "ok"

Default == IF default_level = {} THEN TRACE ELSE Max(default_level)

Outcome ==
  \/ result = "parsing" /\ filter = <<>>
  \/ result = "ok" /\ next = Len(pieces) + 1 /\ filter = New(Default, directives)
  \/ /\ result \in {InvalidLevel, EmptyTarget} /\ filter = <<>>
     /\ next \in DOMAIN pieces /\ ErrorIn(pieces[next]) = result

IInv == Typed /\ RulesRead /\ BareRead /\ WellFormed /\ Outcome

LEMMA InitInv == Init => IInv
<1> SUFFICES ASSUME Init PROVE IInv OBVIOUS
<1>1. next = 1 /\ default_level = {} /\ directives = <<>> /\ result = "parsing" /\ filter = <<>>
  BY DEF Init
<1>2. pieces \in Seq(Pieces)
  <2>1. PICK n \in 0..MaxPieces : pieces \in [1..n -> Pieces] BY DEF Init
  <2>2. n \in Nat BY FilterAssumption
  <2> QED BY <2>1, <2>2
<1>3. Len(pieces) \in Nat /\ 1..(next - 1) = {} BY <1>1, <1>2
<1>4. Typed BY <1>1, <1>2, <1>3 DEF Typed
<1>5. RulesRead
  <2> DEFINE f == [i \in DOMAIN directives |-> i]
  <2>1. DOMAIN directives = {} BY <1>1
  <2>2. f \in [DOMAIN directives -> 1..(next - 1)] BY <2>1
  <2>3. ReadBy(f) BY <1>3, <2>1, <2>2 DEF ReadBy
  <2> QED BY <2>2, <2>3 DEF RulesRead
<1>6. BareRead BY <1>1, <1>3 DEF BareRead
<1>7. WellFormed BY <1>3 DEF WellFormed
<1>8. Outcome BY <1>1 DEF Outcome
<1> QED BY <1>4, <1>5, <1>6, <1>7, <1>8 DEF IInv

(* What a piece is, and when there is nothing wrong with it.               *)
LEMMA PieceOf ==
  ASSUME NEW piece \in Pieces
  PROVE  /\ \/ piece.kind = "rule" /\ piece.target \in Paths \union {NoPath}
               /\ piece.level \in Bounds \union {NotALevel}
            \/ piece.kind = "bare" /\ piece.level \in Bounds \union {NotALevel}
            \/ piece.kind = "blank"
         /\ ErrorIn(piece) \in {"ok", InvalidLevel, EmptyTarget}
         /\ ErrorIn(piece) = "ok" <=>
              /\ piece.kind = "rule" => piece.target # NoPath /\ piece.level # NotALevel
              /\ piece.kind = "bare" => piece.level # NotALevel
<1>1. \/ piece.kind = "rule" /\ piece.target \in Paths \union {NoPath}
         /\ piece.level \in Bounds \union {NotALevel}
      \/ piece.kind = "bare" /\ piece.level \in Bounds \union {NotALevel}
      \/ piece.kind = "blank"
  BY DEF Pieces, Rule, Bare, Blank
<1> QED BY <1>1 DEF ErrorIn, InvalidLevel, EmptyTarget

(* The piece the loop is at has just been read.                            *)
LEMMA Progress ==
  ASSUME IInv, next \in DOMAIN pieces, Advance, ErrorIn(Piece) = "ok", result = "parsing"
  PROVE  /\ pieces' = pieces /\ next' \in 1..(Len(pieces) + 1)
         /\ 1..(next' - 1) = 1..(next - 1) \union {next}
         /\ next \notin 1..(next - 1) /\ next \in 1..(next' - 1)
         /\ \A x \in 1..(next - 1) : x < next
         /\ WellFormed' /\ Outcome'
<1>1. /\ pieces' = pieces /\ next' = next + 1 /\ result' = result /\ filter' = filter
  BY DEF Advance
<1>2. pieces \in Seq(Pieces) /\ next \in Nat /\ next \in 1..Len(pieces) /\ Len(pieces) \in Nat
  BY DEF IInv, Typed
<1>3. /\ next' \in 1..(Len(pieces) + 1)
      /\ 1..(next' - 1) = 1..(next - 1) \union {next}
      /\ next \notin 1..(next - 1) /\ next \in 1..(next' - 1)
      /\ \A x \in 1..(next - 1) : x < next
  BY <1>1, <1>2
<1>4. WellFormed' BY <1>1, <1>3 DEF IInv, WellFormed, Piece
<1>5. Outcome'
  <2>1. result = "parsing" /\ filter = <<>> BY DEF IInv, Outcome, InvalidLevel, EmptyTarget
  <2> QED BY <1>1, <2>1 DEF Outcome
<1> QED BY <1>1, <1>3, <1>4, <1>5

(* The directives stay, and no rule was read.                              *)
LEMMA RulesKept ==
  ASSUME Typed, RulesRead, UNCHANGED <<pieces, directives>>,
         1..(next' - 1) = 1..(next - 1) \union {next}, Piece.kind # "rule"
  PROVE  RulesRead'
<1>1. PICK f \in [DOMAIN directives -> 1..(next - 1)] : ReadBy(f) BY DEF RulesRead
<1>2. f \in [DOMAIN directives' -> 1..(next' - 1)] BY <1>1
<1>3. \A x \in 1..(next' - 1) :
        pieces'[x].kind = "rule" => \E i \in DOMAIN directives : f[i] = x
  BY <1>1 DEF ReadBy, Piece
<1>4. \A i \in DOMAIN directives :
        /\ pieces[f[i]].kind = "rule"
        /\ directives[i] = [target |-> Text(pieces[f[i]].target), level |-> pieces[f[i]].level]
  BY <1>1 DEF ReadBy
<1>5. \A i, j \in DOMAIN directives : i < j => f[i] < f[j] BY <1>1 DEF ReadBy
<1>6. ReadBy(f)' BY <1>2, <1>3, <1>4, <1>5 DEF ReadBy
<1> QED BY <1>2, <1>6 DEF RulesRead

(* The default level stays, and no bare level was read.                    *)
LEMMA BareKept ==
  ASSUME BareRead, UNCHANGED <<pieces, default_level>>,
         1..(next' - 1) = 1..(next - 1) \union {next}, Piece.kind # "bare"
  PROVE  BareRead'
<1>1. CASE default_level = {} /\ \A x \in 1..(next - 1) : pieces[x].kind # "bare"
  BY <1>1 DEF BareRead, Piece
<1>2. ASSUME NEW b \in 1..(next - 1),
             pieces[b].kind = "bare", default_level = {pieces[b].level},
             \A x \in 1..(next - 1) : pieces[x].kind = "bare" => x <= b
      PROVE  BareRead'
  <2>1. b \in 1..(next' - 1) OBVIOUS
  <2>2. \A x \in 1..(next' - 1) : pieces[x].kind = "bare" => x <= b BY <1>2 DEF Piece
  <2> QED BY <1>2, <2>1, <2>2 DEF BareRead
<1> QED BY <1>1, <1>2 DEF BareRead

LEMMA SkipBlankInv == IInv /\ SkipBlank => IInv'
<1> SUFFICES ASSUME IInv, SkipBlank PROVE IInv' OBVIOUS
<1>1. /\ result = "parsing" /\ next \in DOMAIN pieces /\ Piece.kind = "blank" /\ Advance
      /\ UNCHANGED <<pieces, default_level, directives>>
  BY DEF SkipBlank, Parsing, Advance
<1>2. ErrorIn(Piece) = "ok" BY <1>1 DEF ErrorIn
<1>3. /\ next' \in 1..(Len(pieces) + 1) /\ 1..(next' - 1) = 1..(next - 1) \union {next}
      /\ WellFormed' /\ Outcome'
  BY <1>1, <1>2, Progress
<1>4. Typed' BY <1>1, <1>3 DEF IInv, Typed
<1>5. RulesRead' BY <1>1, <1>3, RulesKept DEF IInv
<1>6. BareRead' BY <1>1, <1>3, BareKept DEF IInv
<1> QED BY <1>3, <1>4, <1>5, <1>6 DEF IInv

LEMMA BareLevelInv == IInv /\ BareLevel => IInv'
<1> SUFFICES ASSUME IInv, BareLevel PROVE IInv' OBVIOUS
<1>1. /\ result = "parsing" /\ next \in DOMAIN pieces /\ Piece.kind = "bare" /\ Advance
      /\ Piece.level # NotALevel /\ default_level' = {Piece.level}
      /\ UNCHANGED <<pieces, directives>>
  BY DEF BareLevel, Parsing, Advance
<1>2. ErrorIn(Piece) = "ok" BY <1>1 DEF ErrorIn
<1>3. /\ next' \in 1..(Len(pieces) + 1) /\ 1..(next' - 1) = 1..(next - 1) \union {next}
      /\ next \in 1..(next' - 1) /\ \A x \in 1..(next - 1) : x < next
      /\ WellFormed' /\ Outcome'
  BY <1>1, <1>2, Progress
<1>4. Typed' BY <1>1, <1>3 DEF IInv, Typed
<1>5. RulesRead' BY <1>1, <1>3, RulesKept DEF IInv
<1>6. BareRead'
  <2>1. next \in Nat BY DEF IInv, Typed
  <2>2. \A x \in 1..(next' - 1) : x \in 1..(next - 1) \/ x = next BY <1>3
  <2>3. \A x \in 1..(next - 1) : x <= next BY <2>1
  <2>4. \A x \in 1..(next' - 1) : x <= next BY <2>1, <2>2, <2>3
  <2> QED BY <1>1, <1>3, <2>4 DEF BareRead, Piece
<1> QED BY <1>3, <1>4, <1>5, <1>6 DEF IInv

LEMMA DirectiveInv == IInv /\ Directive => IInv'
<1> SUFFICES ASSUME IInv, Directive PROVE IInv' OBVIOUS
<1> DEFINE new == [target |-> Text(Piece.target), level |-> Piece.level]
           n == Len(directives)
<1>1. /\ result = "parsing" /\ next \in DOMAIN pieces /\ Piece.kind = "rule" /\ Advance
      /\ Piece.target # NoPath /\ Piece.level # NotALevel
      /\ directives' = Append(directives, new)
      /\ UNCHANGED <<pieces, default_level>>
  BY DEF Directive, Parsing, Advance
<1>2. ErrorIn(Piece) = "ok" BY <1>1 DEF ErrorIn
<1>3. /\ next' \in 1..(Len(pieces) + 1) /\ 1..(next' - 1) = 1..(next - 1) \union {next}
      /\ next \in 1..(next' - 1) /\ \A x \in 1..(next - 1) : x < next
      /\ WellFormed' /\ Outcome'
  BY <1>1, <1>2, Progress
<1>4. directives \in Seq(Given) /\ pieces \in Seq(Pieces) BY DEF IInv, Typed
<1>5. new \in Given
  <2>1. Piece \in Pieces BY <1>1, <1>4 DEF Piece
  <2>2. Piece.target \in Paths /\ Piece.level \in Bounds BY <1>1, <2>1, PieceOf
  <2>3. Piece.target \in Names /\ Piece.target # <<>>
    BY <2>2, FilterAssumption DEF Names, NoPath
  <2>4. Text(Piece.target) \in Seq(Char) BY <2>3, TextOf
  <2> QED BY <2>2, <2>4 DEF Given
<1> HIDE DEF new
<1>6. /\ n \in Nat /\ DOMAIN directives = 1..n
      /\ directives' \in Seq(Given)
      /\ DOMAIN directives' = 1..n + 1
      /\ \A i \in 1..n : directives'[i] = directives[i]
      /\ directives'[n + 1] = new
  <2>1. Append(directives, new) \in Seq(Given) /\ Len(Append(directives, new)) = n + 1
    BY <1>4, <1>5
  <2>2. n \in Nat /\ DOMAIN directives = 1..n BY <1>4
  <2>3. \A i \in 1..n : Append(directives, new)[i] = directives[i] BY <1>4, <1>5
  <2>4. Append(directives, new)[n + 1] = new BY <1>4, <1>5
  <2> QED BY <1>1, <2>1, <2>2, <2>3, <2>4
<1> HIDE DEF n
<1>7. Typed' BY <1>1, <1>3, <1>6 DEF IInv, Typed
<1>8. BareRead' BY <1>1, <1>3, BareKept DEF IInv
<1>9. RulesRead'
  <2>1. PICK f \in [DOMAIN directives -> 1..(next - 1)] : ReadBy(f) BY DEF IInv, RulesRead
  <2> DEFINE g == [i \in 1..n + 1 |-> IF i = n + 1 THEN next ELSE f[i]]
  <2>2. n + 1 \in 1..n + 1 /\ \A i \in 1..n : i \in 1..n + 1 /\ i # n + 1 BY <1>6
  <2>3. g[n + 1] = next /\ \A i \in 1..n : g[i] = f[i] BY <2>2
  <2>4. \A i \in 1..n + 1 : i \in 1..n \/ i = n + 1 BY <1>6
  <2>5. g \in [1..n + 1 -> 1..(next' - 1)]
    <3>1. \A i \in 1..n : f[i] \in 1..(next - 1) BY <1>6
    <3>2. \A i \in 1..n + 1 : g[i] \in 1..(next' - 1)
      <4> HIDE DEF g
      <4> QED BY <1>3, <2>3, <2>4, <3>1
    <3> QED BY <3>2
  <2> HIDE DEF g
  <2>6. \A i \in 1..n + 1 :
          /\ pieces[g[i]].kind = "rule"
          /\ directives'[i] = [target |-> Text(pieces[g[i]].target), level |-> pieces[g[i]].level]
    <3>1. \A i \in 1..n :
            /\ pieces[f[i]].kind = "rule"
            /\ directives[i] = [target |-> Text(pieces[f[i]].target), level |-> pieces[f[i]].level]
      BY <1>6, <2>1 DEF ReadBy
    <3>2. pieces[next].kind = "rule" BY <1>1 DEF Piece
    <3>3. new = [target |-> Text(pieces[next].target), level |-> pieces[next].level]
      BY DEF new, Piece
    <3> QED BY <1>6, <2>3, <2>4, <3>1, <3>2, <3>3
  <2>7. \A i, j \in 1..n + 1 : i < j => g[i] < g[j]
    <3> TAKE i, j \in 1..n + 1
    <3> HAVE i < j
    <3>1. i \in 1..n /\ g[i] = f[i] /\ f[i] \in 1..(next - 1) BY <1>6, <2>3
    <3>2. CASE j = n + 1 BY <1>3, <2>3, <3>1, <3>2
    <3>3. CASE j \in 1..n
      <4>1. f[i] < f[j] BY <1>6, <2>1, <3>1, <3>3 DEF ReadBy
      <4> QED BY <2>3, <3>1, <3>3, <4>1
    <3> QED BY <2>4, <3>2, <3>3
  <2>8. \A x \in 1..(next' - 1) :
          pieces[x].kind = "rule" => \E i \in 1..n + 1 : g[i] = x
    <3> TAKE x \in 1..(next' - 1)
    <3> HAVE pieces[x].kind = "rule"
    <3>1. CASE x = next BY <2>2, <2>3, <3>1
    <3>2. CASE x \in 1..(next - 1)
      <4>1. PICK i \in 1..n : f[i] = x BY <1>6, <2>1, <3>2 DEF ReadBy
      <4> QED BY <2>2, <2>3, <4>1
    <3> QED BY <1>3, <3>1, <3>2
  <2>9. g \in [DOMAIN directives' -> 1..(next' - 1)] BY <1>6, <2>5
  <2>10. pieces' = pieces BY <1>1
  <2>11. PICK h : h = g OBVIOUS
  <2>12. /\ h \in [DOMAIN directives' -> 1..(next' - 1)]
         /\ \A i \in DOMAIN directives' :
              /\ pieces'[h[i]].kind = "rule"
              /\ directives'[i] =
                   [target |-> Text(pieces'[h[i]].target), level |-> pieces'[h[i]].level]
         /\ \A i, j \in DOMAIN directives' : i < j => h[i] < h[j]
         /\ \A x \in 1..(next' - 1) :
              pieces'[x].kind = "rule" => \E i \in DOMAIN directives' : h[i] = x
    BY <1>6, <2>6, <2>7, <2>8, <2>9, <2>10, <2>11
  <2>13. ReadBy(h)' BY <2>12 DEF ReadBy
  <2> QED BY <2>12, <2>13 DEF RulesRead
<1> QED BY <1>3, <1>7, <1>8, <1>9 DEF IInv

LEMMA FailInv ==
  ASSUME IInv, next \in DOMAIN pieces, NEW error, error \in {InvalidLevel, EmptyTarget},
         ErrorIn(Piece) = error, Fail(error), result = "parsing"
  PROVE  IInv'
<1>1. result' = error /\ UNCHANGED <<pieces, next, default_level, directives, filter>>
  BY DEF Fail
<1>2. filter = <<>> BY DEF IInv, Outcome, InvalidLevel, EmptyTarget
<1>3. Outcome' BY <1>1, <1>2 DEF Outcome, Piece
<1>4. Typed' /\ BareRead' /\ WellFormed' BY <1>1 DEF IInv, Typed, BareRead, WellFormed
<1>5. RulesRead' BY <1>1 DEF IInv, RulesRead, ReadBy
<1> QED BY <1>3, <1>4, <1>5 DEF IInv

LEMMA FinishInv == IInv /\ Finish => IInv'
<1> SUFFICES ASSUME IInv, Finish PROVE IInv' OBVIOUS
<1>1. /\ next > Len(pieces) /\ filter' = New(Default, directives) /\ result' = "ok"
      /\ UNCHANGED <<pieces, next, default_level, directives>>
  BY DEF Finish, Default
<1>2. next = Len(pieces) + 1 BY <1>1 DEF IInv, Typed
<1>3. Outcome' BY <1>1, <1>2 DEF Outcome, Default
<1>4. Typed' /\ BareRead' /\ WellFormed' BY <1>1 DEF IInv, Typed, BareRead, WellFormed
<1>5. RulesRead' BY <1>1 DEF IInv, RulesRead, ReadBy
<1> QED BY <1>3, <1>4, <1>5 DEF IInv

LEMMA StepInv == IInv /\ [Next]_vars => IInv'
<1> SUFFICES ASSUME IInv, [Next]_vars PROVE IInv' OBVIOUS
<1>1. CASE SkipBlank BY <1>1, SkipBlankInv
<1>2. CASE BareLevel BY <1>2, BareLevelInv
<1>3. CASE Directive BY <1>3, DirectiveInv
<1>4. CASE RejectTarget
  <2>1. /\ result = "parsing" /\ next \in DOMAIN pieces /\ Fail(EmptyTarget)
        /\ ErrorIn(Piece) = EmptyTarget
    BY <1>4 DEF RejectTarget, Parsing, ErrorIn
  <2> QED BY <2>1, FailInv
<1>5. CASE RejectLevel
  <2>1. /\ result = "parsing" /\ next \in DOMAIN pieces /\ Fail(InvalidLevel)
        /\ ErrorIn(Piece) = InvalidLevel
    BY <1>5 DEF RejectLevel, Parsing, ErrorIn
  <2> QED BY <2>1, FailInv
<1>6. CASE Finish BY <1>6, FinishInv
<1>7. CASE UNCHANGED vars
  <2>1. UNCHANGED <<pieces, next, default_level, directives, result, filter>>
    BY <1>7 DEF vars
  <2>2. Typed' /\ BareRead' /\ WellFormed' BY <2>1 DEF IInv, Typed, BareRead, WellFormed
  <2>3. RulesRead' BY <2>1 DEF IInv, RulesRead, ReadBy
  <2>4. Outcome' BY <2>1 DEF IInv, Outcome, Default
  <2> QED BY <2>2, <2>3, <2>4 DEF IInv
<1> QED BY <1>1, <1>2, <1>3, <1>4, <1>5, <1>6, <1>7 DEF Next, Returned

LEMMA Invariance == Spec => []IInv
BY InitInv, StepInv, PTL DEF Spec

-----------------------------------------------------------------------------
(* What a filter says.                                                     *)

LEMMA BoundsAre ==
  /\ \A b \in Bounds \union {TRACE} : b \in Nat /\ b <= TRACE
  /\ TRACE \in Nat /\ \A level \in Levels : level \in Nat
BY FilterAssumption DEF OFF, TRACE, Levels

(* The default of a filter is a bound, that of the last bare level.        *)
LEMMA DefaultIs ==
  ASSUME IInv
  PROVE  /\ default_level \in SUBSET Bounds /\ Default \in Bounds \union {TRACE}
         /\ \/ Default = TRACE /\ \A x \in 1..(next - 1) : pieces[x].kind # "bare"
            \/ \E b \in 1..(next - 1) :
                 /\ pieces[b].kind = "bare" /\ Default = pieces[b].level
                 /\ \A x \in 1..(next - 1) : pieces[x].kind = "bare" => x <= b
<1>1. CASE default_level = {} /\ \A x \in 1..(next - 1) : pieces[x].kind # "bare"
  BY <1>1 DEF Default
<1>2. ASSUME NEW b \in 1..(next - 1),
             pieces[b].kind = "bare", default_level = {pieces[b].level},
             \A x \in 1..(next - 1) : pieces[x].kind = "bare" => x <= b
      PROVE  default_level \in SUBSET Bounds /\ Default = pieces[b].level /\ Default \in Bounds
  <2>1. pieces[b] \in Pieces
    <3>1. b \in 1..Len(pieces) /\ pieces \in Seq(Pieces) BY DEF IInv, Typed
    <3> QED BY <3>1
  <2>2. ErrorIn(pieces[b]) = "ok" BY DEF IInv, WellFormed
  <2>3. pieces[b].level \in Bounds BY <1>2, <2>1, <2>2, PieceOf
  <2> DEFINE l == pieces[b].level
  <2>4. l \in Nat BY <2>3, BoundsAre
  <2> HIDE DEF l
  <2>5. Max({l}) = l
    <3>1. {l} \in SUBSET Nat /\ {l} # {} /\ \A k \in {l} : k <= l BY <2>4
    <3>2. Max({l}) \in {l} BY <2>4, <3>1, MaxOf
    <3> QED BY <3>2
  <2>6. Default = l BY <1>2, <2>5 DEF Default, l
  <2> QED BY <1>2, <2>3, <2>6 DEF l
<1>3. BareRead BY DEF IInv
<1> QED BY <1>1, <1>2, <1>3 DEF BareRead

(* The filter of the directives read: what sort_by leaves of them, and a   *)
(* bound that is the greatest of its levels.                               *)
LEMMA FilterIs ==
  ASSUME IInv, result = "ok"
  PROVE  /\ next = Len(pieces) + 1 /\ 1..(next - 1) = DOMAIN pieces
         /\ filter.default_level = Default
         /\ filter.directives = Sorted(directives)
         /\ filter.max_level \in Bounds \union {TRACE}
         /\ Default <= filter.max_level
         /\ \A i \in DOMAIN directives : directives[i].level <= filter.max_level
<1>1. next = Len(pieces) + 1 /\ filter = New(Default, directives)
  BY DEF IInv, Outcome, InvalidLevel, EmptyTarget
<1>2. Len(pieces) \in Nat /\ 1..(next - 1) = DOMAIN pieces /\ directives \in Seq(Given)
  BY <1>1 DEF IInv, Typed
<1> DEFINE B == {Default} \union {directives[i].level : i \in DOMAIN directives}
<1>3. filter.max_level = Max(B) /\ filter.default_level = Default
      /\ filter.directives = Sorted(directives)
  BY <1>1 DEF New, HighestLevel
<1>4. \A i \in DOMAIN directives : directives[i].level \in Bounds
  <2> TAKE i \in DOMAIN directives
  <2>1. directives[i] \in Given BY <1>2
  <2> QED BY <2>1 DEF Given
<1>5. Default \in Bounds \union {TRACE} BY DefaultIs
<1>6. B \subseteq Bounds \union {TRACE} /\ Default \in B
      /\ \A i \in DOMAIN directives : directives[i].level \in B
  BY <1>4, <1>5
<1> HIDE DEF B
<1>7. Max(B) \in B /\ \A k \in B : k <= Max(B)
  <2>1. B \in SUBSET Nat /\ B # {} /\ TRACE \in Nat /\ \A k \in B : k <= TRACE
    BY <1>6, BoundsAre
  <2> QED BY <2>1, MaxOf
<1> QED BY <1>1, <1>2, <1>3, <1>6, <1>7

(* Type correctness: parse stays within the specification, never has more  *)
(* directives than it read pieces, and the filter holds each of them once. *)
THEOREM FilterTypeCorrect == Spec => []TypeOK
<1>1. IInv => TypeOK
  <2> SUFFICES ASSUME IInv PROVE TypeOK OBVIOUS
  <2>1. /\ next \in 1..(Len(pieces) + 1) /\ directives \in Seq(Given) /\ pieces \in Seq(Pieces)
    BY DEF IInv, Typed
  <2>2. \A i \in DOMAIN directives : directives[i].level \in Bounds
    <3> TAKE i \in DOMAIN directives
    <3>1. directives[i] \in Given BY <2>1
    <3> QED BY <3>1 DEF Given
  <2>3. Len(directives) < next
    <3> DEFINE n == Len(directives)
    <3>1. PICK f \in [DOMAIN directives -> 1..(next - 1)] : ReadBy(f) BY DEF IInv, RulesRead
    <3>2. n \in Nat /\ DOMAIN directives = 1..n /\ next \in Nat /\ next - 1 \in Nat BY <2>1
    <3> HIDE DEF n
    <3>3. \A i, j \in 1..n : i < j => f[i] < f[j] BY <3>1, <3>2 DEF ReadBy
    <3>4. IsInjective(f)
      <4>1. \A i \in 1..n : f[i] \in 1..(next - 1) BY <3>2
      <4>2. \A i, j \in 1..n : f[i] = f[j] => i = j BY <3>2, <3>3, <4>1
      <4> QED BY <3>2, <4>2 DEF IsInjective
    <3>5. f \in Injection(1..n, 1..(next - 1)) BY <3>2, <3>4 DEF Injection
    <3>6. IsFiniteSet(1..(next - 1)) /\ Cardinality(1..(next - 1)) = next - 1
          /\ Cardinality(1..n) = n
      BY <3>2, FS_Interval
    <3>7. n <= next - 1 BY <3>5, <3>6, FS_Injection
    <3> QED BY <3>2, <3>7 DEF n
  <2>4. result \in {"parsing", "ok", InvalidLevel, EmptyTarget} BY DEF IInv, Outcome
  <2>5. ASSUME result = "ok"
        PROVE  /\ Len(filter.directives) = Len(directives)
               /\ {filter.default_level, filter.max_level} \subseteq Bounds \union {TRACE}
    <3>1. PICK order \in Bijection(DOMAIN directives, DOMAIN directives) :
            Sorted(directives) = [i \in DOMAIN directives |-> directives[order[i]]]
      BY <2>1, SortedOf
    <3>2. Len(directives) \in Nat /\ DOMAIN directives = 1..Len(directives) BY <2>1
    <3>3. DOMAIN Sorted(directives) = 1..Len(directives) BY <3>1, <3>2
    <3>4. \A i \in 1..Len(directives) : order[i] \in DOMAIN directives
      BY <3>2 DEF Bijection, Injection
    <3>5. Sorted(directives) \in [1..Len(directives) -> Given]
      <4>1. \A i \in 1..Len(directives) : directives[order[i]] \in Given BY <2>1, <3>4
      <4> QED BY <3>1, <3>2, <4>1
    <3>6. Len(Sorted(directives)) = Len(directives) BY <3>2, <3>5
    <3> QED BY <2>5, <3>6, FilterIs, DefaultIs
  <2>6. default_level \in SUBSET Bounds BY DefaultIs
  <2> QED BY <2>1, <2>2, <2>3, <2>4, <2>5, <2>6 DEF TypeOK
<1> QED BY <1>1, Invariance, PTL

(* A specification is refused for its first malformed piece, whatever the  *)
(* pieces before it said, and no filter is built of the rest.              *)
THEOREM FirstErrorWins == Spec => []FirstErrorReported
<1>1. IInv => FirstErrorReported
  <2> SUFFICES ASSUME IInv PROVE FirstErrorReported OBVIOUS
  <2> DEFINE bad == {i \in DOMAIN pieces : ErrorIn(pieces[i]) # "ok"}
  <2>1. pieces \in Seq(Pieces) /\ Len(pieces) \in Nat /\ next \in 1..(Len(pieces) + 1)
    BY DEF IInv, Typed
  <2>2. \A x \in 1..(next - 1) : ErrorIn(pieces[x]) = "ok" BY DEF IInv, WellFormed
  <2>3. result # "ok" => filter = <<>> BY DEF IInv, Outcome
  <2>4. CASE result = "parsing" BY <2>3, <2>4 DEF FirstErrorReported
  <2>5. CASE result = "ok"
    <3>1. bad = {} BY <2>2, <2>5, FilterIs
    <3> QED BY <2>5, <3>1 DEF FirstErrorReported
  <2>6. CASE result \in {InvalidLevel, EmptyTarget}
    <3>1. next \in DOMAIN pieces /\ ErrorIn(pieces[next]) = result /\ result # "ok"
      BY <2>6 DEF IInv, Outcome, InvalidLevel, EmptyTarget
    <3>2. next \in bad /\ bad \in SUBSET Nat BY <2>1, <3>1
    <3>3. \A i \in bad : next <= i
      <4> TAKE i \in bad
      <4>1. i \in Nat /\ i >= 1 /\ i \notin 1..(next - 1) /\ next \in Nat BY <2>1, <2>2
      <4> QED BY <4>1
    <3> HIDE DEF bad
    <3>4. Min(bad) \in bad /\ Min(bad) <= next BY <3>2, MinOf
    <3>5. Min(bad) = next
      <4>1. PICK m : m = Min(bad) OBVIOUS
      <4>2. m \in Nat /\ next \in Nat /\ m <= next /\ next <= m BY <3>2, <3>3, <3>4, <4>1
      <4>3. m = next BY <4>2
      <4> QED BY <4>1, <4>3
    <3>6. bad # {} /\ result = ErrorIn(pieces[Min(bad)]) BY <3>1, <3>2, <3>5
    <3> QED BY <2>3, <3>6 DEF FirstErrorReported, bad
  <2>7. result \in {"parsing", "ok", InvalidLevel, EmptyTarget} BY DEF IInv, Outcome
  <2> QED BY <2>4, <2>5, <2>6, <2>7
<1> QED BY <1>1, Invariance, PTL

-----------------------------------------------------------------------------
(* The first directive that matches is the one of the deepest rule.        *)

(* A rule read: its path, its text and its directive.                      *)
LEMMA RuleIs ==
  ASSUME IInv, NEW f \in [DOMAIN directives -> 1..(next - 1)], ReadBy(f),
         NEW i \in DOMAIN directives
  PROVE  /\ f[i] \in DOMAIN pieces /\ f[i] \in Nat
         /\ pieces[f[i]].kind = "rule" /\ pieces[f[i]].target \in Paths
         /\ directives[i].target = Text(pieces[f[i]].target)
         /\ directives[i].level = pieces[f[i]].level
<1>1. pieces \in Seq(Pieces) /\ f[i] \in 1..(next - 1) /\ f[i] \in DOMAIN pieces
  BY DEF IInv, Typed
<1>2. /\ pieces[f[i]].kind = "rule"
      /\ directives[i] = [target |-> Text(pieces[f[i]].target), level |-> pieces[f[i]].level]
  BY DEF ReadBy
<1>3. pieces[f[i]] \in Pieces /\ ErrorIn(pieces[f[i]]) = "ok"
  BY <1>1 DEF IInv, WellFormed
<1>4. pieces[f[i]].target \in Paths BY <1>2, <1>3, PieceOf
<1> QED BY <1>1, <1>2, <1>4

(* The last bare level is the default documented.                          *)
LEMMA DefaultDocumented ==
  ASSUME IInv, result = "ok"
  PROVE  Default = IF BareLevels # {} THEN pieces[Max(BareLevels)].level ELSE TRACE
<1>1. 1..(next - 1) = DOMAIN pieces BY FilterIs
<1>2. CASE Default = TRACE /\ \A x \in 1..(next - 1) : pieces[x].kind # "bare"
  BY <1>1, <1>2 DEF BareLevels
<1>3. ASSUME NEW b \in 1..(next - 1),
             pieces[b].kind = "bare", Default = pieces[b].level,
             \A x \in 1..(next - 1) : pieces[x].kind = "bare" => x <= b
      PROVE  BareLevels # {} /\ Max(BareLevels) = b
  <2>1. b \in BareLevels /\ \A x \in BareLevels : x <= b BY <1>1, <1>3 DEF BareLevels
  <2>2. BareLevels \in SUBSET Nat
    <3>1. pieces \in Seq(Pieces) BY DEF IInv, Typed
    <3> QED BY <3>1 DEF BareLevels
  <2>3. Max(BareLevels) \in BareLevels /\ b <= Max(BareLevels) /\ Max(BareLevels) <= b
    <3>1. b \in Nat BY <2>1, <2>2
    <3>2. Max(BareLevels) \in BareLevels /\ \A k \in BareLevels : k <= Max(BareLevels)
      BY <2>1, <2>2, <3>1, MaxOf
    <3> QED BY <2>1, <3>2
  <2>4. PICK m : m = Max(BareLevels) OBVIOUS
  <2>5. m \in Nat /\ b \in Nat /\ b <= m /\ m <= b BY <2>1, <2>2, <2>3, <2>4
  <2>6. m = b BY <2>5
  <2> QED BY <2>1, <2>4, <2>6
<1> QED BY <1>2, <1>3, DefaultIs

(* The rule that applies, once known, is the one documented.               *)
LEMMA RuleDocumented ==
  ASSUME IInv, NEW path \in Paths, NEW x \in RuleFor(path),
         \A y \in RuleFor(path) :
           /\ Len(pieces[y].target) \in Nat
           /\ Len(pieces[y].target) <= Len(pieces[x].target)
           /\ Len(pieces[y].target) = Len(pieces[x].target) => x <= y
  PROVE  Documented(path) = pieces[x].level
<1> DEFINE depth(i) == Len(pieces[i].target)
           Depths == {depth(i) : i \in RuleFor(path)}
           Deepest == {i \in RuleFor(path) : depth(i) = Max(Depths)}
<1>1. RuleFor(path) \in SUBSET Nat
  <2>1. pieces \in Seq(Pieces) BY DEF IInv, Typed
  <2> QED BY <2>1 DEF RuleFor
<1>2. Max(Depths) = depth(x)
  <2>1. Depths \in SUBSET Nat /\ depth(x) \in Depths /\ \A d \in Depths : d <= depth(x)
    OBVIOUS
  <2>2. PICK d : d = depth(x) OBVIOUS
  <2> HIDE DEF Depths, depth
  <2>3. d \in Nat /\ d \in Depths /\ \A k \in Depths : k <= d BY <2>1, <2>2
  <2>4. PICK m : m = Max(Depths) OBVIOUS
  <2>5. m \in Depths /\ d <= m BY <2>1, <2>3, <2>4, MaxOf
  <2>6. m \in Nat /\ m <= d BY <2>1, <2>3, <2>5
  <2>7. m = d BY <2>3, <2>5, <2>6
  <2> QED BY <2>2, <2>4, <2>7
<1>3. Min(Deepest) = x
  <2>1. x \in Deepest /\ \A k \in Deepest : x <= k BY <1>2
  <2>2. Deepest \in SUBSET Nat BY <1>1
  <2> HIDE DEF Deepest
  <2>3. PICK m : m = Min(Deepest) OBVIOUS
  <2>4. m \in Deepest /\ m <= x BY <2>1, <2>2, <2>3, MinOf
  <2>5. m \in Nat /\ x \in Nat /\ x <= m BY <2>1, <2>2, <2>4
  <2>6. m = x BY <2>4, <2>5
  <2> QED BY <2>3, <2>6
<1>4. RuleFor(path) # {} OBVIOUS
<1>5. Documented(path) = pieces[Min(Deepest)].level BY <1>4 DEF Documented
<1> QED BY <1>3, <1>5

(* The directives that match a path, in the order they are tried, and the  *)
(* rules they come from.                                                   *)
Tried(f, order, path) ==
  {i \in DOMAIN directives : IsPrefix(pieces[f[order[i]]].target, path)}

LEMMA Order ==
  ASSUME IInv
  PROVE  \E f, order :
           /\ f \in [DOMAIN directives -> 1..(next - 1)] /\ ReadBy(f)
           /\ order \in Bijection(DOMAIN directives, DOMAIN directives)
           /\ \A i, j \in DOMAIN directives : i < j => Ahead(directives, order[i], order[j])
           /\ Sorted(directives) = [i \in DOMAIN directives |-> directives[order[i]]]
<1>1. PICK f \in [DOMAIN directives -> 1..(next - 1)] : ReadBy(f) BY DEF IInv, RulesRead
<1>2. directives \in Seq(Given) BY DEF IInv, Typed
<1>3. PICK order \in Bijection(DOMAIN directives, DOMAIN directives) :
        /\ \A i, j \in DOMAIN directives : i < j => Ahead(directives, order[i], order[j])
        /\ Sorted(directives) = [i \in DOMAIN directives |-> directives[order[i]]]
  BY <1>2, SortedOf
<1> QED BY <1>1, <1>3

(* Of two rules for a path, the one tried first is deeper, or as deep and  *)
(* given first.                                                            *)
LEMMA AheadIsDeeper ==
  ASSUME IInv, NEW f \in [DOMAIN directives -> 1..(next - 1)], ReadBy(f),
         NEW i \in DOMAIN directives, NEW j \in DOMAIN directives, Ahead(directives, i, j),
         NEW path \in Paths,
         IsPrefix(pieces[f[i]].target, path), IsPrefix(pieces[f[j]].target, path)
  PROVE  /\ Len(pieces[f[i]].target) \in Nat /\ Len(pieces[f[j]].target) \in Nat
         /\ Len(pieces[f[j]].target) <= Len(pieces[f[i]].target)
         /\ Len(pieces[f[j]].target) = Len(pieces[f[i]].target) => f[i] <= f[j]
<1> DEFINE p == pieces[f[i]].target
           q == pieces[f[j]].target
<1>1. p \in Paths /\ directives[i].target = Text(p) /\ f[i] \in Nat BY RuleIs
<1>2. q \in Paths /\ directives[j].target = Text(q) /\ f[j] \in Nat BY RuleIs
<1>3. \/ Len(Text(p)) > Len(Text(q))
      \/ ~(Len(Text(q)) > Len(Text(p))) /\ i < j
  BY <1>1, <1>2 DEF Ahead, LongerFirst
<1>4. i < j => f[i] < f[j] BY DEF ReadBy
<1>5. IsPrefix(p, path) /\ IsPrefix(q, path) OBVIOUS
<1> HIDE DEF p, q
<1>6. /\ Len(Text(p)) \in Nat /\ Len(Text(q)) \in Nat /\ Len(p) \in Nat /\ Len(q) \in Nat
      /\ Len(Text(p)) > Len(Text(q)) <=> Len(p) > Len(q)
  BY <1>1, <1>2, <1>5, LongerIsDeeper
<1>7. Len(Text(q)) > Len(Text(p)) <=> Len(q) > Len(p)
  BY <1>1, <1>2, <1>5, LongerIsDeeper
<1>8. Len(p) \in Nat /\ Len(q) \in Nat /\ Len(q) <= Len(p) /\ (Len(q) = Len(p) => f[i] <= f[j])
  BY <1>1, <1>2, <1>3, <1>4, <1>6, <1>7
<1> QED BY <1>8 DEF p, q

(* What the filter allows a target is what the specification documents.    *)
LEMMA Decision ==
  ASSUME IInv, result = "ok", NEW path \in Paths, NEW level
  PROVE  Enabled(filter, Text(path), level) <=> level <= Documented(path)
<1> DEFINE D == DOMAIN directives
           sorted == filter.directives
           hits == {i \in DOMAIN sorted : TargetMatches(sorted[i].target, Text(path))}
<1>1. PICK f, order :
        /\ f \in [D -> 1..(next - 1)] /\ ReadBy(f)
        /\ order \in Bijection(D, D)
        /\ \A i, j \in D : i < j => Ahead(directives, order[i], order[j])
        /\ Sorted(directives) = [i \in D |-> directives[order[i]]]
  BY Order
<1>2. \A i \in D : order[i] \in D BY <1>1 DEF Bijection, Injection
<1>3. sorted = [i \in D |-> directives[order[i]]] /\ filter.default_level = Default
      /\ 1..(next - 1) = DOMAIN pieces
  BY <1>1, FilterIs
<1>4. D \in SUBSET Nat
  <2>1. directives \in Seq(Given) BY DEF IInv, Typed
  <2> QED BY <2>1
<1> DEFINE rule(i) == f[order[i]]
<1>5. \A i \in D :
        /\ rule(i) \in DOMAIN pieces /\ rule(i) \in Nat
        /\ pieces[rule(i)].kind = "rule" /\ pieces[rule(i)].target \in Paths
        /\ sorted[i].target = Text(pieces[rule(i)].target)
        /\ sorted[i].level = pieces[rule(i)].level
  <2> TAKE i \in D
  <2>1. PICK j \in D : j = order[i] BY <1>2
  <2>2. /\ f[j] \in DOMAIN pieces /\ f[j] \in Nat
        /\ pieces[f[j]].kind = "rule" /\ pieces[f[j]].target \in Paths
        /\ directives[j].target = Text(pieces[f[j]].target)
        /\ directives[j].level = pieces[f[j]].level
    BY <1>1, RuleIs
  <2>3. sorted[i] = directives[j] BY <1>3, <2>1
  <2> HIDE DEF sorted
  <2> QED BY <2>1, <2>2, <2>3
<1>6. hits = Tried(f, order, path)
  <2>1. \A i \in D : TargetMatches(sorted[i].target, Text(path))
                       <=> IsPrefix(pieces[rule(i)].target, path)
    BY <1>5, MatchesPrefix
  <2>2. DOMAIN sorted = D BY <1>3
  <2> HIDE DEF sorted
  <2> QED BY <2>1, <2>2 DEF Tried
<1>7. \A i \in hits : i \in D /\ rule(i) \in RuleFor(path)
  BY <1>5, <1>6 DEF Tried, RuleFor
<1>8. \A y \in RuleFor(path) : \E i \in hits : rule(i) = y
  <2> TAKE y \in RuleFor(path)
  <2>1. y \in 1..(next - 1) /\ pieces[y].kind = "rule" /\ IsPrefix(pieces[y].target, path)
    BY <1>3 DEF RuleFor
  <2>2. PICK j \in D : f[j] = y BY <1>1, <2>1 DEF ReadBy
  <2>3. PICK i \in D : order[i] = j BY <1>1 DEF Bijection, Surjection
  <2>4. i \in Tried(f, order, path) BY <2>1, <2>2, <2>3 DEF Tried
  <2> QED BY <1>6, <2>2, <2>3, <2>4
<1>9. Enabled(filter, Text(path), level) <=>
        level <= (IF hits = {} THEN Default ELSE sorted[Min(hits)].level)
  BY <1>3 DEF Enabled, LevelAllowed
<1> HIDE DEF hits, sorted
<1>10. CASE hits = {}
  <2>1. RuleFor(path) = {} BY <1>8, <1>10
  <2>2. Documented(path) = Default BY <2>1, DefaultDocumented DEF Documented
  <2> QED BY <1>9, <1>10, <2>2
<1>11. CASE hits # {}
  <2>1. PICK h : h = Min(hits) OBVIOUS
  <2>2. h \in hits /\ \A k \in hits : h <= k
    <3>1. hits \in SUBSET Nat BY <1>4, <1>7
    <3> QED BY <1>11, <2>1, <3>1, MinOf
  <2>3. h \in D /\ rule(h) \in RuleFor(path) BY <1>7, <2>2
  <2>4. ASSUME NEW k \in hits
        PROVE  /\ Len(pieces[rule(k)].target) \in Nat
               /\ Len(pieces[rule(k)].target) <= Len(pieces[rule(h)].target)
               /\ Len(pieces[rule(k)].target) = Len(pieces[rule(h)].target)
                    => rule(h) <= rule(k)
    <3>1. k \in D /\ k \in Nat /\ h \in Nat /\ h <= k BY <1>4, <1>7, <2>2
    <3>2. CASE k = h
      <4>1. rule(h) \in Nat /\ pieces[rule(h)].target \in Paths BY <1>5, <2>3
      <4>2. Len(pieces[rule(h)].target) \in Nat
        <5>1. pieces[rule(h)].target \in Seq(Seq(Letters)) BY <4>1, FilterAssumption
        <5> QED BY <5>1
      <4> QED BY <3>2, <4>1, <4>2
    <3>3. CASE k # h
      <4>1. Ahead(directives, order[h], order[k]) BY <1>1, <2>3, <3>1, <3>3
      <4>2. order[h] \in D /\ order[k] \in D BY <1>2, <2>3, <3>1
      <4>3. IsPrefix(pieces[f[order[h]]].target, path) /\ IsPrefix(pieces[f[order[k]]].target, path)
        BY <1>6, <2>2 DEF Tried
      <4> QED BY <1>1, <4>1, <4>2, <4>3, AheadIsDeeper
    <3> QED BY <3>2, <3>3
  <2>5. \A y \in RuleFor(path) :
          /\ Len(pieces[y].target) \in Nat
          /\ Len(pieces[y].target) <= Len(pieces[rule(h)].target)
          /\ Len(pieces[y].target) = Len(pieces[rule(h)].target) => rule(h) <= y
    <3> TAKE y \in RuleFor(path)
    <3>1. PICK k \in hits : rule(k) = y BY <1>8
    <3> HIDE DEF rule
    <3> QED BY <2>4, <3>1
  <2>6. Documented(path) = pieces[rule(h)].level
    <3> HIDE DEF rule
    <3> QED BY <2>3, <2>5, RuleDocumented
  <2>7. sorted[h].level = Documented(path) BY <1>5, <2>3, <2>6
  <2> QED BY <1>9, <1>11, <2>1, <2>7
<1> QED BY <1>10, <1>11

(* The most specific rule decides: that the first match among texts sorted *)
(* by their length is the rule whose path has the most segments, the first *)
(* given of those that name it, and else the last bare level.              *)
THEOREM SortedByTextIsByPath == Spec => []MostSpecificWins
<1>1. IInv => MostSpecificWins BY Decision DEF MostSpecificWins
<1> QED BY <1>1, Invariance, PTL

(* The level told to tracing as max_level_hint is not below anything the   *)
(* filter enables.                                                         *)
THEOREM HintIsSafe == Spec => []HintLosesNothing
<1>1. IInv => HintLosesNothing
  <2> SUFFICES ASSUME IInv, result = "ok", NEW path \in Paths, NEW level \in Levels,
                      Enabled(filter, Text(path), level)
               PROVE  level <= filter.max_level
    BY DEF HintLosesNothing
  <2> DEFINE sorted == filter.directives
             hits == {i \in DOMAIN sorted : TargetMatches(sorted[i].target, Text(path))}
             D == DOMAIN directives
  <2>1. level <= (IF hits = {} THEN Default ELSE sorted[Min(hits)].level)
    BY FilterIs DEF Enabled, LevelAllowed
  <2>2. /\ filter.max_level \in Nat /\ Default \in Nat /\ level \in Nat
        /\ Default <= filter.max_level
        /\ \A i \in D : directives[i].level <= filter.max_level
    BY FilterIs, DefaultIs, BoundsAre
  <2>3. CASE hits = {} BY <2>1, <2>2, <2>3
  <2>4. CASE hits # {}
    <3>1. PICK order \in Bijection(D, D) : sorted = [i \in D |-> directives[order[i]]]
      BY FilterIs, Order
    <3>2. directives \in Seq(Given) /\ D \in SUBSET Nat
      <4>1. directives \in Seq(Given) BY DEF IInv, Typed
      <4> QED BY <4>1
    <3>3. hits \in SUBSET Nat /\ hits \subseteq D BY <3>1, <3>2
    <3> HIDE DEF hits
    <3>4. Min(hits) \in D BY <2>4, <3>3, MinOf
    <3>5. order[Min(hits)] \in D BY <3>1, <3>4 DEF Bijection, Injection
    <3>6. sorted[Min(hits)].level = directives[order[Min(hits)]].level BY <3>1, <3>4
    <3>7. directives[order[Min(hits)]].level \in Nat
      <4>1. directives[order[Min(hits)]] \in Given BY <3>2, <3>5
      <4> QED BY <4>1, BoundsAre DEF Given
    <3>8. PICK l : l = sorted[Min(hits)].level OBVIOUS
    <3>9. level <= l /\ l <= filter.max_level /\ l \in Nat
      BY <2>1, <2>2, <2>4, <3>5, <3>6, <3>7, <3>8
    <3> QED BY <2>2, <3>9
  <2> QED BY <2>3, <2>4
<1> QED BY <1>1, Invariance, PTL
===============================================================================

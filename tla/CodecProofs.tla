---------------------------- MODULE CodecProofs -----------------------------
(***************************************************************************)
(* Proofs about the binary format: every take of the decoder gives back    *)
(* what the push of the encoder was given, field by field up to whole      *)
(* frames; a frame that is cut is the end of the file; and whatever the    *)
(* input, a frame that is read consumes some of it.                        *)
(*                                                                         *)
(* Recursive functions are met with their equations: a function that       *)
(* satisfies the same ones step by step is the same (Iteration, Agree).    *)
(***************************************************************************)
EXTENDS Codec, SequenceTheorems, NaturalsInduction, WellFoundedInduction, TLAPS

(* Induction over a set of indices.                                        *)
LEMMA LeastOf ==
  ASSUME NEW I \in SUBSET Nat, I # {}
  PROVE  \E m \in I : \A k \in I : m <= k
<1> DEFINE less == {p \in Nat \X Nat : p[1] < p[2]}
<1>1. IsWellFoundedOn(less, Nat)
  <2>1. less = OpToRel(<, Nat) BY DEF OpToRel
  <2> HIDE DEF less
  <2> QED BY <2>1, NatLessThanWellFounded
<1>2. PICK m \in I : \A k \in I : <<k, m>> \notin less
  <2> HIDE DEF less
  <2> QED BY <1>1, WFMin
<1>3. \A k \in I : k \in Nat /\ m \in Nat /\ ~(k < m) BY <1>2
<1> QED BY <1>3

LEMMA Induct ==
  ASSUME NEW a \in Nat, NEW n \in Nat, NEW P, a \in P,
         \A i \in a..n : i # n /\ i \in P => i + 1 \in P
  PROVE  a..n \subseteq P
<1> DEFINE I == (a..n) \ P
<1> SUFFICES ASSUME I # {} PROVE FALSE OBVIOUS
<1>1. PICK m \in I : \A k \in I : m <= k
  <2>1. I \in SUBSET Nat OBVIOUS
  <2> HIDE DEF I
  <2> QED BY <2>1, LeastOf
<1>2. m # a /\ m - 1 \in a..n /\ m - 1 # n /\ m - 1 + 1 = m OBVIOUS
<1>3. m - 1 \in P BY <1>1, <1>2
<1> QED BY <1>2, <1>3

(* Two functions that take the same steps from the same start are equal.   *)
SameSteps(f, g, a, n) ==
  /\ g[a] = f[a]
  /\ \A i \in a..n : i # a /\ g[i - 1] = f[i - 1] => g[i] = f[i]

LEMMA Agree ==
  \A f, g, a, n :
    a \in Nat /\ n \in Nat /\ a <= n /\ SameSteps(f, g, a, n) => \A i \in a..n : g[i] = f[i]
<1> SUFFICES ASSUME NEW f, NEW g, NEW a, NEW n,
                    a \in Nat /\ n \in Nat /\ a <= n, SameSteps(f, g, a, n)
             PROVE  \A i \in a..n : g[i] = f[i]
  OBVIOUS
<1> DEFINE P == {i \in a..n : g[i] = f[i]}
<1>1. a \in P BY DEF SameSteps
<1>2. ASSUME NEW i \in a..n, i # n, i \in P PROVE i + 1 \in P
  <2>1. PICK k \in a..n : k = i + 1 /\ k # a /\ k - 1 = i BY <1>2
  <2>2. g[k - 1] = f[k - 1] BY <1>2, <2>1
  <2>3. g[k] = f[k] BY <2>1, <2>2 DEF SameSteps
  <2> QED BY <2>1, <2>3
<1>3. a..n \subseteq P
  <2> HIDE DEF P
  <2> QED BY <1>1, <1>2, Induct
<1> QED BY <1>3

(* A function that is defined by steps exists.                             *)
Steps(f, a, n, first, step) ==
  f = [i \in a..n |-> IF i = a THEN first ELSE step[<<i, f[i - 1]>>]]

LEMMA Iteration ==
  ASSUME NEW a \in Nat, NEW n \in Nat, a <= n,
         NEW V, NEW first \in V, NEW step \in [(a..n) \X V -> V]
  PROVE  \E f \in [a..n -> V] : Steps(f, a, n, first, step)
<1> DEFINE Upto(k, f) == /\ f \in [a..k -> V]
                         /\ f[a] = first
                         /\ \A i \in a..k : i # a => f[i] = step[<<i, f[i - 1]>>]
           P == {k \in a..n : \E f : Upto(k, f)}
<1>1. a \in P
  <2>1. Upto(a, [i \in a..a |-> first]) OBVIOUS
  <2> HIDE DEF Upto
  <2> QED BY <2>1
<1>2. ASSUME NEW k \in a..n, k # n, k \in P PROVE k + 1 \in P
  <2>1. PICK f : Upto(k, f) BY <1>2
  <2>2. k + 1 \in a..n /\ a \in a..k /\ k \in a..k BY <1>2
  <2> DEFINE g == [i \in a..(k + 1) |-> IF i = k + 1 THEN step[<<k + 1, f[k]>>] ELSE f[i]]
  <2>3. step[<<k + 1, f[k]>>] \in V BY <2>1, <2>2
  <2>4. g \in [a..(k + 1) -> V]
    <3>1. \A i \in a..(k + 1) : i # k + 1 => i \in a..k OBVIOUS
    <3> QED BY <2>1, <2>3, <3>1
  <2>5. g[a] = first BY <2>1, <2>2
  <2>6. ASSUME NEW i \in a..(k + 1), i # a PROVE g[i] = step[<<i, g[i - 1]>>]
    <3>1. i - 1 \in a..k /\ i - 1 # k + 1 /\ i - 1 \in a..(k + 1) BY <2>6
    <3>2. g[i - 1] = f[i - 1] BY <3>1
    <3>3. CASE i = k + 1
      <4>1. i - 1 = k BY <3>3
      <4> QED BY <3>2, <3>3, <4>1
    <3>4. CASE i # k + 1
      <4>1. i \in a..k BY <3>4
      <4>2. f[i] = step[<<i, f[i - 1]>>] BY <2>1, <2>6, <4>1
      <4>3. g[i] = f[i] BY <3>4
      <4> QED BY <3>2, <4>2, <4>3
    <3> QED BY <3>3, <3>4
  <2>7. Upto(k + 1, g) BY <2>4, <2>5, <2>6
  <2> HIDE DEF Upto, g
  <2> QED BY <2>2, <2>7
<1>3. a..n \subseteq P
  <2> HIDE DEF P
  <2> QED BY <1>1, <1>2, Induct
<1>4. PICK f : Upto(n, f)
  <2>1. n \in P
    <3>1. n \in 0..n OBVIOUS
    <3> HIDE DEF P
    <3> QED BY <1>3, <3>1
  <2> HIDE DEF Upto
  <2> QED BY <2>1
<1>5. Steps(f, a, n, first, step) BY <1>4 DEF Steps
<1> QED BY <1>4, <1>5

-----------------------------------------------------------------------------
(* Integers.                                                               *)

LEMMA DivMod ==
  ASSUME NEW a \in Nat, NEW b \in Nat, b > 0
  PROVE  a \div b \in Nat /\ a % b \in 0..(b - 1) /\ a = b * (a \div b) + (a % b)
OBVIOUS

LEMMA PowerIs ==
  ASSUME NEW b \in Nat
  PROVE  /\ Power(b, 0) = 1
         /\ \A n \in Nat : Power(b, n) \in Nat /\ Power(b, n + 1) = b * Power(b, n)
<1> DEFINE Def(f, n) == [i \in 0..n |-> IF i = 0 THEN 1 ELSE b * f[i - 1]]
           power(n) == CHOOSE f : f = Def(f, n)
<1>1. ASSUME NEW n \in Nat
      PROVE  /\ power(n) = Def(power(n), n)
             /\ \A i \in 0..n : power(n)[i] \in Nat
  <2> DEFINE step == [x \in (0..n) \X Nat |-> b * x[2]]
  <2>1. step \in [(0..n) \X Nat -> Nat] /\ 0 \in Nat /\ 0 <= n /\ 1 \in Nat OBVIOUS
  <2>2. PICK f \in [0..n -> Nat] : Steps(f, 0, n, 1, step)
    <3> HIDE DEF step
    <3> QED BY <2>1, Iteration
  <2>3. \A i \in 0..n : i # 0 => step[<<i, f[i - 1]>>] = b * f[i - 1]
    <3> TAKE i \in 0..n
    <3> HAVE i # 0
    <3>1. i - 1 \in 0..n OBVIOUS
    <3>2. <<i, f[i - 1]>> \in (0..n) \X Nat BY <2>2, <3>1
    <3> QED BY <3>2
  <2>4. f = Def(f, n) BY <2>2, <2>3 DEF Steps
  <2>5. power(n) = Def(power(n), n)
    <3> HIDE DEF Def
    <3> QED BY <2>4
  <2>6. PICK g : g = power(n) OBVIOUS
  <2>7. g = Def(g, n) BY <2>5, <2>6
  <2>8. SameSteps(f, g, 0, n) BY <2>4, <2>7 DEF SameSteps
  <2>9. \A i \in 0..n : g[i] = f[i] BY <2>1, <2>8, Agree
  <2> QED BY <2>2, <2>5, <2>6, <2>9
<1>2. \A n : Power(b, n) = power(n)[n] BY DEF Power
<1> HIDE DEF power
<1>3. ASSUME NEW n \in Nat PROVE Power(b, n + 1) = b * Power(b, n)
  <2>1. PICK f : f = power(n) OBVIOUS
  <2>2. PICK g : g = power(n + 1) OBVIOUS
  <2>3. f = Def(f, n) /\ g = Def(g, n + 1) BY <1>1, <2>1, <2>2
  <2>4. \A i \in 0..n + 1 : g[i] = IF i = 0 THEN 1 ELSE b * g[i - 1] BY <2>3
  <2>5. \A i \in 0..n : f[i] = IF i = 0 THEN 1 ELSE b * f[i - 1] BY <2>3
  <2>6. SameSteps(f, g, 0, n) BY <2>4, <2>5 DEF SameSteps
  <2>7. \A i \in 0..n : g[i] = f[i]
    <3>1. 0 \in Nat /\ 0 <= n OBVIOUS
    <3> QED BY <2>6, <3>1, Agree
  <2>8. g[n + 1] = b * g[n] BY <2>4
  <2>9. g[n] = f[n] BY <2>7
  <2> QED BY <1>2, <2>1, <2>2, <2>8, <2>9
<1>4. Power(b, 0) = 1
  <2>1. PICK f : f = power(0) OBVIOUS
  <2>2. f = Def(f, 0) BY <1>1, <2>1
  <2>3. f[0] = 1 BY <2>2
  <2> QED BY <1>2, <2>1, <2>3
<1>5. ASSUME NEW n \in Nat PROVE Power(b, n) \in Nat
  <2>1. n \in 0..n OBVIOUS
  <2> QED BY <1>1, <1>2, <2>1
<1> QED BY <1>3, <1>4, <1>5

LEMMA Parts ==
  ASSUME NEW n \in Nat, NEW w \in Nat \ {0}
  PROVE  \E part \in [1..w -> Nat] :
           /\ part[1] = n
           /\ \A i \in 1..w : i # 1 => part[i] = part[i - 1] \div ByteBase
           /\ LittleEndian(n, w) = [i \in 1..w |-> part[i] % ByteBase]
<1> DEFINE step == [x \in (1..w) \X Nat |-> x[2] \div ByteBase]
           Def(f) == [i \in 1..w |-> IF i = 1 THEN n ELSE f[i - 1] \div ByteBase]
           part == CHOOSE f : f = Def(f)
<1>1. step \in [(1..w) \X Nat -> Nat] BY CodecAssumption
<1>2. PICK f \in [1..w -> Nat] : Steps(f, 1, w, n, step)
  <2>1. 1 \in Nat /\ 1 <= w /\ n \in Nat OBVIOUS
  <2> HIDE DEF step
  <2> QED BY <1>1, <2>1, Iteration
<1>3. \A i \in 1..w : i # 1 => step[<<i, f[i - 1]>>] = f[i - 1] \div ByteBase
  <2> TAKE i \in 1..w
  <2> HAVE i # 1
  <2>1. i - 1 \in 1..w OBVIOUS
  <2>2. <<i, f[i - 1]>> \in (1..w) \X Nat BY <1>2, <2>1
  <2> QED BY <2>2
<1>4. f = Def(f) BY <1>2, <1>3 DEF Steps
<1>5. part = Def(part)
  <2> HIDE DEF Def
  <2> QED BY <1>4
<1> DEFINE P == {i \in 1..w : part[i] \in Nat}
<1>6. \A i \in 1..w : part[i] = IF i = 1 THEN n ELSE part[i - 1] \div ByteBase
  <2> HIDE DEF part
  <2> QED BY <1>5
<1>7. LittleEndian(n, w) = [i \in 1..w |-> part[i] % ByteBase] BY DEF LittleEndian
<1>8. DOMAIN part = 1..w
  <2> HIDE DEF part
  <2> QED BY <1>5
<1> HIDE DEF part
<1>9. 1..w \subseteq P
  <2>1. 1 \in P BY <1>6
  <2>2. ASSUME NEW i \in 1..w, i # w, i \in P PROVE i + 1 \in P
    <3>1. i + 1 \in 1..w /\ i + 1 # 1 /\ i + 1 - 1 = i BY <2>2
    <3>2. part[i + 1] = part[i] \div ByteBase BY <1>6, <3>1
    <3>3. ByteBase \in Nat /\ ByteBase > 0 BY CodecAssumption
    <3>4. PICK p \in Nat : p = part[i] BY <2>2
    <3>5. p \div ByteBase \in Nat BY <3>3, DivMod
    <3> QED BY <3>1, <3>2, <3>4, <3>5
  <2> HIDE DEF P
  <2> QED BY <2>1, <2>2, Induct
<1>10. part \in [1..w -> Nat]
  <2>1. part = Def(part) BY <1>5
  <2>2. part = [i \in 1..w |-> part[i]] BY <2>1
  <2> QED BY <1>9, <2>2
<1>11. 1 \in 1..w OBVIOUS
<1> HIDE DEF Def
<1> QED BY <1>6, <1>7, <1>10, <1>11

LEMMA LittleEndianBytes ==
  ASSUME NEW n \in Nat, NEW w \in Nat \ {0}
  PROVE  LittleEndian(n, w) \in Blob /\ Len(LittleEndian(n, w)) = w
<1>1. PICK part \in [1..w -> Nat] : LittleEndian(n, w) = [i \in 1..w |-> part[i] % ByteBase]
  BY Parts
<1>2. \A i \in 1..w : part[i] % ByteBase \in Bytes BY CodecAssumption DEF Bytes
<1>3. [i \in 1..w |-> part[i] % ByteBase] \in [1..w -> Bytes] BY <1>2
<1> QED BY <1>1, <1>3 DEF Blob

LEMMA FromIs ==
  ASSUME NEW bytes \in Blob
  PROVE  \E from \in [1..Len(bytes) + 1 -> Nat] :
           /\ from[Len(bytes) + 1] = 0
           /\ \A i \in 1..Len(bytes) : from[i] = bytes[i] + ByteBase * from[i + 1]
           /\ FromLittleEndian(bytes) = from[1]
<1> DEFINE L == Len(bytes)
           Def(f) == [i \in 1..(L + 1) |-> IF i > L THEN 0 ELSE bytes[i] + ByteBase * f[i + 1]]
           from == CHOOSE f : f = Def(f)
           step == [x \in (0..L) \X Nat |-> bytes[L + 1 - x[1]] + ByteBase * x[2]]
<1>1. L \in Nat /\ (\A i \in 1..L : bytes[i] \in Nat) /\ ByteBase \in Nat
  BY CodecAssumption DEF Blob, Bytes
<1>2. FromLittleEndian(bytes) = from[1] BY DEF FromLittleEndian
<1> HIDE DEF L
<1>3. \E f : f = Def(f)
  <2> DEFINE take == [x \in (0..L) \X Nat |->
                        IF x[1] = 0 THEN 0 ELSE bytes[L + 1 - x[1]] + ByteBase * x[2]]
  <2>1. take \in [(0..L) \X Nat -> Nat]
    <3> SUFFICES ASSUME NEW j \in 0..L, NEW m \in Nat, j # 0
                 PROVE  bytes[L + 1 - j] + ByteBase * m \in Nat
      OBVIOUS
    <3>1. L + 1 - j \in 1..L BY <1>1
    <3>2. bytes[L + 1 - j] \in Nat BY <1>1, <3>1
    <3> QED BY <1>1, <3>2
  <2>2. PICK f \in [0..L -> Nat] : Steps(f, 0, L, 0, take)
    <3>1. 0 \in Nat /\ 0 <= L BY <1>1
    <3> HIDE DEF take
    <3> QED BY <1>1, <2>1, <3>1, Iteration
  <2>3. ASSUME NEW j \in 0..L, j # 0 PROVE f[j] = bytes[L + 1 - j] + ByteBase * f[j - 1]
    <3>1. j - 1 \in 0..L BY <1>1, <2>3
    <3>2. <<j, f[j - 1]>> \in (0..L) \X Nat BY <2>2, <3>1
    <3>3. f[j] = take[<<j, f[j - 1]>>] BY <2>2, <2>3 DEF Steps
    <3> QED BY <2>3, <3>2, <3>3
  <2>4. f[0] = 0
    <3>1. 0 \in 0..L BY <1>1
    <3> QED BY <2>2, <3>1 DEF Steps
  <2> DEFINE g == [i \in 1..(L + 1) |-> f[L + 1 - i]]
  <2>5. ASSUME NEW i \in 1..(L + 1) PROVE g[i] = IF i > L THEN 0 ELSE bytes[i] + ByteBase * g[i + 1]
    <3>1. PICK j \in 0..L : j = L + 1 - i BY <1>1
    <3>2. CASE j = 0 BY <1>1, <2>4, <3>1, <3>2
    <3>3. CASE j # 0
      <4>1. L + 1 - j = i /\ i \in 1..L /\ i + 1 \in 1..(L + 1) /\ L + 1 - (i + 1) = j - 1 /\ ~(i > L)
        BY <1>1, <3>1, <3>3
      <4>2. g[i] = f[j] /\ g[i + 1] = f[j - 1] BY <3>1, <4>1
      <4>3. f[j] = bytes[i] + ByteBase * f[j - 1] BY <2>3, <3>3, <4>1
      <4> HIDE DEF g
      <4> QED BY <4>1, <4>2, <4>3
    <3> QED BY <3>2, <3>3
  <2>6. g = Def(g) BY <2>5
  <2> HIDE DEF g, Def
  <2> QED BY <2>6
<1>4. from = Def(from)
  <2> HIDE DEF Def
  <2> QED BY <1>3
<1> HIDE DEF from
<1>5. \A i \in 1..(L + 1) : from[i] = IF i > L THEN 0 ELSE bytes[i] + ByteBase * from[i + 1]
  BY <1>4
<1> DEFINE P == {j \in 0..L : from[L + 1 - j] \in Nat}
<1>6. 0..L \subseteq P
  <2>1. 0 \in P
    <3>1. L + 1 \in 1..(L + 1) /\ L + 1 > L /\ L + 1 - 0 = L + 1 /\ 0 \in 0..L BY <1>1
    <3>2. from[L + 1] = 0 BY <1>5, <3>1
    <3> QED BY <3>1, <3>2
  <2>2. ASSUME NEW j \in 0..L, j # L, j \in P PROVE j + 1 \in P
    <3>1. PICK i \in 1..L : i = L - j BY <1>1, <2>2
    <3>2. L + 1 - j = i + 1 /\ L + 1 - (j + 1) = i /\ ~(i > L) /\ i \in 1..(L + 1) /\ j + 1 \in 0..L
      BY <1>1, <2>2, <3>1
    <3>3. PICK m \in Nat : m = from[i + 1] BY <2>2, <3>2
    <3>4. from[i] = bytes[i] + ByteBase * m BY <1>5, <3>2, <3>3
    <3>5. from[i] \in Nat BY <1>1, <3>4
    <3> QED BY <3>2, <3>5
  <2> HIDE DEF P
  <2> QED BY <1>1, <2>1, <2>2, Induct
<1>7. from \in [1..(L + 1) -> Nat]
  <2>1. ASSUME NEW i \in 1..(L + 1) PROVE from[i] \in Nat
    <3>1. PICK j \in 0..L : j = L + 1 - i BY <1>1
    <3>2. L + 1 - j = i BY <1>1, <3>1
    <3> QED BY <1>6, <3>2
  <2>2. from = [i \in 1..(L + 1) |-> from[i]] BY <1>4
  <2> QED BY <2>1, <2>2
<1>8. from[L + 1] = 0
  <2>1. L + 1 \in 1..(L + 1) /\ L + 1 > L BY <1>1
  <2> QED BY <1>5, <2>1
<1>9. \A i \in 1..L : from[i] = bytes[i] + ByteBase * from[i + 1]
  <2>1. \A i \in 1..L : i \in 1..(L + 1) /\ ~(i > L) BY <1>1
  <2> QED BY <1>5, <2>1
<1> QED BY <1>2, <1>7, <1>8, <1>9 DEF L

LEMMA NumberIsNat ==
  ASSUME NEW bytes \in Blob
  PROVE  FromLittleEndian(bytes) \in Nat
<1>1. PICK from \in [1..Len(bytes) + 1 -> Nat] : FromLittleEndian(bytes) = from[1] BY FromIs
<1>2. 1 \in 1..Len(bytes) + 1 BY DEF Blob
<1> QED BY <1>1, <1>2

(* A number that fits is read as it was written.                           *)
LEMMA NumberBack ==
  ASSUME NEW w \in Nat \ {0}, NEW n \in Nat, n < Power(ByteBase, w)
  PROVE  FromLittleEndian(LittleEndian(n, w)) = n
<1>1. PICK part \in [1..w -> Nat] :
        /\ part[1] = n
        /\ \A i \in 1..w : i # 1 => part[i] = part[i - 1] \div ByteBase
        /\ LittleEndian(n, w) = [i \in 1..w |-> part[i] % ByteBase]
  BY Parts
<1> DEFINE bytes == LittleEndian(n, w)
           B == ByteBase
<1>2. bytes \in Blob /\ Len(bytes) = w BY LittleEndianBytes
<1>3. PICK from \in [1..w + 1 -> Nat] :
        /\ from[w + 1] = 0
        /\ \A i \in 1..w : from[i] = bytes[i] + ByteBase * from[i + 1]
        /\ FromLittleEndian(bytes) = from[1]
  BY <1>2, FromIs
<1>4. B \in Nat /\ B > 0 /\ 1 \in 1..w /\ w \in 1..w BY CodecAssumption
<1>5. \A i \in 1..w : bytes[i] = part[i] % B BY <1>1
<1> HIDE DEF bytes, B
<1> DEFINE Small == {i \in 1..w : part[i] < Power(B, w + 1 - i)}
<1>6. 1..w \subseteq Small
  <2>1. 1 \in Small
    <3>1. w + 1 - 1 = w OBVIOUS
    <3> QED BY <1>1, <1>4, <3>1 DEF B
  <2>2. ASSUME NEW i \in 1..w, i # w, i \in Small PROVE i + 1 \in Small
    <3>1. PICK k \in 1..w : k = i + 1 /\ k # 1 /\ k - 1 = i BY <2>2
    <3>2. PICK d \in Nat : d = w + 1 - k BY <3>1
    <3>3. w + 1 - i = d + 1 BY <3>1, <3>2
    <3>4. PICK p \in Nat : p = Power(B, d) BY <1>4, <3>2, PowerIs
    <3>5. Power(B, d + 1) = B * p BY <1>4, <3>4, PowerIs
    <3>6. PICK m \in Nat : m = part[i] OBVIOUS
    <3>7. m < B * p BY <2>2, <3>3, <3>5, <3>6
    <3>8. m \div B < p BY <1>4, <3>7
    <3>9. part[k] = m \div B BY <1>1, <3>1, <3>6 DEF B
    <3> QED BY <3>1, <3>2, <3>4, <3>8, <3>9
  <2> HIDE DEF Small
  <2>3. 1 \in Nat /\ w \in Nat OBVIOUS
  <2> QED BY <2>1, <2>2, <2>3, Induct
<1> DEFINE P == {j \in 0..(w - 1) : from[w - j] = part[w - j]}
<1>7. 0..(w - 1) \subseteq P
  <2>1. 0 \in P
    <3>1. w + 1 - w = 1 /\ w - 0 = w /\ 0 \in 0..(w - 1) /\ 1 = 0 + 1 OBVIOUS
    <3>2. Power(B, 1) = B * 1 BY <1>4, <3>1, PowerIs
    <3>3. PICK m \in Nat : m = part[w] BY <1>4
    <3>4. w \in Small BY <1>4, <1>6
    <3>5. m < B BY <1>4, <3>1, <3>2, <3>3, <3>4
    <3>6. m % B = m BY <1>4, <3>5
    <3>7. from[w] = bytes[w] + B * from[w + 1] BY <1>3, <1>4 DEF B
    <3>8. B * 0 = 0 BY <1>4
    <3>9. from[w] = m BY <1>3, <1>4, <1>5, <3>3, <3>6, <3>7, <3>8
    <3> QED BY <3>1, <3>3, <3>9
  <2>2. ASSUME NEW j \in 0..(w - 1), j # w - 1, j \in P PROVE j + 1 \in P
    <3>1. PICK i \in 1..w : i = w - (j + 1) /\ i + 1 = w - j /\ i + 1 \in 1..w /\ i + 1 # 1 /\ i + 1 - 1 = i
      BY <2>2
    <3>2. PICK m \in Nat : m = part[i] OBVIOUS
    <3>3. from[i + 1] = m \div B
      <4>1. PICK k \in 1..w : k = i + 1 BY <3>1
      <4>2. part[k] = part[k - 1] \div B BY <1>1, <3>1, <4>1 DEF B
      <4>3. k - 1 = i BY <3>1, <4>1
      <4> QED BY <2>2, <3>1, <3>2, <4>1, <4>2, <4>3
    <3>4. from[i] = (m % B) + B * (m \div B)
      <4>1. from[i] = bytes[i] + B * from[i + 1] BY <1>3 DEF B
      <4>2. bytes[i] = m % B BY <1>5, <3>2
      <4> QED BY <3>3, <4>1, <4>2
    <3>5. PICK q \in Nat, r \in Nat : q = B * (m \div B) /\ r = m % B /\ m = q + r
      BY <1>4, DivMod
    <3>6. from[i] = m BY <3>4, <3>5
    <3>7. j + 1 \in 0..(w - 1) BY <2>2
    <3> QED BY <3>1, <3>2, <3>6, <3>7
  <2> HIDE DEF P
  <2>3. 0 \in Nat /\ w - 1 \in Nat OBVIOUS
  <2> QED BY <2>1, <2>2, <2>3, Induct
<1>8. PICK k \in 0..(w - 1) : w - k = 1
  <2>1. w - 1 \in 0..(w - 1) /\ w - (w - 1) = 1 OBVIOUS
  <2> QED BY <2>1
<1>9. from[w - k] = part[w - k] BY <1>7
<1>10. from[1] = part[1] BY <1>8, <1>9
<1> QED BY <1>1, <1>3, <1>10 DEF bytes

(* The concatenation of the first sequences, one after the other.          *)
Chained(f, seqs, n) == \A i \in 1..n : f[i] = IF i = 1 THEN seqs[1] ELSE f[i - 1] \o seqs[i]
Same(f, g, n) == \A i \in 1..n : f[i] = g[i]

LEMMA SameChain ==
  \A f, g, seqs, n :
    n \in Nat \ {0} /\ Chained(f, seqs, n) /\ Chained(g, seqs, n) => Same(f, g, n)
<1> SUFFICES ASSUME NEW f, NEW g, NEW seqs, NEW n,
                    n \in Nat \ {0}, Chained(f, seqs, n), Chained(g, seqs, n)
             PROVE  Same(f, g, n)
  OBVIOUS
<1>1. 1 \in Nat /\ n \in Nat /\ 1 <= n /\ 1 \in 1..n OBVIOUS
<1>2. SameSteps(g, f, 1, n)
  <2>1. f[1] = g[1] BY <1>1 DEF Chained
  <2>2. ASSUME NEW i \in 1..n, i # 1, f[i - 1] = g[i - 1] PROVE f[i] = g[i]
    BY <2>2 DEF Chained
  <2> QED BY <2>1, <2>2 DEF SameSteps
<1> QED BY <1>1, <1>2, Agree DEF Same

LEMMA FlattenIs ==
  ASSUME NEW S, NEW seqs \in Seq(Seq(S)), seqs # <<>>
  PROVE  \E f \in [1..Len(seqs) -> Seq(S)] :
           /\ f[1] = seqs[1]
           /\ \A i \in 1..Len(seqs) : i # 1 => f[i] = f[i - 1] \o seqs[i]
           /\ FlattenSeq(seqs) = f[Len(seqs)]
<1>v. PICK V : V = Seq(S) OBVIOUS
<1> DEFINE n == Len(seqs)
           step == [x \in (1..n) \X V |-> x[2] \o seqs[x[1]]]
           Def(f) == [i \in 1..n |-> IF i = 1 THEN seqs[i] ELSE f[i - 1] \o seqs[i]]
           flat == CHOOSE f : f = Def(f)
<1>1. n \in Nat \ {0} /\ \A i \in 1..n : seqs[i] \in V BY <1>v
<1>0. 1 \in 1..n /\ n \in 1..n BY <1>1
<1> HIDE DEF n
<1>2. step \in [(1..n) \X V -> V] BY <1>1, <1>v
<1>3. PICK f \in [1..n -> V] : Steps(f, 1, n, seqs[1], step)
  <2>1. seqs[1] \in V /\ 1 \in Nat /\ 1 <= n BY <1>1
  <2> HIDE DEF step
  <2> QED BY <1>1, <1>2, <2>1, Iteration
<1>4. \A i \in 1..n : i # 1 => step[<<i, f[i - 1]>>] = f[i - 1] \o seqs[i]
  <2> TAKE i \in 1..n
  <2> HAVE i # 1
  <2>1. i - 1 \in 1..n BY <1>1
  <2>2. <<i, f[i - 1]>> \in (1..n) \X V BY <1>3, <2>1
  <2> QED BY <2>2
<1>5. f = Def(f) BY <1>3, <1>4 DEF Steps
<1>6. flat = Def(flat)
  <2> HIDE DEF Def
  <2> QED BY <1>5
<1>7. FlattenSeq(seqs) = flat[n] BY <1>1 DEF FlattenSeq, n
<1>8. Chained(flat, seqs, n)
  <2> HIDE DEF flat
  <2> QED BY <1>6 DEF Chained
<1>9. Chained(f, seqs, n) BY <1>5 DEF Chained
<1> HIDE DEF flat
<1>10. \A i \in 1..n : flat[i] = f[i]
  <2>1. PICK g, h, m, s : g = flat /\ h = f /\ m = n /\ s = seqs OBVIOUS
  <2>2. m \in Nat \ {0} /\ Chained(g, s, m) /\ Chained(h, s, m) BY <1>1, <1>8, <1>9, <2>1
  <2>3. Same(g, h, m) BY <2>2, SameChain
  <2> QED BY <2>1, <2>3 DEF Same
<1>11. n \in 1..n /\ 1 \in 1..n BY <1>0
<1>12. flat[n] = f[n] BY <1>10, <1>11
<1> HIDE DEF Def
<1>13. f[1] = seqs[1] /\ \A i \in 1..n : i # 1 => f[i] = f[i - 1] \o seqs[i]
  BY <1>9, <1>11 DEF Chained
<1> QED BY <1>3, <1>7, <1>12, <1>13, <1>v DEF n

LEMMA FlattenBytes ==
  ASSUME NEW seqs \in Seq(Blob)
  PROVE  FlattenSeq(seqs) \in Blob
<1>1. CASE seqs = <<>> BY <1>1 DEF FlattenSeq, Blob
<1>2. CASE seqs # <<>>
  <2>1. PICK f \in [1..Len(seqs) -> Blob] : FlattenSeq(seqs) = f[Len(seqs)]
    BY <1>2, FlattenIs DEF Blob
  <2>2. Len(seqs) \in 1..Len(seqs) BY <1>2
  <2> QED BY <2>1, <2>2
<1> QED BY <1>1, <1>2

(* Concatenations.                                                         *)
LEMMA Assoc ==
  \A s, t, u \in Blob : (s \o t) \o u = s \o (t \o u)
BY ConcatAssociative DEF Blob

LEMMA Joined ==
  \A s, t \in Blob : /\ s \o t \in Blob /\ Len(s) \in Nat /\ Len(t) \in Nat
                      /\ Len(s) <= Len(s \o t) /\ Len(t) <= Len(s \o t)
<1> TAKE s \in Blob, t \in Blob
<1>1. s \o t \in Blob /\ Len(s \o t) = Len(s) + Len(t) BY ConcatProperties DEF Blob
<1>2. Len(s) \in Nat /\ Len(t) \in Nat BY DEF Blob
<1> QED BY <1>1, <1>2

(* A name for it keeps the definition of the concatenation from the solver *)
(* where its associativity is all that is needed.                          *)
Cat(s, t) == s \o t

LEMMA Regroup == \A s, t, u \in Blob : Cat(Cat(s, t), u) = Cat(s, Cat(t, u))
BY Assoc DEF Cat

LEMMA CatJoined ==
  \A s, t \in Blob : /\ Cat(s, t) \in Blob /\ Len(s) \in Nat /\ Len(t) \in Nat
                      /\ Len(s) <= Len(Cat(s, t)) /\ Len(t) <= Len(Cat(s, t))
BY Joined DEF Cat

(* What follows each of the sequences in their concatenation.              *)
LEMMA FlattenSplit ==
  ASSUME NEW seqs \in Seq(Blob)
  PROVE  \E after \in [0..Len(seqs) -> Blob] :
           /\ after[0] = FlattenSeq(seqs)
           /\ after[Len(seqs)] = <<>>
           /\ \A i \in 1..Len(seqs) : after[i - 1] = seqs[i] \o after[i]
<1> DEFINE n == Len(seqs)
           Splits(k, f, after) == /\ after \in [0..k -> Blob] /\ after[0] = f[k] /\ after[k] = <<>>
                                  /\ \A i \in 1..k : after[i - 1] = seqs[i] \o after[i]
<1>1. n \in Nat /\ (\A i \in 1..n : seqs[i] \in Blob) /\ <<>> \in Blob BY DEF Blob
<1>2. CASE n = 0
  <2>1. seqs = <<>> BY <1>2
  <2>2. FlattenSeq(seqs) = <<>> BY <2>1 DEF FlattenSeq
  <2> DEFINE after == [i \in 0..0 |-> <<>>]
  <2>3. after \in [0..n -> Blob] /\ after[0] = <<>> /\ after[n] = <<>> BY <1>1, <1>2
  <2>4. \A i \in 1..n : after[i - 1] = seqs[i] \o after[i] BY <1>2
  <2> HIDE DEF after
  <2> QED BY <2>2, <2>3, <2>4
<1>3. CASE n # 0
  <2>1. seqs # <<>> BY <1>3
  <2>2. PICK f \in [1..n -> Blob] : /\ f[1] = seqs[1]
                                    /\ \A i \in 1..n : i # 1 => f[i] = f[i - 1] \o seqs[i]
                                    /\ FlattenSeq(seqs) = f[n]
    BY <2>1, FlattenIs DEF Blob
  <2> HIDE DEF n
  <2> DEFINE P == {k \in 1..n : \E after : Splits(k, f, after)}
  <2>3. 1 \in P
    <3> DEFINE after == [i \in 0..1 |-> IF i = 0 THEN f[1] ELSE <<>>]
    <3>1. 1 \in 1..n BY <1>1, <1>3
    <3>2. seqs[1] \in Blob /\ seqs[1] \o <<>> = seqs[1] BY <1>1, <3>1, ConcatEmptySeq DEF Blob
    <3>3. after \in [0..1 -> Blob] BY <1>1, <2>2, <3>1
    <3>4. after[0] = f[1] /\ after[1] = <<>> OBVIOUS
    <3>5. ASSUME NEW i \in 1..1 PROVE after[i - 1] = seqs[i] \o after[i]
      <4>1. i = 1 /\ i - 1 = 0 OBVIOUS
      <4> QED BY <2>2, <3>2, <3>4, <4>1
    <3> HIDE DEF after
    <3>6. Splits(1, f, after) BY <3>3, <3>4, <3>5
    <3> QED BY <3>1, <3>6
  <2>4. ASSUME NEW k \in 1..n, k # n, k \in P PROVE k + 1 \in P
    <3>1. PICK before : Splits(k, f, before) BY <2>4
    <3>2. PICK m \in 1..n : m = k + 1 /\ m # 1 /\ m - 1 = k /\ k \in Nat BY <1>1, <2>4
    <3>3. seqs[m] \in Blob /\ f[m] = f[k] \o seqs[m] BY <1>1, <2>2, <3>2
    <3> DEFINE after == [i \in 0..m |-> IF i = m THEN <<>> ELSE before[i] \o seqs[m]]
    <3>4. \A i \in 0..k : before[i] \in Blob /\ before[i] \o seqs[m] \in Blob
      BY <3>1, <3>3, ConcatProperties DEF Blob
    <3>5. after \in [0..m -> Blob]
      <4>1. \A i \in 0..m : i # m => i \in 0..k BY <3>2
      <4> QED BY <1>1, <3>4, <4>1
    <3>6. /\ \A i \in 0..k : after[i] = before[i] \o seqs[m]
          /\ after[m] = <<>>
      <4>1. m \in 0..m /\ \A i \in 0..k : i \in 0..m /\ i # m BY <3>2
      <4> QED BY <4>1
    <3> HIDE DEF after
    <3>7. after[0] = f[m]
      <4>1. 0 \in 0..k BY <3>2
      <4> QED BY <3>1, <3>3, <3>6, <4>1
    <3>8. ASSUME NEW i \in 1..m PROVE after[i - 1] = seqs[i] \o after[i]
      <4>1. CASE i = m
        <5>1. k \in 0..k BY <3>2
        <5>2. after[k] = <<>> \o seqs[m] BY <3>1, <3>6, <5>1
        <5>3. <<>> \o seqs[m] = seqs[m] /\ seqs[m] \o <<>> = seqs[m]
          BY <3>3, ConcatEmptySeq DEF Blob
        <5> QED BY <3>2, <3>6, <4>1, <5>2, <5>3
      <4>2. CASE i # m
        <5>1. i \in 1..k /\ i \in 0..k /\ i - 1 \in 0..k /\ i \in 1..n BY <1>1, <3>2, <3>8, <4>2
        <5>2. after[i - 1] = before[i - 1] \o seqs[m] /\ after[i] = before[i] \o seqs[m]
          BY <3>6, <5>1
        <5>3. before[i - 1] = seqs[i] \o before[i] BY <3>1, <5>1
        <5>4. seqs[i] \in Blob /\ before[i] \in Blob BY <1>1, <3>4, <5>1
        <5>5. (seqs[i] \o before[i]) \o seqs[m] = seqs[i] \o (before[i] \o seqs[m])
          BY <3>3, <5>4, Assoc
        <5> QED BY <5>2, <5>3, <5>5
      <4> QED BY <4>1, <4>2
    <3>9. Splits(m, f, after) BY <3>5, <3>6, <3>7, <3>8
    <3> HIDE DEF Splits
    <3> QED BY <3>2, <3>9
  <2>5. n \in P
    <3>1. 1 \in Nat /\ n \in 1..n BY <1>1, <1>3
    <3> HIDE DEF P
    <3> QED BY <1>1, <2>3, <2>4, <3>1, Induct
  <2>6. PICK after : Splits(n, f, after) BY <2>5
  <2> QED BY <2>2, <2>6 DEF n
<1> QED BY <1>2, <1>3

-----------------------------------------------------------------------------
(* The decoder: what a take returns of what was pushed.                    *)

LEMMA Once == \A x : (CHOOSE used \in {x} : TRUE) = x
OBVIOUS

LEMMA NoErrors == None \notin {"UnexpectedEof", "InvalidFrameKind", "InvalidCallsiteKind",
                               "InvalidLevel", "InvalidFieldType", "InvalidUtf8"}
BY DEF None

LEMMA TakeBytesBack ==
  ASSUME NEW bytes \in Blob, NEW rest \in Blob
  PROVE  TakeBytes(Len(bytes), bytes \o rest) = Took(bytes, rest)
<1> DEFINE input == bytes \o rest
           n == Len(bytes)
           m == Len(rest)
<1>1. n \in Nat /\ m \in Nat /\ input \in Seq(Bytes) /\ Len(input) = n + m
      /\ bytes \in Seq(Bytes) /\ rest \in Seq(Bytes)
      /\ \A i \in 1..n + m : input[i] = IF i <= n THEN bytes[i] ELSE rest[i - n]
  BY ConcatProperties DEF Blob
<1> HIDE DEF input
<1>2. SubSeq(input, 1, n) = bytes
  <2>1. \A i \in 1..n : input[i] \in Bytes BY <1>1
  <2>2. /\ SubSeq(input, 1, n) \in Seq(Bytes)
        /\ Len(SubSeq(input, 1, n)) = IF 1 <= n THEN n - 1 + 1 ELSE 0
        /\ \A i \in 1..n - 1 + 1 : SubSeq(input, 1, n)[i] = input[1 + i - 1]
    BY <1>1, <2>1, SubSeqProperties
  <2>3. PICK s \in Seq(Bytes) : s = SubSeq(input, 1, n) BY <2>2
  <2> HIDE DEF n, m
  <2>4. n - 1 + 1 = n /\ \A i \in 1..n : 1 + i - 1 = i BY <1>1
  <2>5. Len(s) = n BY <1>1, <2>2, <2>3
  <2>6. \A i \in 1..n : s[i] = bytes[i]
    <3> TAKE i \in 1..n
    <3>1. i \in 1..n - 1 + 1 /\ 1 + i - 1 = i BY <2>4
    <3>2. s[i] = input[i] BY <2>2, <2>3, <3>1
    <3>3. input[i] = bytes[i] BY <1>1
    <3> QED BY <3>2, <3>3
  <2>7. Len(bytes) = n BY DEF n
  <2>8. s = bytes BY <1>1, <2>5, <2>6, <2>7, SeqEqual
  <2> QED BY <2>3, <2>8
<1>3. SubSeq(input, n + 1, Len(input)) = rest
  <2>1. \A i \in n + 1..n + m : input[i] \in Bytes
    <3> TAKE i \in n + 1..n + m
    <3>1. i \in 1..n + m /\ ~(i <= n) /\ i - n \in 1..m BY <1>1
    <3> QED BY <1>1, <3>1
  <2>2. /\ SubSeq(input, n + 1, n + m) \in Seq(Bytes)
        /\ Len(SubSeq(input, n + 1, n + m)) = IF n + 1 <= n + m THEN n + m - (n + 1) + 1 ELSE 0
        /\ \A i \in 1..n + m - (n + 1) + 1 : SubSeq(input, n + 1, n + m)[i] = input[n + 1 + i - 1]
    BY <1>1, <2>1, SubSeqProperties
  <2>3. PICK s \in Seq(Bytes) : s = SubSeq(input, n + 1, n + m) BY <2>2
  <2> HIDE DEF n, m
  <2>4. n + m - (n + 1) + 1 = m BY <1>1
  <2>5. Len(s) = m BY <1>1, <2>2, <2>3, <2>4
  <2>6. \A i \in 1..m : s[i] = rest[i]
    <3> TAKE i \in 1..m
    <3>1. i \in 1..n + m - (n + 1) + 1 BY <2>4
    <3>2. s[i] = input[n + 1 + i - 1] BY <2>2, <2>3, <3>1
    <3>3. PICK k \in 1..n + m : k = n + 1 + i - 1 /\ ~(k <= n) /\ k - n = i BY <1>1
    <3>4. input[k] = rest[k - n] BY <1>1, <3>3
    <3> QED BY <3>2, <3>3, <3>4
  <2>7. Len(rest) = m BY DEF m
  <2>8. s = rest BY <1>1, <2>5, <2>6, <2>7, SeqEqual
  <2> QED BY <1>1, <2>3, <2>8
<1>4. ~(Len(input) < n) BY <1>1
<1> QED BY <1>2, <1>3, <1>4 DEF TakeBytes, input

LEMMA TakeNumberBack ==
  ASSUME NEW w \in Nat \ {0}, NEW n \in Nat, n < Power(ByteBase, w), NEW rest \in Blob
  PROVE  TakeNumber(w, LittleEndian(n, w) \o rest) = Took(n, rest)
<1>1. LittleEndian(n, w) \in Blob /\ Len(LittleEndian(n, w)) = w BY LittleEndianBytes
<1>2. TakeBytes(w, LittleEndian(n, w) \o rest) = Took(LittleEndian(n, w), rest)
  BY <1>1, TakeBytesBack
<1>3. FromLittleEndian(LittleEndian(n, w)) = n BY NumberBack
<1> QED BY <1>2, <1>3, Once DEF TakeNumber, Convert, OrError, Bind, Took

LEMMA TakeU8Back ==
  ASSUME NEW n \in Bytes, NEW rest \in Blob
  PROVE  TakeU8(<<n>> \o rest) = Took(n, rest)
<1>1. <<n>> \in Blob /\ Len(<<n>>) = 1 BY DEF Blob
<1>2. PICK from \in [1..1 + 1 -> Nat] :
        /\ from[1 + 1] = 0
        /\ \A i \in 1..1 : from[i] = <<n>>[i] + ByteBase * from[i + 1]
        /\ FromLittleEndian(<<n>>) = from[1]
  BY <1>1, FromIs
<1>3. from[1] = n + ByteBase * 0 BY <1>2
<1>4. n + ByteBase * 0 = n BY CodecAssumption DEF Bytes
<1>5. FromLittleEndian(<<n>>) = n BY <1>2, <1>3, <1>4
<1>6. TakeBytes(1, <<n>> \o rest) = Took(<<n>>, rest) BY <1>1, TakeBytesBack
<1> QED BY <1>5, <1>6, Once DEF TakeU8, TakeNumber, Convert, OrError, Bind, Took

(* The length of a frame is written as a U32, so all that is in it is      *)
(* shorter than this.                                                      *)
Limit == Power(ByteBase, U32)

LEMMA Widths ==
  /\ U16 \in Nat \ {0} /\ U32 \in Nat \ {0} /\ U64 \in Nat \ {0} /\ U128 \in Nat \ {0}
  /\ ByteBase \in Nat /\ Limit \in Nat
BY CodecAssumption, PowerIs DEF Limit

LEMMA PushStringBytes ==
  ASSUME NEW text \in Blob
  PROVE  /\ PushString(text) \in Blob /\ Len(text) \in Nat
         /\ Len(text) <= Len(PushString(text))
<1>1. Len(text) \in Nat BY DEF Blob
<1>2. LittleEndian(Len(text), U32) \in Blob /\ Len(LittleEndian(Len(text), U32)) = U32
  BY <1>1, Widths, LittleEndianBytes
<1>3. PICK head \in Blob : head = LittleEndian(Len(text), U32) BY <1>2
<1>4. head \o text \in Blob /\ Len(head \o text) = Len(head) + Len(text)
  BY ConcatProperties DEF Blob
<1> QED BY <1>1, <1>2, <1>3, <1>4, Widths DEF PushString

LEMMA BlobIs ==
  ASSUME NEW input, NEW n, NEW after, NEW text, NEW rest,
         TakeU32(input) = Took(n, after), TakeBytes(n, after) = Took(text, rest)
  PROVE  TakeBlob(input) = Took(text, rest)
BY Once DEF TakeBlob, OrError, Bind, Took

LEMMA TakeBlobBack ==
  ASSUME NEW text \in Blob, Len(PushString(text)) < Limit, NEW rest \in Blob
  PROVE  TakeBlob(PushString(text) \o rest) = Took(text, rest)
<1>1. Len(text) \in Nat /\ Len(text) < Limit
  <2>1. Len(PushString(text)) \in Nat BY PushStringBytes DEF Blob
  <2> QED BY <2>1, PushStringBytes, Widths
<1> DEFINE head == LittleEndian(Len(text), U32)
<1>2. head \in Blob BY <1>1, Widths, LittleEndianBytes
<1>3. text \o rest \in Blob BY ConcatProperties DEF Blob
<1>4. TakeU32(head \o (text \o rest)) = Took(Len(text), text \o rest)
  BY <1>1, <1>3, Widths, TakeNumberBack DEF TakeU32, Limit
<1>5. PushString(text) \o rest = head \o (text \o rest)
  BY <1>2, ConcatAssociative DEF PushString, Blob
<1>6. TakeBytes(Len(text), text \o rest) = Took(text, rest) BY TakeBytesBack
<1> QED BY <1>4, <1>5, <1>6, BlobIs

LEMMA TakeStringBack ==
  ASSUME NEW text \in String, Len(PushString(text)) < Limit, NEW rest \in Blob
  PROVE  TakeString(PushString(text) \o rest) = Took(text, rest)
<1>1. text \in Blob /\ Utf8(text) BY DEF String
<1>2. TakeBlob(PushString(text) \o rest) = Took(text, rest) BY <1>1, TakeBlobBack
<1> QED BY <1>1, <1>2, Once DEF TakeString, Check, OrError, Bind, Took

LEMMA CodeIs ==
  /\ \A kind \in ToSet(ValueKinds) :
       /\ Code(ValueKinds, kind) \in DOMAIN ValueKinds /\ Code(ValueKinds, kind) \in Bytes
       /\ ValueKinds[Code(ValueKinds, kind)] = kind
  /\ \A kind \in ToSet(CallsiteKinds) :
       /\ Code(CallsiteKinds, kind) \in DOMAIN CallsiteKinds /\ Code(CallsiteKinds, kind) \in Bytes
       /\ CallsiteKinds[Code(CallsiteKinds, kind)] = kind
<1>1. \A i \in DOMAIN ValueKinds : i \in Bytes
  <2>1. DOMAIN ValueKinds = 1..10 BY DEF ValueKinds
  <2> QED BY <2>1, CodecAssumption DEF Bytes
<1>2. \A i \in DOMAIN CallsiteKinds : i \in Bytes
  <2>1. DOMAIN CallsiteKinds = 1..2 BY DEF CallsiteKinds
  <2> QED BY <2>1, CodecAssumption DEF Bytes
<1>3. ASSUME NEW kinds, NEW kind \in ToSet(kinds)
      PROVE  Code(kinds, kind) \in DOMAIN kinds /\ kinds[Code(kinds, kind)] = kind
  <2>1. \E i \in DOMAIN kinds : kinds[i] = kind BY DEF ToSet
  <2> QED BY <2>1 DEF Code
<1> QED BY <1>1, <1>2, <1>3

Contents(value) ==
  IF value.kind \in {"str", "debug", "bytes"} THEN PushString(value.bytes) ELSE value.bytes

LEMMA PushValueBytes ==
  ASSUME NEW value \in Value
  PROVE  /\ PushValue(value) = <<Code(ValueKinds, value.kind)>> \o Contents(value)
         /\ PushValue(value) \in Blob /\ Contents(value) \in Blob
         /\ Len(Contents(value)) \in Nat /\ Len(Contents(value)) <= Len(PushValue(value))
<1>1. value.kind \in ToSet(ValueKinds) /\ value.bytes \in Blob BY DEF Value
<1>2. <<Code(ValueKinds, value.kind)>> \in Blob /\ Len(<<Code(ValueKinds, value.kind)>>) = 1
  BY <1>1, CodeIs DEF Blob
<1>3. Contents(value) \in Blob BY <1>1, PushStringBytes DEF Contents
<1>4. PICK code \in Blob : code = <<Code(ValueKinds, value.kind)>> BY <1>2
<1>5. PICK bytes \in Blob : bytes = Contents(value) BY <1>3
<1>6. code \o bytes \in Blob /\ Len(code \o bytes) = Len(code) + Len(bytes)
  BY ConcatProperties DEF Blob
<1>7. Len(bytes) \in Nat BY DEF Blob
<1>8. PushValue(value) = code \o bytes BY <1>4, <1>5 DEF PushValue, Contents
<1> QED BY <1>2, <1>4, <1>5, <1>6, <1>7, <1>8

LEMMA ValueIs ==
  ASSUME NEW input, NEW code \in DOMAIN ValueKinds, NEW kind, kind = ValueKinds[code],
         NEW after, NEW bytes, NEW rest,
         TakeU8(input) = Took(code, after), TakeValueOf(kind, after) = Took(bytes, rest)
  PROVE  TakeValue(input) = Took([kind |-> kind, bytes |-> bytes], rest)
<1>1. Check(TakeU8(input), LAMBDA c : c \in DOMAIN ValueKinds, "InvalidFieldType") = Took(code, after)
  BY Once DEF Check, OrError, Bind, Took
<1> DEFINE Of(c) == Convert(TakeValueOf(ValueKinds[c.value], c.rest),
                            LAMBDA b : [kind |-> ValueKinds[c.value], bytes |-> b])
<1>2. TakeValue(input) =
        OrError(Check(TakeU8(input), LAMBDA c : c \in DOMAIN ValueKinds, "InvalidFieldType"), Of)
  BY DEF TakeValue
<1>3. PICK t : t = Check(TakeU8(input), LAMBDA c : c \in DOMAIN ValueKinds, "InvalidFieldType")
  OBVIOUS
<1>4. t.error = None /\ t.value = code /\ t.rest = after BY <1>1, <1>3 DEF Took
<1>5. Of(t) = Took([kind |-> kind, bytes |-> bytes], rest)
  BY <1>4, Once DEF Convert, OrError, Bind, Took
<1> HIDE DEF Of
<1>6. OrError(t, Of) = Of(t) BY <1>4, Once DEF OrError, Bind
<1> QED BY <1>2, <1>3, <1>5, <1>6

LEMMA TakeValueBack ==
  ASSUME NEW value \in Value, Len(PushValue(value)) < Limit, NEW rest \in Blob
  PROVE  TakeValue(PushValue(value) \o rest) = Took(value, rest)
<1>1. PICK kind, content : kind = value.kind /\ content = value.bytes OBVIOUS
<1>2. /\ kind \in ToSet(ValueKinds) /\ content \in Blob /\ content \in Content(kind)
      /\ value = [kind |-> kind, bytes |-> content]
  BY <1>1 DEF Value
<1>3. PICK code : code = Code(ValueKinds, kind) OBVIOUS
<1>4. code \in DOMAIN ValueKinds /\ code \in Bytes /\ ValueKinds[code] = kind BY <1>2, <1>3, CodeIs
<1>5. PICK head \in Blob, bytes \in Blob :
        /\ head = <<code>> /\ bytes = Contents(value) /\ PushValue(value) = Cat(head, bytes)
  <2>1. <<code>> \in Blob BY <1>4 DEF Blob
  <2>2. Contents(value) \in Blob /\ PushValue(value) = <<code>> \o Contents(value)
    BY <1>1, <1>3, PushValueBytes
  <2> QED BY <2>1, <2>2 DEF Cat
<1>6. PICK input \in Blob : input = Cat(bytes, rest) BY CatJoined
<1>7. Cat(PushValue(value), rest) = Cat(head, input) BY <1>5, <1>6, Regroup
<1>8. TakeU8(Cat(head, input)) = Took(code, input) BY <1>4, <1>5, TakeU8Back DEF Cat
<1>9. Len(bytes) < Limit
  <2>1. Len(bytes) \in Nat /\ Len(bytes) <= Len(PushValue(value)) BY <1>5, CatJoined
  <2>2. Len(PushValue(value)) \in Nat BY PushValueBytes DEF Blob
  <2> QED BY <2>1, <2>2, Widths
<1>10. TakeValueOf(kind, input) = Took(content, rest)
  <2>1. CASE kind \in {"false", "true"}
    <3>1. content = <<>> /\ bytes = <<>> BY <1>1, <1>2, <1>5, <2>1 DEF Content, Contents
    <3>2. input = rest BY <1>6, <3>1, ConcatEmptySeq DEF Cat, Blob
    <3> QED BY <2>1, <3>1, <3>2 DEF TakeValueOf
  <2>2. CASE kind \in {"str", "debug"}
    <3>1. content \in String /\ bytes = PushString(content)
      BY <1>1, <1>2, <1>5, <2>2 DEF Content, Contents
    <3>2. TakeString(Cat(PushString(content), rest)) = Took(content, rest)
      BY <1>9, <3>1, TakeStringBack DEF Cat
    <3> QED BY <1>6, <2>2, <3>1, <3>2 DEF TakeValueOf
  <2>3. CASE kind = "bytes"
    <3>1. bytes = PushString(content) BY <1>1, <1>5, <2>3 DEF Contents
    <3>2. TakeBlob(Cat(PushString(content), rest)) = Took(content, rest)
      BY <1>2, <1>9, <3>1, TakeBlobBack DEF Cat
    <3> QED BY <1>6, <2>3, <3>1, <3>2 DEF TakeValueOf
  <2>4. CASE kind \notin {"false", "true", "str", "debug", "bytes"}
    <3>1. Len(content) = Width(kind) /\ bytes = content
      BY <1>1, <1>2, <1>5, <2>4 DEF Content, Contents
    <3>2. TakeBytes(Width(kind), Cat(content, rest)) = Took(content, rest)
      BY <1>2, <3>1, TakeBytesBack DEF Cat
    <3> QED BY <1>6, <2>4, <3>1, <3>2 DEF TakeValueOf
  <2> QED BY <2>1, <2>2, <2>3, <2>4
<1>11. TakeValue(Cat(head, input)) = Took([kind |-> kind, bytes |-> content], rest)
  BY <1>4, <1>8, <1>10, ValueIs
<1> QED BY <1>2, <1>7, <1>11 DEF Cat

(* One take after another.                                                 *)
ThenString(taken) == Then(taken, TakeString)
ThenValue(taken) == Then(taken, TakeValue)
ThenField(taken) == Then(taken, TakeField)
ThenFields(taken) == Then(taken, TakeFields)
ThenStrings(taken) == Then(taken, TakeStrings)
ThenSpan(taken) == Then(taken, TakeSpan)
ThenSpans(taken) == Then(taken, TakeSpans)
ThenOptionalSpan(taken) == Then(taken, TakeOptionalSpan)
ThenOptionalString(taken) == Then(taken, TakeOptionalString)
ThenOptionalU32(taken) == Then(taken, TakeOptionalU32)
ThenU8(taken) == Then(taken, TakeU8)
ThenU32(taken) == Then(taken, TakeU32)
ThenU64(taken) == Then(taken, TakeU64)
ThenKind(taken) == Then(taken, TakeKind)
ThenLevel(taken) == Then(taken, TakeLevel)

LEMMA ThenBack ==
  /\ \A vals, input, v, rest :
       TakeString(input) = Took(v, rest) => ThenString(Took(vals, input)) = Took(Append(vals, v), rest)
  /\ \A vals, input, v, rest :
       TakeValue(input) = Took(v, rest) => ThenValue(Took(vals, input)) = Took(Append(vals, v), rest)
  /\ \A vals, input, v, rest :
       TakeField(input) = Took(v, rest) => ThenField(Took(vals, input)) = Took(Append(vals, v), rest)
  /\ \A vals, input, v, rest :
       TakeFields(input) = Took(v, rest) => ThenFields(Took(vals, input)) = Took(Append(vals, v), rest)
  /\ \A vals, input, v, rest :
       TakeStrings(input) = Took(v, rest) => ThenStrings(Took(vals, input)) = Took(Append(vals, v), rest)
  /\ \A vals, input, v, rest :
       TakeSpan(input) = Took(v, rest) => ThenSpan(Took(vals, input)) = Took(Append(vals, v), rest)
  /\ \A vals, input, v, rest :
       TakeSpans(input) = Took(v, rest) => ThenSpans(Took(vals, input)) = Took(Append(vals, v), rest)
  /\ \A vals, input, v, rest :
       TakeOptionalSpan(input) = Took(v, rest) => ThenOptionalSpan(Took(vals, input)) = Took(Append(vals, v), rest)
  /\ \A vals, input, v, rest :
       TakeOptionalString(input) = Took(v, rest) => ThenOptionalString(Took(vals, input)) = Took(Append(vals, v), rest)
  /\ \A vals, input, v, rest :
       TakeOptionalU32(input) = Took(v, rest) => ThenOptionalU32(Took(vals, input)) = Took(Append(vals, v), rest)
  /\ \A vals, input, v, rest :
       TakeU8(input) = Took(v, rest) => ThenU8(Took(vals, input)) = Took(Append(vals, v), rest)
  /\ \A vals, input, v, rest :
       TakeU32(input) = Took(v, rest) => ThenU32(Took(vals, input)) = Took(Append(vals, v), rest)
  /\ \A vals, input, v, rest :
       TakeU64(input) = Took(v, rest) => ThenU64(Took(vals, input)) = Took(Append(vals, v), rest)
  /\ \A vals, input, v, rest :
       TakeKind(input) = Took(v, rest) => ThenKind(Took(vals, input)) = Took(Append(vals, v), rest)
  /\ \A vals, input, v, rest :
       TakeLevel(input) = Took(v, rest) => ThenLevel(Took(vals, input)) = Took(Append(vals, v), rest)
<1>1. ASSUME NEW vals, NEW input, NEW v, NEW rest, TakeString(input) = Took(v, rest)
      PROVE  ThenString(Took(vals, input)) = Took(Append(vals, v), rest)
  BY <1>1, Once DEF ThenString, Then, Convert, OrError, Bind, Took
<1>2. ASSUME NEW vals, NEW input, NEW v, NEW rest, TakeValue(input) = Took(v, rest)
      PROVE  ThenValue(Took(vals, input)) = Took(Append(vals, v), rest)
  BY <1>2, Once DEF ThenValue, Then, Convert, OrError, Bind, Took
<1>3. ASSUME NEW vals, NEW input, NEW v, NEW rest, TakeField(input) = Took(v, rest)
      PROVE  ThenField(Took(vals, input)) = Took(Append(vals, v), rest)
  BY <1>3, Once DEF ThenField, Then, Convert, OrError, Bind, Took
<1>4. ASSUME NEW vals, NEW input, NEW v, NEW rest, TakeFields(input) = Took(v, rest)
      PROVE  ThenFields(Took(vals, input)) = Took(Append(vals, v), rest)
  BY <1>4, Once DEF ThenFields, Then, Convert, OrError, Bind, Took
<1>5. ASSUME NEW vals, NEW input, NEW v, NEW rest, TakeStrings(input) = Took(v, rest)
      PROVE  ThenStrings(Took(vals, input)) = Took(Append(vals, v), rest)
  BY <1>5, Once DEF ThenStrings, Then, Convert, OrError, Bind, Took
<1>6. ASSUME NEW vals, NEW input, NEW v, NEW rest, TakeSpan(input) = Took(v, rest)
      PROVE  ThenSpan(Took(vals, input)) = Took(Append(vals, v), rest)
  BY <1>6, Once DEF ThenSpan, Then, Convert, OrError, Bind, Took
<1>7. ASSUME NEW vals, NEW input, NEW v, NEW rest, TakeSpans(input) = Took(v, rest)
      PROVE  ThenSpans(Took(vals, input)) = Took(Append(vals, v), rest)
  BY <1>7, Once DEF ThenSpans, Then, Convert, OrError, Bind, Took
<1>8. ASSUME NEW vals, NEW input, NEW v, NEW rest, TakeOptionalSpan(input) = Took(v, rest)
      PROVE  ThenOptionalSpan(Took(vals, input)) = Took(Append(vals, v), rest)
  BY <1>8, Once DEF ThenOptionalSpan, Then, Convert, OrError, Bind, Took
<1>9. ASSUME NEW vals, NEW input, NEW v, NEW rest, TakeOptionalString(input) = Took(v, rest)
      PROVE  ThenOptionalString(Took(vals, input)) = Took(Append(vals, v), rest)
  BY <1>9, Once DEF ThenOptionalString, Then, Convert, OrError, Bind, Took
<1>10. ASSUME NEW vals, NEW input, NEW v, NEW rest, TakeOptionalU32(input) = Took(v, rest)
      PROVE  ThenOptionalU32(Took(vals, input)) = Took(Append(vals, v), rest)
  BY <1>10, Once DEF ThenOptionalU32, Then, Convert, OrError, Bind, Took
<1>11. ASSUME NEW vals, NEW input, NEW v, NEW rest, TakeU8(input) = Took(v, rest)
      PROVE  ThenU8(Took(vals, input)) = Took(Append(vals, v), rest)
  BY <1>11, Once DEF ThenU8, Then, Convert, OrError, Bind, Took
<1>12. ASSUME NEW vals, NEW input, NEW v, NEW rest, TakeU32(input) = Took(v, rest)
      PROVE  ThenU32(Took(vals, input)) = Took(Append(vals, v), rest)
  BY <1>12, Once DEF ThenU32, Then, Convert, OrError, Bind, Took
<1>13. ASSUME NEW vals, NEW input, NEW v, NEW rest, TakeU64(input) = Took(v, rest)
      PROVE  ThenU64(Took(vals, input)) = Took(Append(vals, v), rest)
  BY <1>13, Once DEF ThenU64, Then, Convert, OrError, Bind, Took
<1>14. ASSUME NEW vals, NEW input, NEW v, NEW rest, TakeKind(input) = Took(v, rest)
      PROVE  ThenKind(Took(vals, input)) = Took(Append(vals, v), rest)
  BY <1>14, Once DEF ThenKind, Then, Convert, OrError, Bind, Took
<1>15. ASSUME NEW vals, NEW input, NEW v, NEW rest, TakeLevel(input) = Took(v, rest)
      PROVE  ThenLevel(Took(vals, input)) = Took(Append(vals, v), rest)
  BY <1>15, Once DEF ThenLevel, Then, Convert, OrError, Bind, Took
<1> QED BY <1>1, <1>2, <1>3, <1>4, <1>5, <1>6, <1>7, <1>8,
           <1>9, <1>10, <1>11, <1>12, <1>13, <1>14, <1>15

(* The values that have been taken.                                        *)
LEMMA AppendIs ==
  ASSUME NEW S, NEW vals \in Seq(S), NEW x \in S, NEW longer \in Seq(S),
         Len(longer) = Len(vals) + 1, longer[Len(vals) + 1] = x,
         \A i \in 1..Len(vals) : longer[i] = vals[i]
  PROVE  Append(vals, x) = longer
<1>1. PICK p \in Seq(S) : p = Append(vals, x) OBVIOUS
<1>2. Len(p) = Len(vals) + 1 /\ \A i \in 1..Len(p) : p[i] = longer[i]  BY <1>1, AppendProperties
<1>3. p = longer BY <1>2, SeqEqual
<1> QED BY <1>3, <1>1

LEMMA Longer ==
  /\ \A a : Append(<<>>, a) = <<a>>
  /\ \A a, b : Append(<<a>>, b) = <<a, b>>
  /\ \A a, b, c : Append(<<a, b>>, c) = <<a, b, c>>
  /\ \A a, b, c, d : Append(<<a, b, c>>, d) = <<a, b, c, d>>
  /\ \A a, b, c, d, e : Append(<<a, b, c, d>>, e) = <<a, b, c, d, e>>
  /\ \A a, b, c, d, e, f : Append(<<a, b, c, d, e>>, f) = <<a, b, c, d, e, f>>
  /\ \A a, b, c, d, e, f, g : Append(<<a, b, c, d, e, f>>, g) = <<a, b, c, d, e, f, g>>
  /\ \A a, b, c, d, e, f, g, h : Append(<<a, b, c, d, e, f, g>>, h) = <<a, b, c, d, e, f, g, h>>
  /\ \A a, b, c, d, e, f, g, h, i : Append(<<a, b, c, d, e, f, g, h>>, i) = <<a, b, c, d, e, f, g, h, i>>
<1>1. \A a : Append(<<>>, a) = <<a>> OBVIOUS
<1>2. ASSUME NEW a, NEW b PROVE Append(<<a>>, b) = <<a, b>>
  <2>1. PICK S : a \in S /\ b \in S
    <3>1. PICK S : S = {a, b} OBVIOUS
    <3> QED BY <3>1
  <2>2. <<a>> \in Seq(S) /\ <<a, b>> \in Seq(S) BY <2>1
  <2>3. PICK s, t : s = <<a>> /\ t = <<a, b>> OBVIOUS
  <2>4. Len(s) + 1 = Len(t) /\ t[Len(s) + 1] = b /\ \A j \in 1..Len(s) : t[j] = s[j] BY <2>3
  <2>5. Append(s, b) = t
    <3>1. s \in Seq(S) /\ t \in Seq(S) BY <2>2, <2>3
    <3> QED BY <2>1, <2>4, <3>1, AppendIs
  <2> QED BY <2>3, <2>5
<1>3. ASSUME NEW a, NEW b, NEW c PROVE Append(<<a, b>>, c) = <<a, b, c>>
  <2>1. PICK S : a \in S /\ b \in S /\ c \in S
    <3>1. PICK S : S = {a, b, c} OBVIOUS
    <3> QED BY <3>1
  <2>2. <<a, b>> \in Seq(S) /\ <<a, b, c>> \in Seq(S) BY <2>1
  <2>3. PICK s, t : s = <<a, b>> /\ t = <<a, b, c>> OBVIOUS
  <2>4. Len(s) + 1 = Len(t) /\ t[Len(s) + 1] = c /\ \A j \in 1..Len(s) : t[j] = s[j] BY <2>3
  <2>5. Append(s, c) = t
    <3>1. s \in Seq(S) /\ t \in Seq(S) BY <2>2, <2>3
    <3> QED BY <2>1, <2>4, <3>1, AppendIs
  <2> QED BY <2>3, <2>5
<1>4. ASSUME NEW a, NEW b, NEW c, NEW d PROVE Append(<<a, b, c>>, d) = <<a, b, c, d>>
  <2>1. PICK S : a \in S /\ b \in S /\ c \in S /\ d \in S
    <3>1. PICK S : S = {a, b, c, d} OBVIOUS
    <3> QED BY <3>1
  <2>2. <<a, b, c>> \in Seq(S) /\ <<a, b, c, d>> \in Seq(S) BY <2>1
  <2>3. PICK s, t : s = <<a, b, c>> /\ t = <<a, b, c, d>> OBVIOUS
  <2>4. Len(s) + 1 = Len(t) /\ t[Len(s) + 1] = d /\ \A j \in 1..Len(s) : t[j] = s[j] BY <2>3
  <2>5. Append(s, d) = t
    <3>1. s \in Seq(S) /\ t \in Seq(S) BY <2>2, <2>3
    <3> QED BY <2>1, <2>4, <3>1, AppendIs
  <2> QED BY <2>3, <2>5
<1>5. ASSUME NEW a, NEW b, NEW c, NEW d, NEW e PROVE Append(<<a, b, c, d>>, e) = <<a, b, c, d, e>>
  <2>1. PICK S : a \in S /\ b \in S /\ c \in S /\ d \in S /\ e \in S
    <3>1. PICK S : S = {a, b, c, d, e} OBVIOUS
    <3> QED BY <3>1
  <2>2. <<a, b, c, d>> \in Seq(S) /\ <<a, b, c, d, e>> \in Seq(S) BY <2>1
  <2>3. PICK s, t : s = <<a, b, c, d>> /\ t = <<a, b, c, d, e>> OBVIOUS
  <2>4. Len(s) + 1 = Len(t) /\ t[Len(s) + 1] = e /\ \A j \in 1..Len(s) : t[j] = s[j] BY <2>3
  <2>5. Append(s, e) = t
    <3>1. s \in Seq(S) /\ t \in Seq(S) BY <2>2, <2>3
    <3> QED BY <2>1, <2>4, <3>1, AppendIs
  <2> QED BY <2>3, <2>5
<1>6. ASSUME NEW a, NEW b, NEW c, NEW d, NEW e, NEW f PROVE Append(<<a, b, c, d, e>>, f) = <<a, b, c, d, e, f>>
  <2>1. PICK S : a \in S /\ b \in S /\ c \in S /\ d \in S /\ e \in S /\ f \in S
    <3>1. PICK S : S = {a, b, c, d, e, f} OBVIOUS
    <3> QED BY <3>1
  <2>2. <<a, b, c, d, e>> \in Seq(S) /\ <<a, b, c, d, e, f>> \in Seq(S) BY <2>1
  <2>3. PICK s, t : s = <<a, b, c, d, e>> /\ t = <<a, b, c, d, e, f>> OBVIOUS
  <2>4. Len(s) + 1 = Len(t) /\ t[Len(s) + 1] = f /\ \A j \in 1..Len(s) : t[j] = s[j] BY <2>3
  <2>5. Append(s, f) = t
    <3>1. s \in Seq(S) /\ t \in Seq(S) BY <2>2, <2>3
    <3> QED BY <2>1, <2>4, <3>1, AppendIs
  <2> QED BY <2>3, <2>5
<1>7. ASSUME NEW a, NEW b, NEW c, NEW d, NEW e, NEW f, NEW g PROVE Append(<<a, b, c, d, e, f>>, g) = <<a, b, c, d, e, f, g>>
  <2>1. PICK S : a \in S /\ b \in S /\ c \in S /\ d \in S /\ e \in S /\ f \in S /\ g \in S
    <3>1. PICK S : S = {a, b, c, d, e, f, g} OBVIOUS
    <3> QED BY <3>1
  <2>2. <<a, b, c, d, e, f>> \in Seq(S) /\ <<a, b, c, d, e, f, g>> \in Seq(S) BY <2>1
  <2>3. PICK s, t : s = <<a, b, c, d, e, f>> /\ t = <<a, b, c, d, e, f, g>> OBVIOUS
  <2>4. Len(s) + 1 = Len(t) /\ t[Len(s) + 1] = g /\ \A j \in 1..Len(s) : t[j] = s[j] BY <2>3
  <2>5. Append(s, g) = t
    <3>1. s \in Seq(S) /\ t \in Seq(S) BY <2>2, <2>3
    <3> QED BY <2>1, <2>4, <3>1, AppendIs
  <2> QED BY <2>3, <2>5
<1>8. ASSUME NEW a, NEW b, NEW c, NEW d, NEW e, NEW f, NEW g, NEW h PROVE Append(<<a, b, c, d, e, f, g>>, h) = <<a, b, c, d, e, f, g, h>>
  <2>1. PICK S : a \in S /\ b \in S /\ c \in S /\ d \in S /\ e \in S /\ f \in S /\ g \in S /\ h \in S
    <3>1. PICK S : S = {a, b, c, d, e, f, g, h} OBVIOUS
    <3> QED BY <3>1
  <2>2. <<a, b, c, d, e, f, g>> \in Seq(S) /\ <<a, b, c, d, e, f, g, h>> \in Seq(S) BY <2>1
  <2>3. PICK s, t : s = <<a, b, c, d, e, f, g>> /\ t = <<a, b, c, d, e, f, g, h>> OBVIOUS
  <2>4. Len(s) + 1 = Len(t) /\ t[Len(s) + 1] = h /\ \A j \in 1..Len(s) : t[j] = s[j] BY <2>3
  <2>5. Append(s, h) = t
    <3>1. s \in Seq(S) /\ t \in Seq(S) BY <2>2, <2>3
    <3> QED BY <2>1, <2>4, <3>1, AppendIs
  <2> QED BY <2>3, <2>5
<1>9. ASSUME NEW a, NEW b, NEW c, NEW d, NEW e, NEW f, NEW g, NEW h, NEW i PROVE Append(<<a, b, c, d, e, f, g, h>>, i) = <<a, b, c, d, e, f, g, h, i>>
  <2>1. PICK S : a \in S /\ b \in S /\ c \in S /\ d \in S /\ e \in S /\ f \in S /\ g \in S /\ h \in S /\ i \in S
    <3>1. PICK S : S = {a, b, c, d, e, f, g, h, i} OBVIOUS
    <3> QED BY <3>1
  <2>2. <<a, b, c, d, e, f, g, h>> \in Seq(S) /\ <<a, b, c, d, e, f, g, h, i>> \in Seq(S) BY <2>1
  <2>3. PICK s, t : s = <<a, b, c, d, e, f, g, h>> /\ t = <<a, b, c, d, e, f, g, h, i>> OBVIOUS
  <2>4. Len(s) + 1 = Len(t) /\ t[Len(s) + 1] = i /\ \A j \in 1..Len(s) : t[j] = s[j] BY <2>3
  <2>5. Append(s, i) = t
    <3>1. s \in Seq(S) /\ t \in Seq(S) BY <2>2, <2>3
    <3> QED BY <2>1, <2>4, <3>1, AppendIs
  <2> QED BY <2>3, <2>5
<1> QED BY <1>1, <1>2, <1>3, <1>4, <1>5, <1>6, <1>7, <1>8, <1>9
LEMMA FirstBack ==
  /\ \A input, v, rest :
       TakeString(input) = Took(v, rest) => ThenString(Took(<<>>, input)) = Took(<<v>>, rest)
  /\ \A input, v, rest :
       TakeU8(input) = Took(v, rest) => ThenU8(Took(<<>>, input)) = Took(<<v>>, rest)
  /\ \A input, v, rest :
       TakeU32(input) = Took(v, rest) => ThenU32(Took(<<>>, input)) = Took(<<v>>, rest)
  /\ \A input, v, rest :
       TakeU64(input) = Took(v, rest) => ThenU64(Took(<<>>, input)) = Took(<<v>>, rest)
<1>1. PICK vals : vals = <<>> OBVIOUS
<1>2. \A v : Append(vals, v) = <<v>> BY <1>1, Longer
<1>3. ASSUME NEW input, NEW v, NEW rest, TakeString(input) = Took(v, rest)
      PROVE  ThenString(Took(<<>>, input)) = Took(<<v>>, rest)
  <2>1. ThenString(Took(vals, input)) = Took(Append(vals, v), rest) BY <1>3, ThenBack
  <2> QED BY <1>1, <1>2, <2>1
<1>4. ASSUME NEW input, NEW v, NEW rest, TakeU8(input) = Took(v, rest)
      PROVE  ThenU8(Took(<<>>, input)) = Took(<<v>>, rest)
  <2>1. ThenU8(Took(vals, input)) = Took(Append(vals, v), rest) BY <1>4, ThenBack
  <2> QED BY <1>1, <1>2, <2>1
<1>5. ASSUME NEW input, NEW v, NEW rest, TakeU32(input) = Took(v, rest)
      PROVE  ThenU32(Took(<<>>, input)) = Took(<<v>>, rest)
  <2>1. ThenU32(Took(vals, input)) = Took(Append(vals, v), rest) BY <1>5, ThenBack
  <2> QED BY <1>1, <1>2, <2>1
<1>6. ASSUME NEW input, NEW v, NEW rest, TakeU64(input) = Took(v, rest)
      PROVE  ThenU64(Took(<<>>, input)) = Took(<<v>>, rest)
  <2>1. ThenU64(Took(vals, input)) = Took(Append(vals, v), rest) BY <1>6, ThenBack
  <2> QED BY <1>1, <1>2, <2>1
<1> QED BY <1>3, <1>4, <1>5, <1>6

LEMMA Beginnings ==
  ASSUME NEW S, NEW elements \in Seq(S)
  PROVE  /\ SubSeq(elements, 1, 0) = <<>> /\ SubSeq(elements, 1, Len(elements)) = elements
         /\ \A i \in 1..Len(elements) :
              Append(SubSeq(elements, 1, i - 1), elements[i]) = SubSeq(elements, 1, i)
<1>1. SubSeq(elements, 1, 0) = <<>> /\ SubSeq(elements, 1, Len(elements)) = elements
  BY SubSeqEmpty, SubSeqFull
<1>2. ASSUME NEW i \in 1..Len(elements)
      PROVE  Append(SubSeq(elements, 1, i - 1), elements[i]) = SubSeq(elements, 1, i)
  <2>1. 1 \in 1..Len(elements) /\ i \in 1..Len(elements) /\ i \in Int /\ i - 1 \in Int OBVIOUS
  <2>2. SubSeq(elements, 1, i) = SubSeq(elements, 1, i - 1) \o <<elements[i]>>
    BY <2>1, SubSeqRecursiveSecond
  <2>3. \A j \in 1..i - 1 : elements[j] \in S OBVIOUS
  <2>4. SubSeq(elements, 1, i - 1) \in Seq(S) /\ elements[i] \in S
    BY <2>1, <2>3, SubSeqProperties
  <2> QED BY <2>2, <2>4, AppendIsConcat
<1> QED BY <1>1, <1>2

LEMMA PushFieldBytes ==
  ASSUME NEW field \in Field
  PROVE  /\ PushField(field) \in Blob
         /\ Len(PushString(field.name)) <= Len(PushField(field))
         /\ Len(PushValue(field.value)) <= Len(PushField(field))
<1>1. field.name \in Blob /\ field.value \in Value BY DEF Field, String
<1>2. PICK name \in Blob : name = PushString(field.name) BY <1>1, PushStringBytes
<1>3. PICK value \in Blob : value = PushValue(field.value) BY <1>1, PushValueBytes
<1>4. name \o value \in Blob /\ Len(name \o value) = Len(name) + Len(value)
  BY ConcatProperties DEF Blob
<1>5. Len(name) \in Nat /\ Len(value) \in Nat BY DEF Blob
<1> QED BY <1>2, <1>3, <1>4, <1>5 DEF PushField

LEMMA TakeFieldBack ==
  ASSUME NEW field \in Field, Len(PushField(field)) < Limit, NEW rest \in Blob
  PROVE  TakeField(PushField(field) \o rest) = Took(field, rest)
<1>1. PICK name \in String, value \in Value :
        name = field.name /\ value = field.value /\ field = [name |-> name, value |-> value]
  BY DEF Field
<1>2. PICK a \in Blob, b \in Blob : a = PushString(name) /\ b = PushValue(value)
  BY PushStringBytes, PushValueBytes DEF String
<1>3. PushField(field) = Cat(a, b) BY <1>1, <1>2 DEF PushField, Cat
<1>4. PICK t1 \in Blob, input \in Blob : t1 = Cat(b, rest) /\ input = Cat(a, t1) BY CatJoined
<1>5. Cat(PushField(field), rest) = input BY <1>3, <1>4, Regroup
<1>6. Len(a) < Limit /\ Len(b) < Limit
  <2>1. /\ Len(a) <= Len(Cat(a, b)) /\ Len(b) <= Len(Cat(a, b)) /\ Len(a) \in Nat /\ Len(b) \in Nat
        /\ Cat(a, b) \in Blob
    BY CatJoined
  <2>2. Len(Cat(a, b)) \in Nat BY <2>1 DEF Blob
  <2> QED BY <1>3, <2>1, <2>2, Widths
<1>7. TakeString(input) = Took(name, t1) BY <1>2, <1>4, <1>6, TakeStringBack DEF Cat
<1>8. TakeValue(t1) = Took(value, rest) BY <1>2, <1>4, <1>6, TakeValueBack DEF Cat
<1> DEFINE s1 == ThenString(Took(<<>>, input))
           s2 == ThenValue(s1)
           Build(v) == [name |-> v[1], value |-> v[2]]
<1>9. s1 = Took(<<name>>, t1) BY <1>7, FirstBack
<1>10. TakeField(input) = Convert(s2, Build) BY DEF TakeField, ThenString, ThenValue
<1> HIDE DEF s1
<1>11. s2 = Took(<<name, value>>, rest)
  <2>1. s2 = Took(Append(<<name>>, value), rest) BY <1>8, <1>9, ThenBack
  <2> QED BY <2>1, Longer
<1> HIDE DEF s2
<1>12. Build(<<name, value>>) = field BY <1>1
<1> HIDE DEF Build
<1>13. Convert(s2, Build) = Took(Build(<<name, value>>), rest)
  BY <1>11, Once DEF Convert, OrError, Bind, Took
<1> QED BY <1>5, <1>10, <1>12, <1>13 DEF Cat

-----------------------------------------------------------------------------
(* Lists.                                                                  *)

(* What is left to read before and after each element.                     *)
Inputs(inputs, seqs, input, rest) ==
  /\ inputs \in [0..Len(seqs) -> Blob]
  /\ inputs[0] = input
  /\ inputs[Len(seqs)] = rest
  /\ \A i \in 1..Len(seqs) : inputs[i - 1] = Cat(seqs[i], inputs[i]) /\ Len(seqs[i]) < Limit

LEMMA InputsExist ==
  ASSUME NEW seqs \in Seq(Blob), NEW rest \in Blob, Len(FlattenSeq(seqs)) < Limit
  PROVE  \E inputs : Inputs(inputs, seqs, Cat(FlattenSeq(seqs), rest), rest)
<1>1. PICK n \in Nat : n = Len(seqs) /\ \A i \in 1..n : seqs[i] \in Blob OBVIOUS
<1>2. PICK after \in [0..n -> Blob] :
        /\ after[0] = FlattenSeq(seqs)
        /\ after[n] = <<>>
        /\ \A i \in 1..n : after[i - 1] = Cat(seqs[i], after[i])
  BY <1>1, FlattenSplit DEF Cat
<1> DEFINE inputs == [i \in 0..n |-> Cat(after[i], rest)]
           P == {i \in 0..n : Len(after[i]) < Limit}
<1>3. 0 \in 0..n /\ n \in 0..n BY <1>1
<1>4. 0..n \subseteq P
  <2>1. 0 \in P BY <1>2, <1>3
  <2>2. ASSUME NEW i \in 0..n, i # n, i \in P PROVE i + 1 \in P
    <3>1. PICK k \in 1..n : k = i + 1 /\ k - 1 = i /\ k \in 0..n BY <1>1, <2>2
    <3>2. after[i] = Cat(seqs[k], after[k]) BY <1>2, <3>1
    <3>3. after[k] \in Blob /\ seqs[k] \in Blob /\ after[i] \in Blob BY <1>1, <1>2, <3>1
    <3>4. Len(after[k]) <= Len(after[i]) /\ Len(after[k]) \in Nat BY <3>2, <3>3, CatJoined
    <3>5. Len(after[i]) \in Nat BY <3>3 DEF Blob
    <3>6. Len(after[k]) < Limit BY <2>2, <3>4, <3>5, Widths
    <3> QED BY <3>1, <3>6
  <2> HIDE DEF P
  <2>3. 0 \in Nat OBVIOUS
  <2> QED BY <1>1, <2>1, <2>2, <2>3, Induct
<1>5. inputs \in [0..n -> Blob] BY <1>2, CatJoined
<1>6. inputs[0] = Cat(FlattenSeq(seqs), rest) BY <1>2, <1>3
<1>7. inputs[n] = rest
  <2>1. inputs[n] = Cat(<<>>, rest) BY <1>2, <1>3
  <2>2. Cat(<<>>, rest) = rest BY ConcatEmptySeq DEF Cat, Blob
  <2> QED BY <2>1, <2>2
<1>8. ASSUME NEW i \in 1..n PROVE inputs[i - 1] = Cat(seqs[i], inputs[i]) /\ Len(seqs[i]) < Limit
  <2>1. i \in 0..n /\ i - 1 \in 0..n BY <1>1
  <2>2. inputs[i - 1] = Cat(after[i - 1], rest) /\ inputs[i] = Cat(after[i], rest) BY <2>1
  <2>3. after[i - 1] = Cat(seqs[i], after[i]) BY <1>2
  <2>4. seqs[i] \in Blob /\ after[i] \in Blob /\ after[i - 1] \in Blob BY <1>1, <1>2, <2>1
  <2>5. Cat(Cat(seqs[i], after[i]), rest) = Cat(seqs[i], Cat(after[i], rest)) BY <2>4, Regroup
  <2>6. Len(seqs[i]) \in Nat /\ Len(seqs[i]) <= Len(after[i - 1]) BY <2>3, <2>4, CatJoined
  <2>7. Len(after[i - 1]) < Limit /\ Len(after[i - 1]) \in Nat BY <1>4, <2>1, <2>4 DEF Blob
  <2>8. Len(seqs[i]) < Limit BY <2>6, <2>7, Widths
  <2> HIDE DEF inputs
  <2> QED BY <2>2, <2>3, <2>5, <2>8
<1> HIDE DEF inputs
<1>9. Inputs(inputs, seqs, Cat(FlattenSeq(seqs), rest), rest)
  BY <1>1, <1>5, <1>6, <1>7, <1>8 DEF Inputs
<1> QED BY <1>9

LEMMA Mapped ==
  ASSUME NEW S, NEW T, NEW s \in Seq(S), NEW t, t = [i \in 1..Len(s) |-> t[i]],
         \A i \in 1..Len(s) : t[i] \in T
  PROVE  t \in Seq(T) /\ Len(t) = Len(s)
<1>1. Len(s) \in Nat OBVIOUS
<1>2. t \in [1..Len(s) -> T] OBVIOUS
<1> QED BY <1>1, <1>2

(* Reading the elements one after the other, in terms of what is left.     *)
Collected(elements, inputs) ==
  [i \in 0..Len(elements) |-> Took(SubSeq(elements, 1, i), inputs[i])]

LEMMA CollectedIs ==
  ASSUME NEW S, NEW elements \in Seq(S), NEW inputs
  PROVE  LET c == Collected(elements, inputs)
         IN  /\ c[0] = Took(<<>>, inputs[0])
             /\ c[Len(elements)] = Took(elements, inputs[Len(elements)])
             /\ \A i \in 1..Len(elements) :
                  \E vals : /\ c[i - 1] = Took(vals, inputs[i - 1])
                            /\ c[i] = Took(Append(vals, elements[i]), inputs[i])
<1> DEFINE n == Len(elements)
           c == Collected(elements, inputs)
<1>1. n \in Nat OBVIOUS
<1>2. \A i \in 0..n : c[i] = Took(SubSeq(elements, 1, i), inputs[i]) BY DEF Collected
<1>3. 0 \in 0..n /\ n \in 0..n BY <1>1
<1>4. ASSUME NEW i \in 1..n
      PROVE  \E vals : /\ c[i - 1] = Took(vals, inputs[i - 1])
                       /\ c[i] = Took(Append(vals, elements[i]), inputs[i])
  <2>1. i \in 0..n /\ i - 1 \in 0..n BY <1>1
  <2>2. Append(SubSeq(elements, 1, i - 1), elements[i]) = SubSeq(elements, 1, i) BY Beginnings
  <2> HIDE DEF c
  <2> QED BY <1>2, <2>1, <2>2
<1>5. c[0] = Took(<<>>, inputs[0]) /\ c[n] = Took(elements, inputs[n])
  BY <1>2, <1>3, Beginnings
<1> QED BY <1>4, <1>5

LEMMA ListBytes ==
  ASSUME NEW seqs \in Seq(Blob), NEW n \in Nat
  PROVE  /\ LittleEndian(n, U16) \in Blob
         /\ FlattenSeq(seqs) \in Blob
         /\ LittleEndian(n, U16) \o FlattenSeq(seqs) \in Blob
         /\ Len(FlattenSeq(seqs)) <= Len(LittleEndian(n, U16) \o FlattenSeq(seqs))
<1>1. PICK count \in Blob : count = LittleEndian(n, U16) BY Widths, LittleEndianBytes
<1>2. PICK flat \in Blob : flat = FlattenSeq(seqs) BY FlattenBytes
<1>3. count \o flat \in Blob /\ Len(count \o flat) = Len(count) + Len(flat)
  BY ConcatProperties DEF Blob
<1>4. Len(count) \in Nat /\ Len(flat) \in Nat BY DEF Blob
<1> QED BY <1>1, <1>2, <1>3, <1>4

(* A list is read as its count says.                                       *)
RepeatField(n, input) == Repeat(n, TakeField, input)
RepeatString(n, input) == Repeat(n, TakeString, input)
RepeatSpan(n, input) == Repeat(n, TakeSpan, input)

LEMMA CountBack ==
  ASSUME NEW input, NEW n, NEW rest, TakeNumber(U16, input) = Took(n, rest)
  PROVE  /\ TakeFields(input) = RepeatField(n, rest)
         /\ TakeStrings(input) = RepeatString(n, rest)
         /\ TakeSpans(input) = RepeatSpan(n, rest)
<1> DEFINE Fields(t) == RepeatField(t.value, t.rest)
           Strings(t) == RepeatString(t.value, t.rest)
           Spans(t) == RepeatSpan(t.value, t.rest)
<1>1. /\ TakeFields(input) = OrError(TakeNumber(U16, input), Fields)
      /\ TakeStrings(input) = OrError(TakeNumber(U16, input), Strings)
      /\ TakeSpans(input) = OrError(TakeNumber(U16, input), Spans)
  BY DEF TakeFields, TakeStrings, TakeSpans, TakeAll, RepeatField, RepeatString, RepeatSpan
<1>2. /\ OrError(TakeNumber(U16, input), Fields) = RepeatField(n, rest)
      /\ OrError(TakeNumber(U16, input), Strings) = RepeatString(n, rest)
      /\ OrError(TakeNumber(U16, input), Spans) = RepeatSpan(n, rest)
  BY Once DEF OrError, Bind, Took
<1> QED BY <1>1, <1>2

LEMMA RepeatFieldsBack ==
  ASSUME NEW fields \in Seq(Field), NEW seqs \in Seq(Blob), Len(seqs) = Len(fields),
         \A i \in 1..Len(fields) : seqs[i] = PushField(fields[i]),
         NEW inputs, NEW input, NEW rest, Inputs(inputs, seqs, input, rest)
  PROVE  RepeatField(Len(fields), input) = Took(fields, rest)
<1> DEFINE Def(n, f) == [i \in 0..n |-> IF i = 0 THEN Took(<<>>, input) ELSE ThenField(f[i - 1])]
<1>1. PICK n \in Nat : n = Len(fields) /\ \A i \in 1..n : fields[i] \in Field OBVIOUS
<1>2. PICK c : c = Collected(fields, inputs) OBVIOUS
<1>3. c[0] = Took(<<>>, input) /\ c[n] = Took(fields, rest)
  BY <1>1, <1>2, CollectedIs DEF Inputs
<1>4. c = [i \in 0..n |-> c[i]] BY <1>1, <1>2 DEF Collected
<1>5. ASSUME NEW i \in 1..n PROVE c[i] = ThenField(c[i - 1])
  <2>1. PICK vals : /\ c[i - 1] = Took(vals, inputs[i - 1])
                    /\ c[i] = Took(Append(vals, fields[i]), inputs[i])
    BY <1>1, <1>2, CollectedIs
  <2>2. /\ inputs[i - 1] = Cat(PushField(fields[i]), inputs[i])
        /\ Len(PushField(fields[i])) < Limit /\ inputs[i] \in Blob
    <3>1. i \in 0..Len(seqs) /\ i \in 1..Len(seqs) BY <1>1
    <3> QED BY <1>1, <3>1 DEF Inputs
  <2>3. TakeField(inputs[i - 1]) = Took(fields[i], inputs[i])
    BY <1>1, <2>2, TakeFieldBack DEF Cat
  <2> QED BY <2>1, <2>3, ThenBack
<1>6. \A i \in 0..n : c[i] = IF i = 0 THEN Took(<<>>, input) ELSE ThenField(c[i - 1])
  BY <1>1, <1>3, <1>5
<1>7. c = Def(n, c) BY <1>4, <1>6
<1>8. PICK taken : taken = CHOOSE f : f = Def(n, f) OBVIOUS
<1>9. RepeatField(n, input) = taken[n] BY <1>8 DEF RepeatField, Repeat, ThenField
<1>10. taken = Def(n, taken)
  <2> HIDE DEF Def
  <2> QED BY <1>7, <1>8
<1>11. \A i \in 0..n : taken[i] = IF i = 0 THEN Took(<<>>, input) ELSE ThenField(taken[i - 1])
  BY <1>10
<1>12. SameSteps(c, taken, 0, n) BY <1>1, <1>6, <1>11 DEF SameSteps
<1>13. \A i \in 0..n : taken[i] = c[i]
  <2>1. 0 \in Nat /\ 0 <= n BY <1>1
  <2> QED BY <1>1, <1>12, <2>1, Agree
<1> QED BY <1>1, <1>3, <1>9, <1>13

LEMMA PushFieldsBytes ==
  ASSUME NEW fields \in Seq(Field)
  PROVE  \E seqs \in Seq(Blob) :
           /\ Len(seqs) = Len(fields) /\ Len(fields) \in Nat
           /\ \A i \in 1..Len(fields) : seqs[i] = PushField(fields[i])
           /\ PushFields(fields) = Cat(LittleEndian(Len(fields), U16), FlattenSeq(seqs))
           /\ PushFields(fields) \in Blob
<1>1. PICK seqs : seqs = [i \in DOMAIN fields |-> PushField(fields[i])] OBVIOUS
<1>2. Len(fields) \in Nat /\ \A i \in 1..Len(fields) : fields[i] \in Field OBVIOUS
<1>3. \A i \in 1..Len(fields) : PushField(fields[i]) \in Blob BY <1>2, PushFieldBytes
<1>4. \A i \in 1..Len(fields) : seqs[i] = PushField(fields[i]) BY <1>1
<1>5. seqs = [i \in 1..Len(fields) |-> seqs[i]] BY <1>1
<1>6. seqs \in Seq(Blob) /\ Len(seqs) = Len(fields) BY <1>3, <1>4, <1>5, Mapped
<1>7. PushFields(fields) = Cat(LittleEndian(Len(fields), U16), FlattenSeq(seqs))
  BY <1>1 DEF PushFields, PushAll, Cat
<1>8. PushFields(fields) \in Blob BY <1>2, <1>6, <1>7, ListBytes DEF Cat
<1> QED BY <1>2, <1>4, <1>6, <1>7, <1>8

LEMMA TakeFieldsBack ==
  ASSUME NEW fields \in Seq(Field), Len(fields) < Power(ByteBase, U16),
         Len(PushFields(fields)) < Limit, NEW rest \in Blob
  PROVE  TakeFields(Cat(PushFields(fields), rest)) = Took(fields, rest)
<1>1. PICK seqs \in Seq(Blob) :
        /\ Len(seqs) = Len(fields) /\ Len(fields) \in Nat
        /\ \A i \in 1..Len(fields) : seqs[i] = PushField(fields[i])
        /\ PushFields(fields) = Cat(LittleEndian(Len(fields), U16), FlattenSeq(seqs))
  BY PushFieldsBytes
<1>2. PICK count \in Blob, flat \in Blob :
        count = LittleEndian(Len(fields), U16) /\ flat = FlattenSeq(seqs)
  BY <1>1, ListBytes
<1>3. Len(flat) < Limit
  <2>1. Len(flat) <= Len(Cat(count, flat)) /\ Len(flat) \in Nat /\ Cat(count, flat) \in Blob
    BY CatJoined
  <2>2. Len(Cat(count, flat)) \in Nat BY <2>1 DEF Blob
  <2> QED BY <1>1, <1>2, <2>1, <2>2, Widths
<1>4. PICK input \in Blob : input = Cat(flat, rest) BY CatJoined
<1>5. PICK inputs : Inputs(inputs, seqs, input, rest) BY <1>2, <1>3, <1>4, InputsExist
<1>6. RepeatField(Len(fields), input) = Took(fields, rest) BY <1>1, <1>5, RepeatFieldsBack
<1>7. TakeNumber(U16, Cat(count, input)) = Took(Len(fields), input)
  BY <1>1, <1>2, Widths, TakeNumberBack DEF Cat
<1>8. Cat(PushFields(fields), rest) = Cat(count, input) BY <1>1, <1>2, <1>4, Regroup
<1> QED BY <1>6, <1>7, <1>8, CountBack

LEMMA RepeatStringsBack ==
  ASSUME NEW texts \in Seq(String), NEW seqs \in Seq(Blob), Len(seqs) = Len(texts),
         \A i \in 1..Len(texts) : seqs[i] = PushString(texts[i]),
         NEW inputs, NEW input, NEW rest, Inputs(inputs, seqs, input, rest)
  PROVE  RepeatString(Len(texts), input) = Took(texts, rest)
<1> DEFINE Def(n, f) == [i \in 0..n |-> IF i = 0 THEN Took(<<>>, input) ELSE ThenString(f[i - 1])]
<1>1. PICK n \in Nat : n = Len(texts) /\ \A i \in 1..n : texts[i] \in String OBVIOUS
<1>2. PICK c : c = Collected(texts, inputs) OBVIOUS
<1>3. c[0] = Took(<<>>, input) /\ c[n] = Took(texts, rest)
  BY <1>1, <1>2, CollectedIs DEF Inputs
<1>4. c = [i \in 0..n |-> c[i]] BY <1>1, <1>2 DEF Collected
<1>5. ASSUME NEW i \in 1..n PROVE c[i] = ThenString(c[i - 1])
  <2>1. PICK vals : /\ c[i - 1] = Took(vals, inputs[i - 1])
                    /\ c[i] = Took(Append(vals, texts[i]), inputs[i])
    BY <1>1, <1>2, CollectedIs
  <2>2. /\ inputs[i - 1] = Cat(PushString(texts[i]), inputs[i])
        /\ Len(PushString(texts[i])) < Limit /\ inputs[i] \in Blob
    <3>1. i \in 0..Len(seqs) /\ i \in 1..Len(seqs) BY <1>1
    <3> QED BY <1>1, <3>1 DEF Inputs
  <2>3. TakeString(inputs[i - 1]) = Took(texts[i], inputs[i])
    BY <1>1, <2>2, TakeStringBack DEF Cat
  <2> QED BY <2>1, <2>3, ThenBack
<1>6. \A i \in 0..n : c[i] = IF i = 0 THEN Took(<<>>, input) ELSE ThenString(c[i - 1])
  BY <1>1, <1>3, <1>5
<1>7. c = Def(n, c) BY <1>4, <1>6
<1>8. PICK taken : taken = CHOOSE f : f = Def(n, f) OBVIOUS
<1>9. RepeatString(n, input) = taken[n] BY <1>8 DEF RepeatString, Repeat, ThenString
<1>10. taken = Def(n, taken)
  <2> HIDE DEF Def
  <2> QED BY <1>7, <1>8
<1>11. \A i \in 0..n : taken[i] = IF i = 0 THEN Took(<<>>, input) ELSE ThenString(taken[i - 1])
  BY <1>10
<1>12. SameSteps(c, taken, 0, n) BY <1>1, <1>6, <1>11 DEF SameSteps
<1>13. \A i \in 0..n : taken[i] = c[i]
  <2>1. 0 \in Nat /\ 0 <= n BY <1>1
  <2> QED BY <1>1, <1>12, <2>1, Agree
<1> QED BY <1>1, <1>3, <1>9, <1>13

LEMMA PushStringsBytes ==
  ASSUME NEW texts \in Seq(String)
  PROVE  \E seqs \in Seq(Blob) :
           /\ Len(seqs) = Len(texts) /\ Len(texts) \in Nat
           /\ \A i \in 1..Len(texts) : seqs[i] = PushString(texts[i])
           /\ PushStrings(texts) = Cat(LittleEndian(Len(texts), U16), FlattenSeq(seqs))
           /\ PushStrings(texts) \in Blob
<1>1. PICK seqs : seqs = [i \in DOMAIN texts |-> PushString(texts[i])] OBVIOUS
<1>2. Len(texts) \in Nat /\ \A i \in 1..Len(texts) : texts[i] \in String OBVIOUS
<1>3. \A i \in 1..Len(texts) : PushString(texts[i]) \in Blob BY <1>2, PushStringBytes DEF String
<1>4. \A i \in 1..Len(texts) : seqs[i] = PushString(texts[i]) BY <1>1
<1>5. seqs = [i \in 1..Len(texts) |-> seqs[i]] BY <1>1
<1>6. seqs \in Seq(Blob) /\ Len(seqs) = Len(texts) BY <1>3, <1>4, <1>5, Mapped
<1>7. PushStrings(texts) = Cat(LittleEndian(Len(texts), U16), FlattenSeq(seqs))
  BY <1>1 DEF PushStrings, PushAll, Cat
<1>8. PushStrings(texts) \in Blob BY <1>2, <1>6, <1>7, ListBytes DEF Cat
<1> QED BY <1>2, <1>4, <1>6, <1>7, <1>8

LEMMA TakeStringsBack ==
  ASSUME NEW texts \in Seq(String), Len(texts) < Power(ByteBase, U16),
         Len(PushStrings(texts)) < Limit, NEW rest \in Blob
  PROVE  TakeStrings(Cat(PushStrings(texts), rest)) = Took(texts, rest)
<1>1. PICK seqs \in Seq(Blob) :
        /\ Len(seqs) = Len(texts) /\ Len(texts) \in Nat
        /\ \A i \in 1..Len(texts) : seqs[i] = PushString(texts[i])
        /\ PushStrings(texts) = Cat(LittleEndian(Len(texts), U16), FlattenSeq(seqs))
  BY PushStringsBytes
<1>2. PICK count \in Blob, flat \in Blob :
        count = LittleEndian(Len(texts), U16) /\ flat = FlattenSeq(seqs)
  BY <1>1, ListBytes
<1>3. Len(flat) < Limit
  <2>1. Len(flat) <= Len(Cat(count, flat)) /\ Len(flat) \in Nat /\ Cat(count, flat) \in Blob
    BY CatJoined
  <2>2. Len(Cat(count, flat)) \in Nat BY <2>1 DEF Blob
  <2> QED BY <1>1, <1>2, <2>1, <2>2, Widths
<1>4. PICK input \in Blob : input = Cat(flat, rest) BY CatJoined
<1>5. PICK inputs : Inputs(inputs, seqs, input, rest) BY <1>2, <1>3, <1>4, InputsExist
<1>6. RepeatString(Len(texts), input) = Took(texts, rest) BY <1>1, <1>5, RepeatStringsBack
<1>7. TakeNumber(U16, Cat(count, input)) = Took(Len(texts), input)
  BY <1>1, <1>2, Widths, TakeNumberBack DEF Cat
<1>8. Cat(PushStrings(texts), rest) = Cat(count, input) BY <1>1, <1>2, <1>4, Regroup
<1> QED BY <1>6, <1>7, <1>8, CountBack

-----------------------------------------------------------------------------
(* Spans.  A span in an event has a number of fields that its count holds. *)

AnySpan ==
  [id : 0..(Power(ByteBase, U64) - 1), metadata_id : 0..(Limit - 1), level : Levels,
   name : String, target : String, fields : Seq(Field)]

SpanRecord == {span \in AnySpan : Len(span.fields) < Power(ByteBase, U16)}

LEMMA LevelByte == \A level \in Levels : level \in Bytes /\ <<level>> \in Blob
BY CodecAssumption DEF Levels, Bytes, Blob

LEMMA TakeLevelBack ==
  ASSUME NEW level \in Levels, NEW rest \in Blob
  PROVE  TakeLevel(<<level>> \o rest) = Took(level, rest)
<1>1. TakeU8(<<level>> \o rest) = Took(level, rest) BY LevelByte, TakeU8Back
<1> QED BY <1>1, Once DEF TakeLevel, Check, OrError, Bind, Took

Six(a, b, c, d, e, f) == ((((a \o b) \o c) \o d) \o e) \o f

LEMMA GroupSix ==
  \A a, b, c, d, e, f :
    (a \in Blob /\ b \in Blob /\ c \in Blob /\ d \in Blob /\ e \in Blob /\ f \in Blob) =>
      /\ Six(a, b, c, d, e, f) \in Blob /\ Len(Six(a, b, c, d, e, f)) \in Nat
      /\ \A part \in {a, b, c, d, e, f} : Len(part) \in Nat /\ Len(part) <= Len(Six(a, b, c, d, e, f))
<1> SUFFICES ASSUME NEW a, NEW b, NEW c, NEW d, NEW e, NEW f,
                    a \in Blob /\ b \in Blob /\ c \in Blob /\ d \in Blob /\ e \in Blob /\ f \in Blob
             PROVE  /\ Six(a, b, c, d, e, f) \in Blob /\ Len(Six(a, b, c, d, e, f)) \in Nat
                    /\ \A part \in {a, b, c, d, e, f} :
                         Len(part) \in Nat /\ Len(part) <= Len(Six(a, b, c, d, e, f))
  OBVIOUS
<1>1. PICK w2 \in Blob : w2 = Cat(a, b) BY CatJoined
<1>2. PICK w3 \in Blob : w3 = Cat(w2, c) BY CatJoined
<1>3. PICK w4 \in Blob : w4 = Cat(w3, d) BY CatJoined
<1>4. PICK w5 \in Blob : w5 = Cat(w4, e) BY CatJoined
<1>5. PICK w6 \in Blob : w6 = Cat(w5, f) BY CatJoined
<1>6. Six(a, b, c, d, e, f) = w6 BY <1>1, <1>2, <1>3, <1>4, <1>5 DEF Six, Cat
<1>7. /\ Len(w6) \in Nat
      /\ \A part \in {a, b, c, d, e, f} : Len(part) \in Nat /\ Len(part) <= Len(w6)
  <2>1. Len(a) <= Len(w2) /\ Len(b) <= Len(w2) /\ Len(w2) \in Nat /\ Len(b) \in Nat
    BY <1>1, CatJoined
  <2>2. Len(w2) <= Len(w3) /\ Len(c) <= Len(w3) /\ Len(w3) \in Nat /\ Len(c) \in Nat
    BY <1>2, CatJoined
  <2>3. Len(w3) <= Len(w4) /\ Len(d) <= Len(w4) /\ Len(w4) \in Nat /\ Len(d) \in Nat
    BY <1>3, CatJoined
  <2>4. Len(w4) <= Len(w5) /\ Len(e) <= Len(w5) /\ Len(w5) \in Nat /\ Len(e) \in Nat
    BY <1>4, CatJoined
  <2>5. Len(w5) <= Len(w6) /\ Len(f) <= Len(w6) /\ Len(w6) \in Nat /\ Len(f) \in Nat
    BY <1>5, CatJoined
  <2>6. Len(a) \in Nat BY CatJoined
  <2> QED BY <2>1, <2>2, <2>3, <2>4, <2>5, <2>6
<1> QED BY <1>6, <1>7

LEMMA SplitSix ==
  \A a, b, c, d, e, f, r :
    (a \in Blob /\ b \in Blob /\ c \in Blob /\ d \in Blob /\ e \in Blob /\ f \in Blob /\ r \in Blob) =>
      Cat(Six(a, b, c, d, e, f), r) = Cat(a, Cat(b, Cat(c, Cat(d, Cat(e, Cat(f, r))))))
<1> SUFFICES ASSUME NEW a, NEW b, NEW c, NEW d, NEW e, NEW f, NEW r,
                    a \in Blob /\ b \in Blob /\ c \in Blob /\ d \in Blob /\ e \in Blob /\ f \in Blob /\ r \in Blob
             PROVE  Cat(Six(a, b, c, d, e, f), r) = Cat(a, Cat(b, Cat(c, Cat(d, Cat(e, Cat(f, r))))))
  OBVIOUS
<1>1. PICK w2 \in Blob : w2 = Cat(a, b) BY CatJoined
<1>2. PICK w3 \in Blob : w3 = Cat(w2, c) BY CatJoined
<1>3. PICK w4 \in Blob : w4 = Cat(w3, d) BY CatJoined
<1>4. PICK w5 \in Blob : w5 = Cat(w4, e) BY CatJoined
<1>5. PICK w6 \in Blob : w6 = Cat(w5, f) BY CatJoined
<1>6. Six(a, b, c, d, e, f) = w6 BY <1>1, <1>2, <1>3, <1>4, <1>5 DEF Six, Cat
<1>7. Cat(w6, r) = Cat(a, Cat(b, Cat(c, Cat(d, Cat(e, Cat(f, r))))))
  <2>1. PICK t1 \in Blob : t1 = Cat(f, r) BY CatJoined
  <2>2. PICK t2 \in Blob : t2 = Cat(e, t1) BY CatJoined
  <2>3. PICK t3 \in Blob : t3 = Cat(d, t2) BY CatJoined
  <2>4. PICK t4 \in Blob : t4 = Cat(c, t3) BY CatJoined
  <2>5. PICK t5 \in Blob : t5 = Cat(b, t4) BY CatJoined
  <2>6. Cat(w6, r) = Cat(w5, t1) BY <1>5, <2>1, Regroup
  <2>7. Cat(w5, t1) = Cat(w4, t2) BY <1>4, <2>2, Regroup
  <2>8. Cat(w4, t2) = Cat(w3, t3) BY <1>3, <2>3, Regroup
  <2>9. Cat(w3, t3) = Cat(w2, t4) BY <1>2, <2>4, Regroup
  <2>10. Cat(w2, t4) = Cat(a, t5) BY <1>1, <2>5, Regroup
  <2>11. Cat(w6, r) = Cat(a, t5) BY <2>6, <2>7, <2>8, <2>9, <2>10
  <2> QED BY <2>1, <2>2, <2>3, <2>4, <2>5, <2>11
<1> QED BY <1>6, <1>7

Seven(a, b, c, d, e, f, g) == (((((a \o b) \o c) \o d) \o e) \o f) \o g

LEMMA GroupSeven ==
  \A a, b, c, d, e, f, g :
    (a \in Blob /\ b \in Blob /\ c \in Blob /\ d \in Blob /\ e \in Blob /\ f \in Blob /\ g \in Blob) =>
      /\ Seven(a, b, c, d, e, f, g) \in Blob /\ Len(Seven(a, b, c, d, e, f, g)) \in Nat
      /\ \A part \in {a, b, c, d, e, f, g} : Len(part) \in Nat /\ Len(part) <= Len(Seven(a, b, c, d, e, f, g))
<1> SUFFICES ASSUME NEW a, NEW b, NEW c, NEW d, NEW e, NEW f, NEW g,
                    a \in Blob /\ b \in Blob /\ c \in Blob /\ d \in Blob /\ e \in Blob /\ f \in Blob /\ g \in Blob
             PROVE  /\ Seven(a, b, c, d, e, f, g) \in Blob /\ Len(Seven(a, b, c, d, e, f, g)) \in Nat
                    /\ \A part \in {a, b, c, d, e, f, g} :
                         Len(part) \in Nat /\ Len(part) <= Len(Seven(a, b, c, d, e, f, g))
  OBVIOUS
<1>1. PICK w2 \in Blob : w2 = Cat(a, b) BY CatJoined
<1>2. PICK w3 \in Blob : w3 = Cat(w2, c) BY CatJoined
<1>3. PICK w4 \in Blob : w4 = Cat(w3, d) BY CatJoined
<1>4. PICK w5 \in Blob : w5 = Cat(w4, e) BY CatJoined
<1>5. PICK w6 \in Blob : w6 = Cat(w5, f) BY CatJoined
<1>6. PICK w7 \in Blob : w7 = Cat(w6, g) BY CatJoined
<1>7. Seven(a, b, c, d, e, f, g) = w7 BY <1>1, <1>2, <1>3, <1>4, <1>5, <1>6 DEF Seven, Cat
<1>8. /\ Len(w7) \in Nat
      /\ \A part \in {a, b, c, d, e, f, g} : Len(part) \in Nat /\ Len(part) <= Len(w7)
  <2>1. Len(a) <= Len(w2) /\ Len(b) <= Len(w2) /\ Len(w2) \in Nat /\ Len(b) \in Nat
    BY <1>1, CatJoined
  <2>2. Len(w2) <= Len(w3) /\ Len(c) <= Len(w3) /\ Len(w3) \in Nat /\ Len(c) \in Nat
    BY <1>2, CatJoined
  <2>3. Len(w3) <= Len(w4) /\ Len(d) <= Len(w4) /\ Len(w4) \in Nat /\ Len(d) \in Nat
    BY <1>3, CatJoined
  <2>4. Len(w4) <= Len(w5) /\ Len(e) <= Len(w5) /\ Len(w5) \in Nat /\ Len(e) \in Nat
    BY <1>4, CatJoined
  <2>5. Len(w5) <= Len(w6) /\ Len(f) <= Len(w6) /\ Len(w6) \in Nat /\ Len(f) \in Nat
    BY <1>5, CatJoined
  <2>6. Len(w6) <= Len(w7) /\ Len(g) <= Len(w7) /\ Len(w7) \in Nat /\ Len(g) \in Nat
    BY <1>6, CatJoined
  <2>7. Len(a) \in Nat BY CatJoined
  <2> QED BY <2>1, <2>2, <2>3, <2>4, <2>5, <2>6, <2>7
<1> QED BY <1>7, <1>8

LEMMA SplitSeven ==
  \A a, b, c, d, e, f, g, r :
    (a \in Blob /\ b \in Blob /\ c \in Blob /\ d \in Blob /\ e \in Blob /\ f \in Blob /\ g \in Blob /\ r \in Blob) =>
      Cat(Seven(a, b, c, d, e, f, g), r) = Cat(a, Cat(b, Cat(c, Cat(d, Cat(e, Cat(f, Cat(g, r)))))))
<1> SUFFICES ASSUME NEW a, NEW b, NEW c, NEW d, NEW e, NEW f, NEW g, NEW r,
                    a \in Blob /\ b \in Blob /\ c \in Blob /\ d \in Blob /\ e \in Blob /\ f \in Blob /\ g \in Blob /\ r \in Blob
             PROVE  Cat(Seven(a, b, c, d, e, f, g), r) = Cat(a, Cat(b, Cat(c, Cat(d, Cat(e, Cat(f, Cat(g, r)))))))
  OBVIOUS
<1>1. PICK w2 \in Blob : w2 = Cat(a, b) BY CatJoined
<1>2. PICK w3 \in Blob : w3 = Cat(w2, c) BY CatJoined
<1>3. PICK w4 \in Blob : w4 = Cat(w3, d) BY CatJoined
<1>4. PICK w5 \in Blob : w5 = Cat(w4, e) BY CatJoined
<1>5. PICK w6 \in Blob : w6 = Cat(w5, f) BY CatJoined
<1>6. PICK w7 \in Blob : w7 = Cat(w6, g) BY CatJoined
<1>7. Seven(a, b, c, d, e, f, g) = w7 BY <1>1, <1>2, <1>3, <1>4, <1>5, <1>6 DEF Seven, Cat
<1>8. Cat(w7, r) = Cat(a, Cat(b, Cat(c, Cat(d, Cat(e, Cat(f, Cat(g, r)))))))
  <2>1. PICK t1 \in Blob : t1 = Cat(g, r) BY CatJoined
  <2>2. PICK t2 \in Blob : t2 = Cat(f, t1) BY CatJoined
  <2>3. PICK t3 \in Blob : t3 = Cat(e, t2) BY CatJoined
  <2>4. PICK t4 \in Blob : t4 = Cat(d, t3) BY CatJoined
  <2>5. PICK t5 \in Blob : t5 = Cat(c, t4) BY CatJoined
  <2>6. PICK t6 \in Blob : t6 = Cat(b, t5) BY CatJoined
  <2>7. Cat(w7, r) = Cat(w6, t1) BY <1>6, <2>1, Regroup
  <2>8. Cat(w6, t1) = Cat(w5, t2) BY <1>5, <2>2, Regroup
  <2>9. Cat(w5, t2) = Cat(w4, t3) BY <1>4, <2>3, Regroup
  <2>10. Cat(w4, t3) = Cat(w3, t4) BY <1>3, <2>4, Regroup
  <2>11. Cat(w3, t4) = Cat(w2, t5) BY <1>2, <2>5, Regroup
  <2>12. Cat(w2, t5) = Cat(a, t6) BY <1>1, <2>6, Regroup
  <2>13. Cat(w7, r) = Cat(a, t6) BY <2>7, <2>8, <2>9, <2>10, <2>11, <2>12
  <2> QED BY <2>1, <2>2, <2>3, <2>4, <2>5, <2>6, <2>13
<1> QED BY <1>7, <1>8

Nine(a, b, c, d, e, f, g, h, i) == (((((((a \o b) \o c) \o d) \o e) \o f) \o g) \o h) \o i

LEMMA GroupNine ==
  \A a, b, c, d, e, f, g, h, i :
    (a \in Blob /\ b \in Blob /\ c \in Blob /\ d \in Blob /\ e \in Blob /\ f \in Blob /\ g \in Blob /\ h \in Blob /\ i \in Blob) =>
      /\ Nine(a, b, c, d, e, f, g, h, i) \in Blob /\ Len(Nine(a, b, c, d, e, f, g, h, i)) \in Nat
      /\ \A part \in {a, b, c, d, e, f, g, h, i} : Len(part) \in Nat /\ Len(part) <= Len(Nine(a, b, c, d, e, f, g, h, i))
<1> SUFFICES ASSUME NEW a, NEW b, NEW c, NEW d, NEW e, NEW f, NEW g, NEW h, NEW i,
                    a \in Blob /\ b \in Blob /\ c \in Blob /\ d \in Blob /\ e \in Blob /\ f \in Blob /\ g \in Blob /\ h \in Blob /\ i \in Blob
             PROVE  /\ Nine(a, b, c, d, e, f, g, h, i) \in Blob /\ Len(Nine(a, b, c, d, e, f, g, h, i)) \in Nat
                    /\ \A part \in {a, b, c, d, e, f, g, h, i} :
                         Len(part) \in Nat /\ Len(part) <= Len(Nine(a, b, c, d, e, f, g, h, i))
  OBVIOUS
<1>1. PICK w2 \in Blob : w2 = Cat(a, b) BY CatJoined
<1>2. PICK w3 \in Blob : w3 = Cat(w2, c) BY CatJoined
<1>3. PICK w4 \in Blob : w4 = Cat(w3, d) BY CatJoined
<1>4. PICK w5 \in Blob : w5 = Cat(w4, e) BY CatJoined
<1>5. PICK w6 \in Blob : w6 = Cat(w5, f) BY CatJoined
<1>6. PICK w7 \in Blob : w7 = Cat(w6, g) BY CatJoined
<1>7. PICK w8 \in Blob : w8 = Cat(w7, h) BY CatJoined
<1>8. PICK w9 \in Blob : w9 = Cat(w8, i) BY CatJoined
<1>9. Nine(a, b, c, d, e, f, g, h, i) = w9 BY <1>1, <1>2, <1>3, <1>4, <1>5, <1>6, <1>7, <1>8 DEF Nine, Cat
<1>10. /\ Len(w9) \in Nat
      /\ \A part \in {a, b, c, d, e, f, g, h, i} : Len(part) \in Nat /\ Len(part) <= Len(w9)
  <2>1. Len(a) <= Len(w2) /\ Len(b) <= Len(w2) /\ Len(w2) \in Nat /\ Len(b) \in Nat
    BY <1>1, CatJoined
  <2>2. Len(w2) <= Len(w3) /\ Len(c) <= Len(w3) /\ Len(w3) \in Nat /\ Len(c) \in Nat
    BY <1>2, CatJoined
  <2>3. Len(w3) <= Len(w4) /\ Len(d) <= Len(w4) /\ Len(w4) \in Nat /\ Len(d) \in Nat
    BY <1>3, CatJoined
  <2>4. Len(w4) <= Len(w5) /\ Len(e) <= Len(w5) /\ Len(w5) \in Nat /\ Len(e) \in Nat
    BY <1>4, CatJoined
  <2>5. Len(w5) <= Len(w6) /\ Len(f) <= Len(w6) /\ Len(w6) \in Nat /\ Len(f) \in Nat
    BY <1>5, CatJoined
  <2>6. Len(w6) <= Len(w7) /\ Len(g) <= Len(w7) /\ Len(w7) \in Nat /\ Len(g) \in Nat
    BY <1>6, CatJoined
  <2>7. Len(w7) <= Len(w8) /\ Len(h) <= Len(w8) /\ Len(w8) \in Nat /\ Len(h) \in Nat
    BY <1>7, CatJoined
  <2>8. Len(w8) <= Len(w9) /\ Len(i) <= Len(w9) /\ Len(w9) \in Nat /\ Len(i) \in Nat
    BY <1>8, CatJoined
  <2>9. Len(a) \in Nat BY CatJoined
  <2>10. \A part \in {a, b, c, d, e} : Len(part) \in Nat /\ Len(part) <= Len(w5)
    BY <2>1, <2>2, <2>3, <2>4, <2>9
  <2>11. Len(w5) <= Len(w9) /\ \A part \in {f, g, h, i} : Len(part) \in Nat /\ Len(part) <= Len(w9)
    BY <2>4, <2>5, <2>6, <2>7, <2>8
  <2> QED BY <2>4, <2>8, <2>10, <2>11
<1> QED BY <1>9, <1>10

LEMMA SplitNine ==
  \A a, b, c, d, e, f, g, h, i, r :
    (a \in Blob /\ b \in Blob /\ c \in Blob /\ d \in Blob /\ e \in Blob /\ f \in Blob /\ g \in Blob /\ h \in Blob /\ i \in Blob /\ r \in Blob) =>
      Cat(Nine(a, b, c, d, e, f, g, h, i), r) = Cat(a, Cat(b, Cat(c, Cat(d, Cat(e, Cat(f, Cat(g, Cat(h, Cat(i, r)))))))))
<1> SUFFICES ASSUME NEW a, NEW b, NEW c, NEW d, NEW e, NEW f, NEW g, NEW h, NEW i, NEW r,
                    a \in Blob /\ b \in Blob /\ c \in Blob /\ d \in Blob /\ e \in Blob /\ f \in Blob /\ g \in Blob /\ h \in Blob /\ i \in Blob /\ r \in Blob
             PROVE  Cat(Nine(a, b, c, d, e, f, g, h, i), r) = Cat(a, Cat(b, Cat(c, Cat(d, Cat(e, Cat(f, Cat(g, Cat(h, Cat(i, r)))))))))
  OBVIOUS
<1>1. PICK w2 \in Blob : w2 = Cat(a, b) BY CatJoined
<1>2. PICK w3 \in Blob : w3 = Cat(w2, c) BY CatJoined
<1>3. PICK w4 \in Blob : w4 = Cat(w3, d) BY CatJoined
<1>4. PICK w5 \in Blob : w5 = Cat(w4, e) BY CatJoined
<1>5. PICK w6 \in Blob : w6 = Cat(w5, f) BY CatJoined
<1>6. PICK w7 \in Blob : w7 = Cat(w6, g) BY CatJoined
<1>7. PICK w8 \in Blob : w8 = Cat(w7, h) BY CatJoined
<1>8. PICK w9 \in Blob : w9 = Cat(w8, i) BY CatJoined
<1>9. Nine(a, b, c, d, e, f, g, h, i) = w9 BY <1>1, <1>2, <1>3, <1>4, <1>5, <1>6, <1>7, <1>8 DEF Nine, Cat
<1>10. Cat(w9, r) = Cat(a, Cat(b, Cat(c, Cat(d, Cat(e, Cat(f, Cat(g, Cat(h, Cat(i, r)))))))))
  <2>1. PICK t1 \in Blob : t1 = Cat(i, r) BY CatJoined
  <2>2. PICK t2 \in Blob : t2 = Cat(h, t1) BY CatJoined
  <2>3. PICK t3 \in Blob : t3 = Cat(g, t2) BY CatJoined
  <2>4. PICK t4 \in Blob : t4 = Cat(f, t3) BY CatJoined
  <2>5. PICK t5 \in Blob : t5 = Cat(e, t4) BY CatJoined
  <2>6. PICK t6 \in Blob : t6 = Cat(d, t5) BY CatJoined
  <2>7. PICK t7 \in Blob : t7 = Cat(c, t6) BY CatJoined
  <2>8. PICK t8 \in Blob : t8 = Cat(b, t7) BY CatJoined
  <2>9. Cat(w9, r) = Cat(w8, t1) BY <1>8, <2>1, Regroup
  <2>10. Cat(w8, t1) = Cat(w7, t2) BY <1>7, <2>2, Regroup
  <2>11. Cat(w7, t2) = Cat(w6, t3) BY <1>6, <2>3, Regroup
  <2>12. Cat(w6, t3) = Cat(w5, t4) BY <1>5, <2>4, Regroup
  <2>13. Cat(w5, t4) = Cat(w4, t5) BY <1>4, <2>5, Regroup
  <2>14. Cat(w4, t5) = Cat(w3, t6) BY <1>3, <2>6, Regroup
  <2>15. Cat(w3, t6) = Cat(w2, t7) BY <1>2, <2>7, Regroup
  <2>16. Cat(w2, t7) = Cat(a, t8) BY <1>1, <2>8, Regroup
  <2>17. Cat(w9, r) = Cat(a, t8) BY <2>9, <2>10, <2>11, <2>12, <2>13, <2>14, <2>15, <2>16
  <2> QED BY <2>1, <2>2, <2>3, <2>4, <2>5, <2>6, <2>7, <2>8, <2>17
<1> QED BY <1>9, <1>10

LEMMA AnySpanTypes ==
  ASSUME NEW span \in AnySpan
  PROVE  /\ span.id \in Nat /\ span.id < Power(ByteBase, U64)
         /\ span.metadata_id \in Nat /\ span.metadata_id < Limit
         /\ span.level \in Levels /\ span.name \in String /\ span.target \in String
         /\ span.fields \in Seq(Field)
         /\ span = [id |-> span.id, metadata_id |-> span.metadata_id, level |-> span.level,
                    name |-> span.name, target |-> span.target, fields |-> span.fields]
<1>1. PICK w \in Nat : w = Power(ByteBase, U64) BY Widths, PowerIs
<1>2. PICK l \in Nat : l = Limit BY Widths
<1>3. PICK String_, Fields_ : String_ = String /\ Fields_ = Seq(Field) OBVIOUS
<1>4. span \in [id : 0..(w - 1), metadata_id : 0..(l - 1), level : Levels,
                name : String_, target : String_, fields : Fields_]
  BY <1>1, <1>2, <1>3 DEF AnySpan
<1>5. /\ span.id \in Nat /\ span.id < w /\ span.metadata_id \in Nat /\ span.metadata_id < l
      /\ span.level \in Levels /\ span.name \in String_ /\ span.target \in String_
      /\ span.fields \in Fields_
  BY <1>4
<1>6. span = [id |-> span.id, metadata_id |-> span.metadata_id, level |-> span.level,
              name |-> span.name, target |-> span.target, fields |-> span.fields]
  BY <1>4
<1> QED BY <1>1, <1>2, <1>3, <1>4, <1>5, <1>6

LEMMA SpanTypes ==
  ASSUME NEW span \in SpanRecord
  PROVE  /\ span.id \in Nat /\ span.id < Power(ByteBase, U64)
         /\ span.metadata_id \in Nat /\ span.metadata_id < Limit
         /\ span.level \in Levels /\ span.name \in String /\ span.target \in String
         /\ span.fields \in Seq(Field) /\ Len(span.fields) < Power(ByteBase, U16)
         /\ span = [id |-> span.id, metadata_id |-> span.metadata_id, level |-> span.level,
                    name |-> span.name, target |-> span.target, fields |-> span.fields]
BY AnySpanTypes DEF SpanRecord

LEMMA SpanPieces ==
  ASSUME NEW span \in AnySpan
  PROVE  /\ LittleEndian(span.id, U64) \in Blob /\ PushU32(span.metadata_id) \in Blob
         /\ <<span.level>> \in Blob /\ PushString(span.name) \in Blob
         /\ PushString(span.target) \in Blob /\ PushFields(span.fields) \in Blob
<1>1. LittleEndian(span.id, U64) \in Blob /\ PushU32(span.metadata_id) \in Blob
  BY AnySpanTypes, Widths, LittleEndianBytes DEF PushU32
<1>2. <<span.level>> \in Blob BY AnySpanTypes, LevelByte
<1>3. PushString(span.name) \in Blob /\ PushString(span.target) \in Blob
  BY AnySpanTypes, PushStringBytes DEF String
<1>4. PushFields(span.fields) \in Blob BY AnySpanTypes, PushFieldsBytes
<1> QED BY <1>1, <1>2, <1>3, <1>4

LEMMA PushSpanBytes ==
  ASSUME NEW span \in AnySpan
  PROVE  PushSpan(span) \in Blob
<1>1. PICK a \in Blob, b \in Blob, c \in Blob, d \in Blob, e \in Blob, f \in Blob :
        /\ a = LittleEndian(span.id, U64) /\ b = PushU32(span.metadata_id) /\ c = <<span.level>>
        /\ d = PushString(span.name) /\ e = PushString(span.target) /\ f = PushFields(span.fields)
  BY SpanPieces
<1>2. PICK whole : whole = Six(a, b, c, d, e, f) /\ whole = PushSpan(span)
  BY <1>1 DEF PushSpan, Six
<1>3. Six(a, b, c, d, e, f) \in Blob BY GroupSix
<1> QED BY <1>2, <1>3

LEMMA TakeSpanBack ==
  ASSUME NEW span \in SpanRecord, Len(PushSpan(span)) < Limit, NEW rest \in Blob
  PROVE  TakeSpan(PushSpan(span) \o rest) = Took(span, rest)
<1>1. PICK a \in Blob, b \in Blob, c \in Blob, d \in Blob, e \in Blob, f \in Blob :
        /\ a = LittleEndian(span.id, U64)
        /\ b = PushU32(span.metadata_id)
        /\ c = <<span.level>>
        /\ d = PushString(span.name)
        /\ e = PushString(span.target)
        /\ f = PushFields(span.fields)
  BY SpanPieces DEF SpanRecord
<1>2. PICK whole : whole = Six(a, b, c, d, e, f) /\ whole = PushSpan(span)
  BY <1>1 DEF PushSpan, Six
<1>3. rest \in Blob OBVIOUS
<1>4. /\ whole \in Blob /\ Len(whole) \in Nat
      /\ \A part \in {a, b, c, d, e, f} : Len(part) \in Nat /\ Len(part) <= Len(whole)
  <2>1. /\ Six(a, b, c, d, e, f) \in Blob /\ Len(Six(a, b, c, d, e, f)) \in Nat
        /\ \A part \in {a, b, c, d, e, f} : Len(part) \in Nat /\ Len(part) <= Len(Six(a, b, c, d, e, f))
    BY GroupSix
  <2> QED BY <1>2, <2>1
<1>5. Cat(whole, rest) = Cat(a, Cat(b, Cat(c, Cat(d, Cat(e, Cat(f, rest))))))
  <2>1. Cat(Six(a, b, c, d, e, f), rest) = Cat(a, Cat(b, Cat(c, Cat(d, Cat(e, Cat(f, rest))))))
    BY <1>3, SplitSix
  <2> QED BY <1>2, <2>1
<1>t1. PICK t1 \in Blob : t1 = Cat(f, rest) BY <1>3, CatJoined
<1>t2. PICK t2 \in Blob : t2 = Cat(e, t1) BY <1>3, CatJoined
<1>t3. PICK t3 \in Blob : t3 = Cat(d, t2) BY <1>3, CatJoined
<1>t4. PICK t4 \in Blob : t4 = Cat(c, t3) BY <1>3, CatJoined
<1>t5. PICK t5 \in Blob : t5 = Cat(b, t4) BY <1>3, CatJoined
<1>6. PICK input \in Blob : input = Cat(a, t5) BY CatJoined
<1>7. input = Cat(whole, rest) BY <1>5, <1>t1, <1>t2, <1>t3, <1>t4, <1>t5, <1>6
<1>8. \A part \in {a, b, c, d, e, f} : Len(part) < Limit
  BY <1>2, <1>4, Widths
<1>9. PICK id \in Nat, metadata_id \in Nat, level \in Levels, name \in String,
           target \in String, fields \in Seq(Field) :
        /\ id = span.id /\ id < Power(ByteBase, U64)
        /\ metadata_id = span.metadata_id /\ metadata_id < Limit
        /\ level = span.level /\ name = span.name /\ target = span.target
        /\ fields = span.fields /\ Len(fields) < Power(ByteBase, U16)
        /\ span = [id |-> id, metadata_id |-> metadata_id, level |-> level, name |-> name,
                   target |-> target, fields |-> fields]
  BY SpanTypes
<1>10. TakeU64(input) = Took(id, t5)
  <2>1. a = LittleEndian(id, U64) BY <1>1, <1>9 DEF PushU32
  <2>2. id \in Nat /\ id < Power(ByteBase, U64) BY <1>9
  <2>3. input = Cat(a, t5) BY <1>6
  <2> QED BY <1>3, <2>1, <2>2, <2>3, Widths, TakeNumberBack DEF TakeU64, Cat
<1>11. TakeU32(t5) = Took(metadata_id, t4)
  <2>1. b = LittleEndian(metadata_id, U32) BY <1>1, <1>9 DEF PushU32
  <2>2. metadata_id \in Nat /\ metadata_id < Limit BY <1>9
  <2>3. t5 = Cat(b, t4) BY <1>t5
  <2> QED BY <1>3, <2>1, <2>2, <2>3, Widths, TakeNumberBack DEF TakeU32, Limit, Cat
<1>12. TakeLevel(t4) = Took(level, t3)
  BY <1>1, <1>3, <1>t4, <1>8, <1>9, TakeLevelBack DEF Cat
<1>13. TakeString(t3) = Took(name, t2)
  BY <1>1, <1>3, <1>t3, <1>8, <1>9, TakeStringBack DEF Cat
<1>14. TakeString(t2) = Took(target, t1)
  BY <1>1, <1>3, <1>t2, <1>8, <1>9, TakeStringBack DEF Cat
<1>15. TakeFields(t1) = Took(fields, rest)
  BY <1>1, <1>3, <1>t1, <1>8, <1>9, TakeFieldsBack
<1> DEFINE s1 == ThenU64(Took(<<>>, input))
           s2 == ThenU32(s1)
           s3 == ThenLevel(s2)
           s4 == ThenString(s3)
           s5 == ThenString(s4)
           s6 == ThenFields(s5)
           Build(v) == [id |-> v[1], metadata_id |-> v[2], level |-> v[3], name |-> v[4],
                       target |-> v[5], fields |-> v[6]]
<1>16. s1 = Took(<<id>>, t5) BY <1>10, FirstBack
<1>17. TakeSpan(input) = Convert(s6, Build)
  BY DEF TakeSpan, ThenU64, ThenU32, ThenLevel, ThenString, ThenFields
<1> HIDE DEF s1
<1>18. s2 = Took(<<id, metadata_id>>, t4)
  <2>1. s2 = Took(Append(<<id>>, metadata_id), t4) BY <1>11, <1>16, ThenBack
  <2>2. Append(<<id>>, metadata_id) = <<id, metadata_id>> BY Longer
  <2> QED BY <2>1, <2>2
<1> HIDE DEF s2
<1>19. s3 = Took(<<id, metadata_id, level>>, t3)
  <2>1. s3 = Took(Append(<<id, metadata_id>>, level), t3) BY <1>12, <1>18, ThenBack
  <2>2. Append(<<id, metadata_id>>, level) = <<id, metadata_id, level>> BY Longer
  <2> QED BY <2>1, <2>2
<1> HIDE DEF s3
<1>20. s4 = Took(<<id, metadata_id, level, name>>, t2)
  <2>1. s4 = Took(Append(<<id, metadata_id, level>>, name), t2) BY <1>13, <1>19, ThenBack
  <2>2. Append(<<id, metadata_id, level>>, name) = <<id, metadata_id, level, name>> BY Longer
  <2> QED BY <2>1, <2>2
<1> HIDE DEF s4
<1>21. s5 = Took(<<id, metadata_id, level, name, target>>, t1)
  <2>1. s5 = Took(Append(<<id, metadata_id, level, name>>, target), t1) BY <1>14, <1>20, ThenBack
  <2>2. Append(<<id, metadata_id, level, name>>, target) = <<id, metadata_id, level, name, target>> BY Longer
  <2> QED BY <2>1, <2>2
<1> HIDE DEF s5
<1>22. s6 = Took(<<id, metadata_id, level, name, target, fields>>, rest)
  <2>1. s6 = Took(Append(<<id, metadata_id, level, name, target>>, fields), rest) BY <1>15, <1>21, ThenBack
  <2>2. Append(<<id, metadata_id, level, name, target>>, fields) = <<id, metadata_id, level, name, target, fields>> BY Longer
  <2> QED BY <2>1, <2>2
<1> HIDE DEF s6
<1>23. Build(<<id, metadata_id, level, name, target, fields>>) = span BY <1>9
<1> HIDE DEF Build
<1>24. Convert(s6, Build) = Took(Build(<<id, metadata_id, level, name, target, fields>>), rest)
  <2>1. PICK vals : vals = <<id, metadata_id, level, name, target, fields>> OBVIOUS
  <2>2. s6 = Took(vals, rest) BY <1>22, <2>1
  <2>3. Convert(s6, Build) = Took(Build(vals), rest)
    BY <2>2, Once DEF Convert, OrError, Bind, Took
  <2> QED BY <2>1, <2>3
<1> QED BY <1>2, <1>3, <1>7, <1>17, <1>23, <1>24 DEF Cat

LEMMA RepeatSpansBack ==
  ASSUME NEW spans \in Seq(SpanRecord), NEW seqs \in Seq(Blob), Len(seqs) = Len(spans),
         \A i \in 1..Len(spans) : seqs[i] = PushSpan(spans[i]),
         NEW inputs, NEW input, NEW rest, Inputs(inputs, seqs, input, rest)
  PROVE  RepeatSpan(Len(spans), input) = Took(spans, rest)
<1> DEFINE Def(n, f) == [i \in 0..n |-> IF i = 0 THEN Took(<<>>, input) ELSE ThenSpan(f[i - 1])]
<1>1. PICK n \in Nat : n = Len(spans) /\ \A i \in 1..n : spans[i] \in SpanRecord OBVIOUS
<1>2. PICK c : c = Collected(spans, inputs) OBVIOUS
<1>3. c[0] = Took(<<>>, input) /\ c[n] = Took(spans, rest)
  BY <1>1, <1>2, CollectedIs DEF Inputs
<1>4. c = [i \in 0..n |-> c[i]] BY <1>1, <1>2 DEF Collected
<1>5. ASSUME NEW i \in 1..n PROVE c[i] = ThenSpan(c[i - 1])
  <2>1. PICK vals : /\ c[i - 1] = Took(vals, inputs[i - 1])
                    /\ c[i] = Took(Append(vals, spans[i]), inputs[i])
    BY <1>1, <1>2, CollectedIs
  <2>2. /\ inputs[i - 1] = Cat(PushSpan(spans[i]), inputs[i])
        /\ Len(PushSpan(spans[i])) < Limit /\ inputs[i] \in Blob
    <3>1. i \in 0..Len(seqs) /\ i \in 1..Len(seqs) BY <1>1
    <3> QED BY <1>1, <3>1 DEF Inputs
  <2>3. TakeSpan(inputs[i - 1]) = Took(spans[i], inputs[i])
    BY <1>1, <2>2, TakeSpanBack DEF Cat
  <2> QED BY <2>1, <2>3, ThenBack
<1>6. \A i \in 0..n : c[i] = IF i = 0 THEN Took(<<>>, input) ELSE ThenSpan(c[i - 1])
  BY <1>1, <1>3, <1>5
<1>7. c = Def(n, c) BY <1>4, <1>6
<1>8. PICK taken : taken = CHOOSE f : f = Def(n, f) OBVIOUS
<1>9. RepeatSpan(n, input) = taken[n] BY <1>8 DEF RepeatSpan, Repeat, ThenSpan
<1>10. taken = Def(n, taken)
  <2> HIDE DEF Def
  <2> QED BY <1>7, <1>8
<1>11. \A i \in 0..n : taken[i] = IF i = 0 THEN Took(<<>>, input) ELSE ThenSpan(taken[i - 1])
  BY <1>10
<1>12. SameSteps(c, taken, 0, n) BY <1>1, <1>6, <1>11 DEF SameSteps
<1>13. \A i \in 0..n : taken[i] = c[i]
  <2>1. 0 \in Nat /\ 0 <= n BY <1>1
  <2> QED BY <1>1, <1>12, <2>1, Agree
<1> QED BY <1>1, <1>3, <1>9, <1>13

LEMMA PushSpansBytes ==
  ASSUME NEW spans \in Seq(AnySpan)
  PROVE  \E seqs \in Seq(Blob) :
           /\ Len(seqs) = Len(spans) /\ Len(spans) \in Nat
           /\ \A i \in 1..Len(spans) : seqs[i] = PushSpan(spans[i])
           /\ PushSpans(spans) = Cat(LittleEndian(Len(spans), U16), FlattenSeq(seqs))
           /\ PushSpans(spans) \in Blob
<1>1. PICK seqs : seqs = [i \in DOMAIN spans |-> PushSpan(spans[i])] OBVIOUS
<1>2. Len(spans) \in Nat /\ \A i \in 1..Len(spans) : spans[i] \in AnySpan OBVIOUS
<1>3. \A i \in 1..Len(spans) : PushSpan(spans[i]) \in Blob BY <1>2, PushSpanBytes
<1>4. \A i \in 1..Len(spans) : seqs[i] = PushSpan(spans[i]) BY <1>1
<1>5. seqs = [i \in 1..Len(spans) |-> seqs[i]] BY <1>1
<1>6. seqs \in Seq(Blob) /\ Len(seqs) = Len(spans) BY <1>3, <1>4, <1>5, Mapped
<1>7. PushSpans(spans) = Cat(LittleEndian(Len(spans), U16), FlattenSeq(seqs))
  BY <1>1 DEF PushSpans, PushAll, Cat
<1>8. PushSpans(spans) \in Blob BY <1>2, <1>6, <1>7, ListBytes DEF Cat
<1> QED BY <1>2, <1>4, <1>6, <1>7, <1>8

LEMMA TakeSpansBack ==
  ASSUME NEW spans \in Seq(SpanRecord), Len(spans) < Power(ByteBase, U16),
         Len(PushSpans(spans)) < Limit, NEW rest \in Blob
  PROVE  TakeSpans(Cat(PushSpans(spans), rest)) = Took(spans, rest)
<1>0. SpanRecord \subseteq AnySpan BY DEF SpanRecord
<1>1. PICK seqs \in Seq(Blob) :
        /\ Len(seqs) = Len(spans) /\ Len(spans) \in Nat
        /\ \A i \in 1..Len(spans) : seqs[i] = PushSpan(spans[i])
        /\ PushSpans(spans) = Cat(LittleEndian(Len(spans), U16), FlattenSeq(seqs))
  <2>1. spans \in Seq(AnySpan) BY <1>0, SeqMonotonic
  <2> QED BY <2>1, PushSpansBytes
<1>2. PICK count \in Blob, flat \in Blob :
        count = LittleEndian(Len(spans), U16) /\ flat = FlattenSeq(seqs)
  BY <1>1, ListBytes
<1>3. Len(flat) < Limit
  <2>1. Len(flat) <= Len(Cat(count, flat)) /\ Len(flat) \in Nat /\ Cat(count, flat) \in Blob
    BY CatJoined
  <2>2. Len(Cat(count, flat)) \in Nat BY <2>1 DEF Blob
  <2> QED BY <1>1, <1>2, <2>1, <2>2, Widths
<1>4. PICK input \in Blob : input = Cat(flat, rest) BY CatJoined
<1>5. PICK inputs : Inputs(inputs, seqs, input, rest) BY <1>2, <1>3, <1>4, InputsExist
<1>6. RepeatSpan(Len(spans), input) = Took(spans, rest) BY <1>1, <1>5, RepeatSpansBack
<1>7. TakeNumber(U16, Cat(count, input)) = Took(Len(spans), input)
  BY <1>1, <1>2, Widths, TakeNumberBack DEF Cat
<1>8. Cat(PushSpans(spans), rest) = Cat(count, input) BY <1>1, <1>2, <1>4, Regroup
<1> QED BY <1>6, <1>7, <1>8, CountBack

-----------------------------------------------------------------------------
(* Optional values.                                                        *)

LEMMA OptionalStringIs ==
  ASSUME NEW input, NEW after
  PROVE  /\ TakeU8(input) = Took(0, after) => TakeOptionalString(input) = Took({}, after)
         /\ \A v, rest :
              TakeU8(input) = Took(1, after) /\ TakeString(after) = Took(v, rest)
                => TakeOptionalString(input) = Took({v}, rest)
<1> DEFINE One(w) == {w}
           Present(t) == IF t.value = 1 THEN Convert(TakeString(t.rest), One) ELSE Took({}, t.rest)
<1>1. TakeOptionalString(input) = OrError(TakeU8(input), Present)
  BY DEF TakeOptionalString, TakeOptional
<1>2. ASSUME TakeU8(input) = Took(0, after)
      PROVE  OrError(TakeU8(input), Present) = Took({}, after)
  <2>1. Present(TakeU8(input)) = Took({}, after)
    <3> HIDE DEF One
    <3> QED BY <1>2 DEF Took
  <2>2. OrError(TakeU8(input), Present) = Present(TakeU8(input))
    <3> HIDE DEF Present
    <3> QED BY <1>2, Once DEF OrError, Bind, Took
  <2> HIDE DEF Present
  <2> QED BY <2>1, <2>2
<1>3. ASSUME NEW v, NEW rest, TakeU8(input) = Took(1, after), TakeString(after) = Took(v, rest)
      PROVE  OrError(TakeU8(input), Present) = Took({v}, rest)
  <2>1. Convert(TakeString(after), One) = Took(One(v), rest)
    <3> HIDE DEF One
    <3> QED BY <1>3, Once DEF Convert, OrError, Bind, Took
  <2>2. Present(TakeU8(input)) = Convert(TakeString(after), One)
    <3> HIDE DEF One
    <3> QED BY <1>3 DEF Took
  <2>3. OrError(TakeU8(input), Present) = Present(TakeU8(input))
    <3> HIDE DEF Present
    <3> QED BY <1>3, Once DEF OrError, Bind, Took
  <2> QED BY <2>1, <2>2, <2>3
<1> QED BY <1>1, <1>2, <1>3

LEMMA OptionalStringBytes ==
  ASSUME NEW value \in SUBSET (String)
  PROVE  PushOptionalString(value) \in Blob
<1>1. <<0>> \in Blob /\ <<1>> \in Blob BY CodecAssumption DEF Blob, Bytes
<1>2. CASE value = {} BY <1>1, <1>2 DEF PushOptionalString, PushOptional
<1>3. CASE value # {}
  <2>1. PICK v \in String : v = CHOOSE x \in value : TRUE BY <1>3
  <2>2. PICK pushed \in Blob : pushed = PushString(v) BY <2>1, PushStringBytes DEF String
  <2>3. <<1>> \o pushed \in Blob BY <1>1, Joined
  <2> QED BY <1>3, <2>1, <2>2, <2>3 DEF PushOptionalString, PushOptional
<1> QED BY <1>2, <1>3

LEMMA TakeOptionalStringBack ==
  ASSUME NEW value \in SUBSET (String), \A x, y \in value : x = y,
         Len(PushOptionalString(value)) < Limit, NEW rest \in Blob
  PROVE  TakeOptionalString(PushOptionalString(value) \o rest) = Took(value, rest)
<1>1. PICK zero \in Blob, one \in Blob :
        zero = <<0>> /\ one = <<1>> /\ 0 \in Bytes /\ 1 \in Bytes
  <2>1. 0 \in Bytes /\ 1 \in Bytes BY CodecAssumption DEF Bytes
  <2>2. <<0>> \in Blob /\ <<1>> \in Blob BY <2>1 DEF Blob
  <2> QED BY <2>1, <2>2
<1>2. CASE value = {}
  <2>1. PushOptionalString(value) = <<0>> BY <1>2 DEF PushOptionalString, PushOptional
  <2>2. TakeU8(<<0>> \o rest) = Took(0, rest) BY <1>1, TakeU8Back
  <2>3. TakeOptionalString(<<0>> \o rest) = Took({}, rest) BY <2>2, OptionalStringIs
  <2> QED BY <1>2, <2>1, <2>3
<1>3. CASE value # {}
  <2>1. PICK v \in String : v = CHOOSE x \in value : TRUE BY <1>3
  <2>2. value = {v} BY <1>3, <2>1
  <2>3. PICK pushed \in Blob : pushed = PushString(v) BY PushStringBytes DEF String
  <2>4. PushOptionalString(value) = Cat(one, pushed)
    BY <1>1, <1>3, <2>1, <2>3 DEF PushOptionalString, PushOptional, Cat
  <2>5. PICK input \in Blob : input = Cat(pushed, rest) BY CatJoined
  <2>6. Cat(Cat(one, pushed), rest) = Cat(one, input) BY <2>5, Regroup
  <2>7. Len(pushed) < Limit
    <3>1. Len(pushed) <= Len(Cat(one, pushed)) /\ Len(pushed) \in Nat /\ Cat(one, pushed) \in Blob
      BY CatJoined
    <3>2. Len(Cat(one, pushed)) \in Nat BY <3>1, CatJoined
    <3> QED BY <2>4, <3>1, <3>2, Widths
  <2>8. TakeU8(Cat(one, input)) = Took(1, input) BY <1>1, TakeU8Back DEF Cat
  <2>9. TakeString(input) = Took(v, rest)
    BY <2>3, <2>5, <2>7, TakeStringBack DEF Cat
  <2>10. TakeOptionalString(Cat(one, input)) = Took({v}, rest) BY <2>8, <2>9, OptionalStringIs
  <2> QED BY <2>2, <2>4, <2>6, <2>10 DEF Cat
<1> QED BY <1>2, <1>3

LEMMA PushLineBytes ==
  /\ \A line \in 0..(Limit - 1) : line \in Nat /\ line < Limit /\ PushU32(line) \in Blob
  /\ U32 \in Nat \ {0}
<1>1. PICK l \in Nat : l = Limit BY Widths
<1>2. \A line \in 0..(l - 1) : line \in Nat /\ line < l BY <1>1
<1> QED BY <1>1, <1>2, Widths, LittleEndianBytes DEF PushU32

LEMMA OptionalU32Is ==
  ASSUME NEW input, NEW after
  PROVE  /\ TakeU8(input) = Took(0, after) => TakeOptionalU32(input) = Took({}, after)
         /\ \A v, rest :
              TakeU8(input) = Took(1, after) /\ TakeU32(after) = Took(v, rest)
                => TakeOptionalU32(input) = Took({v}, rest)
<1> DEFINE One(w) == {w}
           Present(t) == IF t.value = 1 THEN Convert(TakeU32(t.rest), One) ELSE Took({}, t.rest)
<1>1. TakeOptionalU32(input) = OrError(TakeU8(input), Present)
  BY DEF TakeOptionalU32, TakeOptional
<1>2. ASSUME TakeU8(input) = Took(0, after)
      PROVE  OrError(TakeU8(input), Present) = Took({}, after)
  <2>1. Present(TakeU8(input)) = Took({}, after)
    <3> HIDE DEF One
    <3> QED BY <1>2 DEF Took
  <2>2. OrError(TakeU8(input), Present) = Present(TakeU8(input))
    <3> HIDE DEF Present
    <3> QED BY <1>2, Once DEF OrError, Bind, Took
  <2> HIDE DEF Present
  <2> QED BY <2>1, <2>2
<1>3. ASSUME NEW v, NEW rest, TakeU8(input) = Took(1, after), TakeU32(after) = Took(v, rest)
      PROVE  OrError(TakeU8(input), Present) = Took({v}, rest)
  <2>1. Convert(TakeU32(after), One) = Took(One(v), rest)
    <3> HIDE DEF One
    <3> QED BY <1>3, Once DEF Convert, OrError, Bind, Took
  <2>2. Present(TakeU8(input)) = Convert(TakeU32(after), One)
    <3> HIDE DEF One
    <3> QED BY <1>3 DEF Took
  <2>3. OrError(TakeU8(input), Present) = Present(TakeU8(input))
    <3> HIDE DEF Present
    <3> QED BY <1>3, Once DEF OrError, Bind, Took
  <2> QED BY <2>1, <2>2, <2>3
<1> QED BY <1>1, <1>2, <1>3

LEMMA OptionalU32Bytes ==
  ASSUME NEW value \in SUBSET (0..(Limit - 1))
  PROVE  PushOptionalU32(value) \in Blob
<1>1. <<0>> \in Blob /\ <<1>> \in Blob BY CodecAssumption DEF Blob, Bytes
<1>2. CASE value = {} BY <1>1, <1>2 DEF PushOptionalU32, PushOptional
<1>3. CASE value # {}
  <2>1. PICK v \in 0..(Limit - 1) : v = CHOOSE x \in value : TRUE BY <1>3
  <2>2. PICK pushed \in Blob : pushed = PushU32(v) BY <2>1, PushLineBytes
  <2>3. <<1>> \o pushed \in Blob BY <1>1, Joined
  <2> QED BY <1>3, <2>1, <2>2, <2>3 DEF PushOptionalU32, PushOptional
<1> QED BY <1>2, <1>3

LEMMA TakeOptionalU32Back ==
  ASSUME NEW value \in SUBSET (0..(Limit - 1)), \A x, y \in value : x = y,
         Len(PushOptionalU32(value)) < Limit, NEW rest \in Blob
  PROVE  TakeOptionalU32(PushOptionalU32(value) \o rest) = Took(value, rest)
<1>1. PICK zero \in Blob, one \in Blob :
        zero = <<0>> /\ one = <<1>> /\ 0 \in Bytes /\ 1 \in Bytes
  <2>1. 0 \in Bytes /\ 1 \in Bytes BY CodecAssumption DEF Bytes
  <2>2. <<0>> \in Blob /\ <<1>> \in Blob BY <2>1 DEF Blob
  <2> QED BY <2>1, <2>2
<1>2. CASE value = {}
  <2>1. PushOptionalU32(value) = <<0>> BY <1>2 DEF PushOptionalU32, PushOptional
  <2>2. TakeU8(<<0>> \o rest) = Took(0, rest) BY <1>1, TakeU8Back
  <2>3. TakeOptionalU32(<<0>> \o rest) = Took({}, rest) BY <2>2, OptionalU32Is
  <2> QED BY <1>2, <2>1, <2>3
<1>3. CASE value # {}
  <2>1. PICK v \in 0..(Limit - 1) : v = CHOOSE x \in value : TRUE BY <1>3
  <2>2. value = {v} BY <1>3, <2>1
  <2>3. PICK pushed \in Blob : pushed = PushU32(v) BY PushLineBytes
  <2>4. PushOptionalU32(value) = Cat(one, pushed)
    BY <1>1, <1>3, <2>1, <2>3 DEF PushOptionalU32, PushOptional, Cat
  <2>5. PICK input \in Blob : input = Cat(pushed, rest) BY CatJoined
  <2>6. Cat(Cat(one, pushed), rest) = Cat(one, input) BY <2>5, Regroup
  <2>7. Len(pushed) < Limit
    <3>1. Len(pushed) <= Len(Cat(one, pushed)) /\ Len(pushed) \in Nat /\ Cat(one, pushed) \in Blob
      BY CatJoined
    <3>2. Len(Cat(one, pushed)) \in Nat BY <3>1, CatJoined
    <3> QED BY <2>4, <3>1, <3>2, Widths
  <2>8. TakeU8(Cat(one, input)) = Took(1, input) BY <1>1, TakeU8Back DEF Cat
  <2>9. TakeU32(input) = Took(v, rest)
    BY <2>3, <2>5, <2>7, PushLineBytes, TakeNumberBack DEF TakeU32, PushU32, Limit, Cat
  <2>10. TakeOptionalU32(Cat(one, input)) = Took({v}, rest) BY <2>8, <2>9, OptionalU32Is
  <2> QED BY <2>2, <2>4, <2>6, <2>10 DEF Cat
<1> QED BY <1>2, <1>3

LEMMA OptionalSpanIs ==
  ASSUME NEW input, NEW after
  PROVE  /\ TakeU8(input) = Took(0, after) => TakeOptionalSpan(input) = Took({}, after)
         /\ \A v, rest :
              TakeU8(input) = Took(1, after) /\ TakeSpan(after) = Took(v, rest)
                => TakeOptionalSpan(input) = Took({v}, rest)
<1> DEFINE One(w) == {w}
           Present(t) == IF t.value = 1 THEN Convert(TakeSpan(t.rest), One) ELSE Took({}, t.rest)
<1>1. TakeOptionalSpan(input) = OrError(TakeU8(input), Present)
  BY DEF TakeOptionalSpan, TakeOptional
<1>2. ASSUME TakeU8(input) = Took(0, after)
      PROVE  OrError(TakeU8(input), Present) = Took({}, after)
  <2>1. Present(TakeU8(input)) = Took({}, after)
    <3> HIDE DEF One
    <3> QED BY <1>2 DEF Took
  <2>2. OrError(TakeU8(input), Present) = Present(TakeU8(input))
    <3> HIDE DEF Present
    <3> QED BY <1>2, Once DEF OrError, Bind, Took
  <2> HIDE DEF Present
  <2> QED BY <2>1, <2>2
<1>3. ASSUME NEW v, NEW rest, TakeU8(input) = Took(1, after), TakeSpan(after) = Took(v, rest)
      PROVE  OrError(TakeU8(input), Present) = Took({v}, rest)
  <2>1. Convert(TakeSpan(after), One) = Took(One(v), rest)
    <3> HIDE DEF One
    <3> QED BY <1>3, Once DEF Convert, OrError, Bind, Took
  <2>2. Present(TakeU8(input)) = Convert(TakeSpan(after), One)
    <3> HIDE DEF One
    <3> QED BY <1>3 DEF Took
  <2>3. OrError(TakeU8(input), Present) = Present(TakeU8(input))
    <3> HIDE DEF Present
    <3> QED BY <1>3, Once DEF OrError, Bind, Took
  <2> QED BY <2>1, <2>2, <2>3
<1> QED BY <1>1, <1>2, <1>3

LEMMA OptionalSpanBytes ==
  ASSUME NEW value \in SUBSET (AnySpan)
  PROVE  PushOptionalSpan(value) \in Blob
<1>1. <<0>> \in Blob /\ <<1>> \in Blob BY CodecAssumption DEF Blob, Bytes
<1>2. CASE value = {} BY <1>1, <1>2 DEF PushOptionalSpan, PushOptional
<1>3. CASE value # {}
  <2>1. PICK v \in AnySpan : v = CHOOSE x \in value : TRUE BY <1>3
  <2>2. PICK pushed \in Blob : pushed = PushSpan(v) BY <2>1, PushSpanBytes
  <2>3. <<1>> \o pushed \in Blob BY <1>1, Joined
  <2> QED BY <1>3, <2>1, <2>2, <2>3 DEF PushOptionalSpan, PushOptional
<1> QED BY <1>2, <1>3

LEMMA TakeOptionalSpanBack ==
  ASSUME NEW value \in SUBSET (SpanRecord), \A x, y \in value : x = y,
         Len(PushOptionalSpan(value)) < Limit, NEW rest \in Blob
  PROVE  TakeOptionalSpan(PushOptionalSpan(value) \o rest) = Took(value, rest)
<1>1. PICK zero \in Blob, one \in Blob :
        zero = <<0>> /\ one = <<1>> /\ 0 \in Bytes /\ 1 \in Bytes
  <2>1. 0 \in Bytes /\ 1 \in Bytes BY CodecAssumption DEF Bytes
  <2>2. <<0>> \in Blob /\ <<1>> \in Blob BY <2>1 DEF Blob
  <2> QED BY <2>1, <2>2
<1>2. CASE value = {}
  <2>1. PushOptionalSpan(value) = <<0>> BY <1>2 DEF PushOptionalSpan, PushOptional
  <2>2. TakeU8(<<0>> \o rest) = Took(0, rest) BY <1>1, TakeU8Back
  <2>3. TakeOptionalSpan(<<0>> \o rest) = Took({}, rest) BY <2>2, OptionalSpanIs
  <2> QED BY <1>2, <2>1, <2>3
<1>3. CASE value # {}
  <2>1. PICK v \in SpanRecord : v = CHOOSE x \in value : TRUE BY <1>3
  <2>2. value = {v} BY <1>3, <2>1
  <2>3. PICK pushed \in Blob : pushed = PushSpan(v) BY PushSpanBytes DEF SpanRecord
  <2>4. PushOptionalSpan(value) = Cat(one, pushed)
    BY <1>1, <1>3, <2>1, <2>3 DEF PushOptionalSpan, PushOptional, Cat
  <2>5. PICK input \in Blob : input = Cat(pushed, rest) BY CatJoined
  <2>6. Cat(Cat(one, pushed), rest) = Cat(one, input) BY <2>5, Regroup
  <2>7. Len(pushed) < Limit
    <3>1. Len(pushed) <= Len(Cat(one, pushed)) /\ Len(pushed) \in Nat /\ Cat(one, pushed) \in Blob
      BY CatJoined
    <3>2. Len(Cat(one, pushed)) \in Nat BY <3>1, CatJoined
    <3> QED BY <2>4, <3>1, <3>2, Widths
  <2>8. TakeU8(Cat(one, input)) = Took(1, input) BY <1>1, TakeU8Back DEF Cat
  <2>9. TakeSpan(input) = Took(v, rest)
    BY <2>3, <2>5, <2>7, TakeSpanBack DEF Cat
  <2>10. TakeOptionalSpan(Cat(one, input)) = Took({v}, rest) BY <2>8, <2>9, OptionalSpanIs
  <2> QED BY <2>2, <2>4, <2>6, <2>10 DEF Cat
<1> QED BY <1>2, <1>3

-----------------------------------------------------------------------------
(* Frames.                                                                 *)

AnyMetadata ==
  {m \in [id : 0..(Limit - 1), kind : ToSet(CallsiteKinds), level : Levels, file : SUBSET String,
          line : SUBSET (0..(Limit - 1)), module_path : SUBSET String,
          name : String, target : String, fields : Seq(String)] :
     /\ \A x, y \in m.file : x = y
     /\ \A x, y \in m.line : x = y
     /\ \A x, y \in m.module_path : x = y}

MetadataRecord == {m \in AnyMetadata : Len(m.fields) < Power(ByteBase, U16)}

MetadataPayload(m) ==
  PushU32(m.id) \o <<Code(CallsiteKinds, m.kind)>> \o <<m.level>>
    \o PushOptionalString(m.file) \o PushOptionalU32(m.line)
    \o PushOptionalString(m.module_path)
    \o PushString(m.name) \o PushString(m.target) \o PushStrings(m.fields)

DecodedMetadata(m) ==
  [frame |-> "metadata", id |-> m.id, kind |-> m.kind, level |-> m.level, file |-> m.file,
   line |-> m.line, module_path |-> m.module_path, name |-> m.name, target |-> m.target,
   fields |-> m.fields]

LEMMA TakeKindBack ==
  ASSUME NEW kind \in ToSet(CallsiteKinds), NEW rest \in Blob
  PROVE  /\ <<Code(CallsiteKinds, kind)>> \in Blob
         /\ TakeKind(<<Code(CallsiteKinds, kind)>> \o rest) = Took(Code(CallsiteKinds, kind), rest)
<1>1. PICK code \in Bytes : code = Code(CallsiteKinds, kind) /\ code \in DOMAIN CallsiteKinds
  BY CodeIs
<1>2. TakeU8(<<code>> \o rest) = Took(code, rest) BY TakeU8Back
<1>3. TakeKind(<<code>> \o rest) = Took(code, rest)
  BY <1>1, <1>2, Once DEF TakeKind, Check, OrError, Bind, Took
<1>4. <<code>> \in Blob BY DEF Blob
<1> QED BY <1>1, <1>3, <1>4

LEMMA AnyMetadataTypes ==
  ASSUME NEW m \in AnyMetadata
  PROVE  /\ m.id \in Nat /\ m.id < Limit
         /\ m.kind \in ToSet(CallsiteKinds)
         /\ Code(CallsiteKinds, m.kind) \in DOMAIN CallsiteKinds
         /\ CallsiteKinds[Code(CallsiteKinds, m.kind)] = m.kind
         /\ m.level \in Levels
         /\ m.file \in SUBSET String /\ \A x, y \in m.file : x = y
         /\ m.line \in SUBSET (0..(Limit - 1)) /\ \A x, y \in m.line : x = y
         /\ m.module_path \in SUBSET String /\ \A x, y \in m.module_path : x = y
         /\ m.name \in String /\ m.target \in String
         /\ m.fields \in Seq(String)
<1>1. PICK l \in Nat : l = Limit BY Widths
<1>2. PICK lines : lines = SUBSET (0..(Limit - 1)) OBVIOUS
<1>3. PICK texts, paths, lists : texts = String /\ paths = SUBSET String /\ lists = Seq(String)
  OBVIOUS
<1>4. PICK kinds : kinds = ToSet(CallsiteKinds) OBVIOUS
<1>5. /\ m \in [id : 0..(l - 1), kind : kinds, level : Levels, file : paths, line : lines,
                module_path : paths, name : texts, target : texts, fields : lists]
      /\ \A x, y \in m.file : x = y
      /\ \A x, y \in m.line : x = y
      /\ \A x, y \in m.module_path : x = y
  BY <1>1, <1>2, <1>3, <1>4 DEF AnyMetadata
<1>6. /\ m.id \in Nat /\ m.id < l /\ m.kind \in kinds /\ m.level \in Levels
      /\ m.file \in paths /\ m.line \in lines /\ m.module_path \in paths
      /\ m.name \in texts /\ m.target \in texts /\ m.fields \in lists
  BY <1>5
<1> QED BY <1>1, <1>2, <1>3, <1>4, <1>5, <1>6, CodeIs

LEMMA MetadataTypes ==
  ASSUME NEW m \in MetadataRecord
  PROVE  /\ m.id \in Nat /\ m.id < Limit
         /\ m.kind \in ToSet(CallsiteKinds)
         /\ Code(CallsiteKinds, m.kind) \in DOMAIN CallsiteKinds
         /\ CallsiteKinds[Code(CallsiteKinds, m.kind)] = m.kind
         /\ m.level \in Levels
         /\ m.file \in SUBSET String /\ \A x, y \in m.file : x = y
         /\ m.line \in SUBSET (0..(Limit - 1)) /\ \A x, y \in m.line : x = y
         /\ m.module_path \in SUBSET String /\ \A x, y \in m.module_path : x = y
         /\ m.name \in String /\ m.target \in String
         /\ m.fields \in Seq(String) /\ Len(m.fields) < Power(ByteBase, U16)
BY AnyMetadataTypes DEF MetadataRecord

LEMMA MetadataPieces ==
  ASSUME NEW m \in AnyMetadata
  PROVE  /\ PushU32(m.id) \in Blob /\ <<Code(CallsiteKinds, m.kind)>> \in Blob
         /\ <<m.level>> \in Blob /\ PushOptionalString(m.file) \in Blob
         /\ PushOptionalU32(m.line) \in Blob /\ PushOptionalString(m.module_path) \in Blob
         /\ PushString(m.name) \in Blob /\ PushString(m.target) \in Blob
         /\ PushStrings(m.fields) \in Blob
<1>1. PushU32(m.id) \in Blob BY AnyMetadataTypes, Widths, LittleEndianBytes DEF PushU32
<1>2. <<Code(CallsiteKinds, m.kind)>> \in Blob
  <2>1. <<>> \in Blob BY DEF Blob
  <2> QED BY <2>1, AnyMetadataTypes, TakeKindBack
<1>3. <<m.level>> \in Blob BY AnyMetadataTypes, LevelByte
<1>4. PushOptionalString(m.file) \in Blob BY AnyMetadataTypes, OptionalStringBytes
<1>5. PushOptionalString(m.module_path) \in Blob BY AnyMetadataTypes, OptionalStringBytes
<1>6. PushOptionalU32(m.line) \in Blob BY AnyMetadataTypes, OptionalU32Bytes
<1>7. PushString(m.name) \in Blob /\ PushString(m.target) \in Blob
  BY AnyMetadataTypes, PushStringBytes DEF String
<1>8. PushStrings(m.fields) \in Blob BY AnyMetadataTypes, PushStringsBytes
<1> QED BY <1>1, <1>2, <1>3, <1>4, <1>5, <1>6, <1>7, <1>8

LEMMA MetadataPayloadBytes ==
  ASSUME NEW m \in AnyMetadata
  PROVE  MetadataPayload(m) \in Blob
<1>1. PICK a \in Blob, b \in Blob, c \in Blob, d \in Blob, e \in Blob, f \in Blob, g \in Blob,
           h \in Blob, i \in Blob :
        /\ a = PushU32(m.id) /\ b = <<Code(CallsiteKinds, m.kind)>> /\ c = <<m.level>>
        /\ d = PushOptionalString(m.file) /\ e = PushOptionalU32(m.line)
        /\ f = PushOptionalString(m.module_path)
        /\ g = PushString(m.name) /\ h = PushString(m.target) /\ i = PushStrings(m.fields)
  BY MetadataPieces
<1>2. PICK whole : whole = Nine(a, b, c, d, e, f, g, h, i) /\ whole = MetadataPayload(m)
  BY <1>1 DEF MetadataPayload, Nine
<1>3. Nine(a, b, c, d, e, f, g, h, i) \in Blob BY GroupNine
<1> QED BY <1>2, <1>3

(* A metadata payload decodes to the metadata it was made of, and nothing  *)
(* of it is left over: the nine takes of decode_metadata_payload undo the  *)
(* pushes of encode_binary_metadata, for every presence of the optional    *)
(* parts and every list of field names that its count can hold.            *)
THEOREM MetadataBack ==
  ASSUME NEW m \in MetadataRecord, Len(MetadataPayload(m)) < Limit
  PROVE  DecodeMetadata(MetadataPayload(m)) = Took(DecodedMetadata(m), <<>>)
<1>1. PICK a \in Blob, b \in Blob, c \in Blob, d \in Blob, e \in Blob, f \in Blob, g \in Blob, h \in Blob, i \in Blob :
        /\ a = PushU32(m.id)
        /\ b = <<Code(CallsiteKinds, m.kind)>>
        /\ c = <<m.level>>
        /\ d = PushOptionalString(m.file)
        /\ e = PushOptionalU32(m.line)
        /\ f = PushOptionalString(m.module_path)
        /\ g = PushString(m.name)
        /\ h = PushString(m.target)
        /\ i = PushStrings(m.fields)
  BY MetadataPieces DEF MetadataRecord
<1>2. PICK whole : whole = Nine(a, b, c, d, e, f, g, h, i) /\ whole = MetadataPayload(m)
  BY <1>1 DEF MetadataPayload, Nine
<1>3. PICK nothing \in Blob : nothing = <<>>
  <2>1. <<>> \in Blob BY DEF Blob
  <2> QED BY <2>1
<1>4. /\ whole \in Blob /\ Len(whole) \in Nat
      /\ \A part \in {a, b, c, d, e, f, g, h, i} : Len(part) \in Nat /\ Len(part) <= Len(whole)
  <2>1. /\ Nine(a, b, c, d, e, f, g, h, i) \in Blob /\ Len(Nine(a, b, c, d, e, f, g, h, i)) \in Nat
        /\ \A part \in {a, b, c, d, e, f, g, h, i} : Len(part) \in Nat /\ Len(part) <= Len(Nine(a, b, c, d, e, f, g, h, i))
    BY GroupNine
  <2> QED BY <1>2, <2>1
<1>5. Cat(whole, nothing) = Cat(a, Cat(b, Cat(c, Cat(d, Cat(e, Cat(f, Cat(g, Cat(h, Cat(i, nothing)))))))))
  <2>1. Cat(Nine(a, b, c, d, e, f, g, h, i), nothing) = Cat(a, Cat(b, Cat(c, Cat(d, Cat(e, Cat(f, Cat(g, Cat(h, Cat(i, nothing)))))))))
    BY <1>3, SplitNine
  <2> QED BY <1>2, <2>1
<1>t1. PICK t1 \in Blob : t1 = Cat(i, nothing) BY <1>3, CatJoined
<1>t2. PICK t2 \in Blob : t2 = Cat(h, t1) BY <1>3, CatJoined
<1>t3. PICK t3 \in Blob : t3 = Cat(g, t2) BY <1>3, CatJoined
<1>t4. PICK t4 \in Blob : t4 = Cat(f, t3) BY <1>3, CatJoined
<1>t5. PICK t5 \in Blob : t5 = Cat(e, t4) BY <1>3, CatJoined
<1>t6. PICK t6 \in Blob : t6 = Cat(d, t5) BY <1>3, CatJoined
<1>t7. PICK t7 \in Blob : t7 = Cat(c, t6) BY <1>3, CatJoined
<1>t8. PICK t8 \in Blob : t8 = Cat(b, t7) BY <1>3, CatJoined
<1>6. PICK input \in Blob : input = Cat(a, t8) BY CatJoined
<1>7. input = whole
  <2>1. Cat(whole, nothing) = whole BY <1>3, <1>4, ConcatEmptySeq DEF Cat, Blob
  <2> QED BY <1>5, <1>t1, <1>t2, <1>t3, <1>t4, <1>t5, <1>t6, <1>t7, <1>t8, <1>6, <2>1
<1>8. \A part \in {a, b, c, d, e, f, g, h, i} : Len(part) < Limit
  BY <1>2, <1>4, Widths
<1>9. PICK id \in Nat, kind \in DOMAIN CallsiteKinds, level \in Levels, file \in SUBSET String,
           line \in SUBSET (0..(Limit - 1)), module_path \in SUBSET String, name \in String,
           target \in String, fields \in Seq(String) :
        /\ id = m.id /\ id < Limit
        /\ kind = Code(CallsiteKinds, m.kind) /\ CallsiteKinds[kind] = m.kind
        /\ m.kind \in ToSet(CallsiteKinds)
        /\ level = m.level
        /\ file = m.file /\ \A x, y \in file : x = y
        /\ line = m.line /\ \A x, y \in line : x = y
        /\ module_path = m.module_path /\ \A x, y \in module_path : x = y
        /\ name = m.name /\ target = m.target
        /\ fields = m.fields /\ Len(fields) < Power(ByteBase, U16)
  BY MetadataTypes
<1>10. TakeU32(input) = Took(id, t8)
  <2>1. a = LittleEndian(id, U32) BY <1>1, <1>9 DEF PushU32
  <2>2. id \in Nat /\ id < Limit BY <1>9
  <2>3. input = Cat(a, t8) BY <1>6
  <2> QED BY <1>3, <2>1, <2>2, <2>3, Widths, TakeNumberBack DEF TakeU32, Limit, Cat
<1>11. TakeKind(t8) = Took(kind, t7)
  BY <1>1, <1>3, <1>t8, <1>8, <1>9, TakeKindBack DEF Cat
<1>12. TakeLevel(t7) = Took(level, t6)
  BY <1>1, <1>3, <1>t7, <1>8, <1>9, TakeLevelBack DEF Cat
<1>13. TakeOptionalString(t6) = Took(file, t5)
  BY <1>1, <1>3, <1>t6, <1>8, <1>9, TakeOptionalStringBack DEF Cat
<1>14. TakeOptionalU32(t5) = Took(line, t4)
  BY <1>1, <1>3, <1>t5, <1>8, <1>9, TakeOptionalU32Back DEF Cat
<1>15. TakeOptionalString(t4) = Took(module_path, t3)
  BY <1>1, <1>3, <1>t4, <1>8, <1>9, TakeOptionalStringBack DEF Cat
<1>16. TakeString(t3) = Took(name, t2)
  BY <1>1, <1>3, <1>t3, <1>8, <1>9, TakeStringBack DEF Cat
<1>17. TakeString(t2) = Took(target, t1)
  BY <1>1, <1>3, <1>t2, <1>8, <1>9, TakeStringBack DEF Cat
<1>18. TakeStrings(t1) = Took(fields, nothing)
  BY <1>1, <1>3, <1>t1, <1>8, <1>9, TakeStringsBack
<1> DEFINE s1 == ThenU32(Took(<<>>, input))
           s2 == ThenKind(s1)
           s3 == ThenLevel(s2)
           s4 == ThenOptionalString(s3)
           s5 == ThenOptionalU32(s4)
           s6 == ThenOptionalString(s5)
           s7 == ThenString(s6)
           s8 == ThenString(s7)
           s9 == ThenStrings(s8)
           Build(v) == [frame |-> "metadata", id |-> v[1], kind |-> CallsiteKinds[v[2]],
                       level |-> v[3], file |-> v[4], line |-> v[5], module_path |-> v[6],
                       name |-> v[7], target |-> v[8], fields |-> v[9]]
<1>19. s1 = Took(<<id>>, t8) BY <1>10, FirstBack
<1>20. DecodeMetadata(input) = Convert(s9, Build)
  BY DEF DecodeMetadata, ThenU32, ThenKind, ThenLevel, ThenOptionalString, ThenOptionalU32,
         ThenString, ThenStrings
<1> HIDE DEF s1
<1>21. s2 = Took(<<id, kind>>, t7)
  <2>1. s2 = Took(Append(<<id>>, kind), t7) BY <1>11, <1>19, ThenBack
  <2>2. Append(<<id>>, kind) = <<id, kind>> BY Longer
  <2> QED BY <2>1, <2>2
<1> HIDE DEF s2
<1>22. s3 = Took(<<id, kind, level>>, t6)
  <2>1. s3 = Took(Append(<<id, kind>>, level), t6) BY <1>12, <1>21, ThenBack
  <2>2. Append(<<id, kind>>, level) = <<id, kind, level>> BY Longer
  <2> QED BY <2>1, <2>2
<1> HIDE DEF s3
<1>23. s4 = Took(<<id, kind, level, file>>, t5)
  <2>1. s4 = Took(Append(<<id, kind, level>>, file), t5) BY <1>13, <1>22, ThenBack
  <2>2. Append(<<id, kind, level>>, file) = <<id, kind, level, file>> BY Longer
  <2> QED BY <2>1, <2>2
<1> HIDE DEF s4
<1>24. s5 = Took(<<id, kind, level, file, line>>, t4)
  <2>1. s5 = Took(Append(<<id, kind, level, file>>, line), t4) BY <1>14, <1>23, ThenBack
  <2>2. Append(<<id, kind, level, file>>, line) = <<id, kind, level, file, line>> BY Longer
  <2> QED BY <2>1, <2>2
<1> HIDE DEF s5
<1>25. s6 = Took(<<id, kind, level, file, line, module_path>>, t3)
  <2>1. s6 = Took(Append(<<id, kind, level, file, line>>, module_path), t3) BY <1>15, <1>24, ThenBack
  <2>2. Append(<<id, kind, level, file, line>>, module_path) = <<id, kind, level, file, line, module_path>> BY Longer
  <2> QED BY <2>1, <2>2
<1> HIDE DEF s6
<1>26. s7 = Took(<<id, kind, level, file, line, module_path, name>>, t2)
  <2>1. s7 = Took(Append(<<id, kind, level, file, line, module_path>>, name), t2) BY <1>16, <1>25, ThenBack
  <2>2. Append(<<id, kind, level, file, line, module_path>>, name) = <<id, kind, level, file, line, module_path, name>> BY Longer
  <2> QED BY <2>1, <2>2
<1> HIDE DEF s7
<1>27. s8 = Took(<<id, kind, level, file, line, module_path, name, target>>, t1)
  <2>1. s8 = Took(Append(<<id, kind, level, file, line, module_path, name>>, target), t1) BY <1>17, <1>26, ThenBack
  <2>2. Append(<<id, kind, level, file, line, module_path, name>>, target) = <<id, kind, level, file, line, module_path, name, target>> BY Longer
  <2> QED BY <2>1, <2>2
<1> HIDE DEF s8
<1>28. s9 = Took(<<id, kind, level, file, line, module_path, name, target, fields>>, nothing)
  <2>1. s9 = Took(Append(<<id, kind, level, file, line, module_path, name, target>>, fields), nothing) BY <1>18, <1>27, ThenBack
  <2>2. Append(<<id, kind, level, file, line, module_path, name, target>>, fields) = <<id, kind, level, file, line, module_path, name, target, fields>> BY Longer
  <2> QED BY <2>1, <2>2
<1> HIDE DEF s9
<1>29. Build(<<id, kind, level, file, line, module_path, name, target, fields>>) = DecodedMetadata(m) BY <1>9 DEF DecodedMetadata
<1> HIDE DEF Build
<1>30. Convert(s9, Build) = Took(Build(<<id, kind, level, file, line, module_path, name, target, fields>>), nothing)
  <2>1. PICK vals : vals = <<id, kind, level, file, line, module_path, name, target, fields>> OBVIOUS
  <2>2. s9 = Took(vals, nothing) BY <1>28, <2>1
  <2>3. Convert(s9, Build) = Took(Build(vals), nothing)
    BY <2>2, Once DEF Convert, OrError, Bind, Took
  <2> QED BY <2>1, <2>3
<1> QED BY <1>2, <1>3, <1>7, <1>20, <1>29, <1>30

(* What an event is when it is written.                                    *)
AnyEvent ==
  {r \in [seconds : 0..(Power(ByteBase, U64) - 1), nanos : 0..(Limit - 1),
          metadata_id : 0..(Limit - 1), name : String, target : String, level : Levels,
          fields : Seq(Field), current_span : SUBSET AnySpan, spans : Seq(AnySpan)] :
     \A x, y \in r.current_span : x = y}

EventRecord ==
  {r \in AnyEvent :
     /\ r.current_span \subseteq SpanRecord /\ r.spans \in Seq(SpanRecord)
     /\ Len(r.fields) < Power(ByteBase, U16) /\ Len(r.spans) < Power(ByteBase, U16)}

CurrentSpanId(r) == IF r.current_span = {} THEN 0 ELSE (CHOOSE s \in r.current_span : TRUE).id
WrittenSpan(config, r) == IF config.current_span THEN r.current_span ELSE {}
WrittenSpans(config, r) == IF config.span_list THEN r.spans ELSE <<>>

EventPayload(config, r) ==
  LittleEndian(r.seconds, U64) \o PushU32(r.nanos) \o PushU32(r.metadata_id)
    \o LittleEndian(CurrentSpanId(r), U64)
    \o PushFields(r.fields)
    \o PushOptionalSpan(WrittenSpan(config, r))
    \o PushSpans(WrittenSpans(config, r))

DecodedEvent(config, r) ==
  [frame |-> "event", seconds |-> r.seconds, nanos |-> r.nanos, metadata_id |-> r.metadata_id,
   current_span_id |-> CurrentSpanId(r), fields |-> r.fields,
   current_span |-> WrittenSpan(config, r), spans |-> WrittenSpans(config, r)]

LEMMA PowerPositive == \A n \in Nat : Power(ByteBase, n) > 0
<1>1. ByteBase \in Nat /\ ByteBase > 0 BY CodecAssumption
<1> DEFINE P == {n \in Nat : Power(ByteBase, n) > 0}
<1>2. 0 \in P
  <2>1. Power(ByteBase, 0) = 1 BY Widths, PowerIs
  <2> QED BY <2>1
<1>3. ASSUME NEW k \in Nat, k \in P PROVE k + 1 \in P
  <2>1. PICK p \in Nat : p = Power(ByteBase, k) BY Widths, PowerIs
  <2>2. Power(ByteBase, k + 1) = ByteBase * p BY <2>1, Widths, PowerIs
  <2>3. p > 0 BY <1>3, <2>1
  <2>4. ByteBase * p > 0 BY <1>1, <2>3
  <2> QED BY <2>2, <2>4
<1>4. ASSUME NEW n \in Nat PROVE n \in P
  <2>1. 0 \in Nat /\ n \in Nat /\ \A i \in 0..n : i # n /\ i \in P => i + 1 \in P BY <1>3
  <2> HIDE DEF P
  <2>2. 0..n \subseteq P BY <1>2, <2>1, Induct
  <2> QED BY <2>2
<1> QED BY <1>4

LEMMA AnyEventTypes ==
  ASSUME NEW config, NEW r \in AnyEvent
  PROVE  /\ r.seconds \in Nat /\ r.seconds < Power(ByteBase, U64)
         /\ r.nanos \in Nat /\ r.nanos < Limit
         /\ r.metadata_id \in Nat /\ r.metadata_id < Limit
         /\ CurrentSpanId(r) \in Nat /\ CurrentSpanId(r) < Power(ByteBase, U64)
         /\ r.fields \in Seq(Field)
         /\ WrittenSpan(config, r) \in SUBSET AnySpan
         /\ \A x, y \in WrittenSpan(config, r) : x = y
         /\ WrittenSpans(config, r) \in Seq(AnySpan)
<1>1. Power(ByteBase, U64) \in Nat /\ Power(ByteBase, U16) \in Nat BY Widths, PowerIs
<1>2. \A n \in Nat : Power(ByteBase, n) > 0 BY PowerPositive
<1>3. CurrentSpanId(r) \in Nat /\ CurrentSpanId(r) < Power(ByteBase, U64)
  <2>1. CASE r.current_span = {} BY <1>1, <1>2, <2>1, Widths DEF CurrentSpanId
  <2>2. CASE r.current_span # {}
    <3>1. PICK s \in AnySpan : s = CHOOSE x \in r.current_span : TRUE
      BY <2>2 DEF AnyEvent
    <3>2. s.id \in 0..(Power(ByteBase, U64) - 1) BY DEF AnySpan
    <3> QED BY <1>1, <2>2, <3>1, <3>2 DEF CurrentSpanId
  <2> QED BY <2>1, <2>2
<1>4. /\ WrittenSpan(config, r) \in SUBSET AnySpan
      /\ \A x, y \in WrittenSpan(config, r) : x = y
  BY DEF WrittenSpan, AnyEvent
<1>5. WrittenSpans(config, r) \in Seq(AnySpan) BY DEF WrittenSpans, AnyEvent
<1>6. PICK u64 \in Nat, l \in Nat : u64 = Power(ByteBase, U64) /\ l = Limit BY <1>1, Widths
<1>7. /\ r.seconds \in 0..(u64 - 1) /\ r.nanos \in 0..(l - 1) /\ r.metadata_id \in 0..(l - 1)
      /\ r.fields \in Seq(Field)
  BY <1>6 DEF AnyEvent
<1> QED BY <1>3, <1>4, <1>5, <1>6, <1>7

LEMMA EventTypes ==
  ASSUME NEW config, NEW r \in EventRecord
  PROVE  /\ r.seconds \in Nat /\ r.seconds < Power(ByteBase, U64)
         /\ r.nanos \in Nat /\ r.nanos < Limit
         /\ r.metadata_id \in Nat /\ r.metadata_id < Limit
         /\ CurrentSpanId(r) \in Nat /\ CurrentSpanId(r) < Power(ByteBase, U64)
         /\ r.fields \in Seq(Field) /\ Len(r.fields) < Power(ByteBase, U16)
         /\ WrittenSpan(config, r) \in SUBSET SpanRecord
         /\ \A x, y \in WrittenSpan(config, r) : x = y
         /\ WrittenSpans(config, r) \in Seq(SpanRecord)
         /\ Len(WrittenSpans(config, r)) < Power(ByteBase, U16)
<1>1. r \in AnyEvent /\ Len(r.fields) < Power(ByteBase, U16) BY DEF EventRecord
<1>2. WrittenSpan(config, r) \in SUBSET SpanRecord BY DEF WrittenSpan, EventRecord
<1>3. /\ WrittenSpans(config, r) \in Seq(SpanRecord)
      /\ Len(WrittenSpans(config, r)) < Power(ByteBase, U16)
  <2>1. r.spans \in Seq(SpanRecord) /\ Len(r.spans) < Power(ByteBase, U16) BY DEF EventRecord
  <2>2. Len(<<>>) < Power(ByteBase, U16) BY PowerPositive, Widths
  <2> QED BY <2>1, <2>2 DEF WrittenSpans
<1> QED BY <1>1, <1>2, <1>3, AnyEventTypes

LEMMA EventPieces ==
  ASSUME NEW config, NEW r \in AnyEvent
  PROVE  /\ LittleEndian(r.seconds, U64) \in Blob /\ PushU32(r.nanos) \in Blob
         /\ PushU32(r.metadata_id) \in Blob /\ LittleEndian(CurrentSpanId(r), U64) \in Blob
         /\ PushFields(r.fields) \in Blob /\ PushOptionalSpan(WrittenSpan(config, r)) \in Blob
         /\ PushSpans(WrittenSpans(config, r)) \in Blob
<1>1. /\ LittleEndian(r.seconds, U64) \in Blob /\ PushU32(r.nanos) \in Blob
      /\ PushU32(r.metadata_id) \in Blob /\ LittleEndian(CurrentSpanId(r), U64) \in Blob
  BY AnyEventTypes, Widths, LittleEndianBytes DEF PushU32
<1>2. PushFields(r.fields) \in Blob BY AnyEventTypes, PushFieldsBytes
<1>3. PushOptionalSpan(WrittenSpan(config, r)) \in Blob BY AnyEventTypes, OptionalSpanBytes
<1>4. PushSpans(WrittenSpans(config, r)) \in Blob BY AnyEventTypes, PushSpansBytes
<1> QED BY <1>1, <1>2, <1>3, <1>4

LEMMA EventPayloadBytes ==
  ASSUME NEW config, NEW r \in AnyEvent
  PROVE  EventPayload(config, r) \in Blob
<1>1. PICK a \in Blob, b \in Blob, c \in Blob, d \in Blob, e \in Blob, f \in Blob, g \in Blob :
        /\ a = LittleEndian(r.seconds, U64) /\ b = PushU32(r.nanos) /\ c = PushU32(r.metadata_id)
        /\ d = LittleEndian(CurrentSpanId(r), U64) /\ e = PushFields(r.fields)
        /\ f = PushOptionalSpan(WrittenSpan(config, r)) /\ g = PushSpans(WrittenSpans(config, r))
  BY EventPieces
<1>2. PICK whole : whole = Seven(a, b, c, d, e, f, g) /\ whole = EventPayload(config, r)
  BY <1>1 DEF EventPayload, Seven
<1>3. Seven(a, b, c, d, e, f, g) \in Blob BY GroupSeven
<1> QED BY <1>2, <1>3

(* The payload of an event decodes to the event as far as its encoding     *)
(* keeps it, for all fields, spans and configurations:                     *)
(* decode_event_payload undoes encode_binary_record.                       *)
THEOREM EventBack ==
  ASSUME NEW config, NEW r \in EventRecord, Len(EventPayload(config, r)) < Limit
  PROVE  DecodeEvent(EventPayload(config, r)) = Took(DecodedEvent(config, r), <<>>)
<1>1. PICK a \in Blob, b \in Blob, c \in Blob, d \in Blob, e \in Blob, f \in Blob, g \in Blob :
        /\ a = LittleEndian(r.seconds, U64)
        /\ b = PushU32(r.nanos)
        /\ c = PushU32(r.metadata_id)
        /\ d = LittleEndian(CurrentSpanId(r), U64)
        /\ e = PushFields(r.fields)
        /\ f = PushOptionalSpan(WrittenSpan(config, r))
        /\ g = PushSpans(WrittenSpans(config, r))
  BY EventPieces DEF EventRecord
<1>2. PICK whole : whole = Seven(a, b, c, d, e, f, g) /\ whole = EventPayload(config, r)
  BY <1>1 DEF EventPayload, Seven
<1>3. PICK nothing \in Blob : nothing = <<>>
  <2>1. <<>> \in Blob BY DEF Blob
  <2> QED BY <2>1
<1>4. /\ whole \in Blob /\ Len(whole) \in Nat
      /\ \A part \in {a, b, c, d, e, f, g} : Len(part) \in Nat /\ Len(part) <= Len(whole)
  <2>1. /\ Seven(a, b, c, d, e, f, g) \in Blob /\ Len(Seven(a, b, c, d, e, f, g)) \in Nat
        /\ \A part \in {a, b, c, d, e, f, g} : Len(part) \in Nat /\ Len(part) <= Len(Seven(a, b, c, d, e, f, g))
    BY GroupSeven
  <2> QED BY <1>2, <2>1
<1>5. Cat(whole, nothing) = Cat(a, Cat(b, Cat(c, Cat(d, Cat(e, Cat(f, Cat(g, nothing)))))))
  <2>1. Cat(Seven(a, b, c, d, e, f, g), nothing) = Cat(a, Cat(b, Cat(c, Cat(d, Cat(e, Cat(f, Cat(g, nothing)))))))
    BY <1>3, SplitSeven
  <2> QED BY <1>2, <2>1
<1>t1. PICK t1 \in Blob : t1 = Cat(g, nothing) BY <1>3, CatJoined
<1>t2. PICK t2 \in Blob : t2 = Cat(f, t1) BY <1>3, CatJoined
<1>t3. PICK t3 \in Blob : t3 = Cat(e, t2) BY <1>3, CatJoined
<1>t4. PICK t4 \in Blob : t4 = Cat(d, t3) BY <1>3, CatJoined
<1>t5. PICK t5 \in Blob : t5 = Cat(c, t4) BY <1>3, CatJoined
<1>t6. PICK t6 \in Blob : t6 = Cat(b, t5) BY <1>3, CatJoined
<1>6. PICK input \in Blob : input = Cat(a, t6) BY CatJoined
<1>7. input = whole
  <2>1. Cat(whole, nothing) = whole BY <1>3, <1>4, ConcatEmptySeq DEF Cat, Blob
  <2> QED BY <1>5, <1>t1, <1>t2, <1>t3, <1>t4, <1>t5, <1>t6, <1>6, <2>1
<1>8. \A part \in {a, b, c, d, e, f, g} : Len(part) < Limit
  BY <1>2, <1>4, Widths
<1>9. PICK seconds \in Nat, nanos \in Nat, metadata_id \in Nat, current_span_id \in Nat,
           fields \in Seq(Field), current_span \in SUBSET SpanRecord, spans \in Seq(SpanRecord) :
        /\ seconds = r.seconds /\ seconds < Power(ByteBase, U64)
        /\ nanos = r.nanos /\ nanos < Limit
        /\ metadata_id = r.metadata_id /\ metadata_id < Limit
        /\ current_span_id = CurrentSpanId(r) /\ current_span_id < Power(ByteBase, U64)
        /\ fields = r.fields /\ Len(fields) < Power(ByteBase, U16)
        /\ current_span = WrittenSpan(config, r) /\ \A x, y \in current_span : x = y
        /\ spans = WrittenSpans(config, r) /\ Len(spans) < Power(ByteBase, U16)
  BY EventTypes
<1>10. TakeU64(input) = Took(seconds, t6)
  <2>1. a = LittleEndian(seconds, U64) BY <1>1, <1>9 DEF PushU32
  <2>2. seconds \in Nat /\ seconds < Power(ByteBase, U64) BY <1>9
  <2>3. input = Cat(a, t6) BY <1>6
  <2> QED BY <1>3, <2>1, <2>2, <2>3, Widths, TakeNumberBack DEF TakeU64, Cat
<1>11. TakeU32(t6) = Took(nanos, t5)
  <2>1. b = LittleEndian(nanos, U32) BY <1>1, <1>9 DEF PushU32
  <2>2. nanos \in Nat /\ nanos < Limit BY <1>9
  <2>3. t6 = Cat(b, t5) BY <1>t6
  <2> QED BY <1>3, <2>1, <2>2, <2>3, Widths, TakeNumberBack DEF TakeU32, Limit, Cat
<1>12. TakeU32(t5) = Took(metadata_id, t4)
  <2>1. c = LittleEndian(metadata_id, U32) BY <1>1, <1>9 DEF PushU32
  <2>2. metadata_id \in Nat /\ metadata_id < Limit BY <1>9
  <2>3. t5 = Cat(c, t4) BY <1>t5
  <2> QED BY <1>3, <2>1, <2>2, <2>3, Widths, TakeNumberBack DEF TakeU32, Limit, Cat
<1>13. TakeU64(t4) = Took(current_span_id, t3)
  <2>1. d = LittleEndian(current_span_id, U64) BY <1>1, <1>9 DEF PushU32
  <2>2. current_span_id \in Nat /\ current_span_id < Power(ByteBase, U64) BY <1>9
  <2>3. t4 = Cat(d, t3) BY <1>t4
  <2> QED BY <1>3, <2>1, <2>2, <2>3, Widths, TakeNumberBack DEF TakeU64, Cat
<1>14. TakeFields(t3) = Took(fields, t2)
  BY <1>1, <1>3, <1>t3, <1>8, <1>9, TakeFieldsBack
<1>15. TakeOptionalSpan(t2) = Took(current_span, t1)
  BY <1>1, <1>3, <1>t2, <1>8, <1>9, TakeOptionalSpanBack DEF Cat
<1>16. TakeSpans(t1) = Took(spans, nothing)
  BY <1>1, <1>3, <1>t1, <1>8, <1>9, TakeSpansBack
<1> DEFINE s1 == ThenU64(Took(<<>>, input))
           s2 == ThenU32(s1)
           s3 == ThenU32(s2)
           s4 == ThenU64(s3)
           s5 == ThenFields(s4)
           s6 == ThenOptionalSpan(s5)
           s7 == ThenSpans(s6)
           Build(v) == [frame |-> "event", seconds |-> v[1], nanos |-> v[2], metadata_id |-> v[3],
                       current_span_id |-> v[4], fields |-> v[5], current_span |-> v[6],
                       spans |-> v[7]]
<1>17. s1 = Took(<<seconds>>, t6) BY <1>10, FirstBack
<1>18. DecodeEvent(input) = Convert(s7, Build)
  BY DEF DecodeEvent, ThenU64, ThenU32, ThenFields, ThenOptionalSpan, ThenSpans
<1> HIDE DEF s1
<1>19. s2 = Took(<<seconds, nanos>>, t5)
  <2>1. s2 = Took(Append(<<seconds>>, nanos), t5) BY <1>11, <1>17, ThenBack
  <2>2. Append(<<seconds>>, nanos) = <<seconds, nanos>> BY Longer
  <2> QED BY <2>1, <2>2
<1> HIDE DEF s2
<1>20. s3 = Took(<<seconds, nanos, metadata_id>>, t4)
  <2>1. s3 = Took(Append(<<seconds, nanos>>, metadata_id), t4) BY <1>12, <1>19, ThenBack
  <2>2. Append(<<seconds, nanos>>, metadata_id) = <<seconds, nanos, metadata_id>> BY Longer
  <2> QED BY <2>1, <2>2
<1> HIDE DEF s3
<1>21. s4 = Took(<<seconds, nanos, metadata_id, current_span_id>>, t3)
  <2>1. s4 = Took(Append(<<seconds, nanos, metadata_id>>, current_span_id), t3) BY <1>13, <1>20, ThenBack
  <2>2. Append(<<seconds, nanos, metadata_id>>, current_span_id) = <<seconds, nanos, metadata_id, current_span_id>> BY Longer
  <2> QED BY <2>1, <2>2
<1> HIDE DEF s4
<1>22. s5 = Took(<<seconds, nanos, metadata_id, current_span_id, fields>>, t2)
  <2>1. s5 = Took(Append(<<seconds, nanos, metadata_id, current_span_id>>, fields), t2) BY <1>14, <1>21, ThenBack
  <2>2. Append(<<seconds, nanos, metadata_id, current_span_id>>, fields) = <<seconds, nanos, metadata_id, current_span_id, fields>> BY Longer
  <2> QED BY <2>1, <2>2
<1> HIDE DEF s5
<1>23. s6 = Took(<<seconds, nanos, metadata_id, current_span_id, fields, current_span>>, t1)
  <2>1. s6 = Took(Append(<<seconds, nanos, metadata_id, current_span_id, fields>>, current_span), t1) BY <1>15, <1>22, ThenBack
  <2>2. Append(<<seconds, nanos, metadata_id, current_span_id, fields>>, current_span) = <<seconds, nanos, metadata_id, current_span_id, fields, current_span>> BY Longer
  <2> QED BY <2>1, <2>2
<1> HIDE DEF s6
<1>24. s7 = Took(<<seconds, nanos, metadata_id, current_span_id, fields, current_span, spans>>, nothing)
  <2>1. s7 = Took(Append(<<seconds, nanos, metadata_id, current_span_id, fields, current_span>>, spans), nothing) BY <1>16, <1>23, ThenBack
  <2>2. Append(<<seconds, nanos, metadata_id, current_span_id, fields, current_span>>, spans) = <<seconds, nanos, metadata_id, current_span_id, fields, current_span, spans>> BY Longer
  <2> QED BY <2>1, <2>2
<1> HIDE DEF s7
<1>25. Build(<<seconds, nanos, metadata_id, current_span_id, fields, current_span, spans>>) = DecodedEvent(config, r) BY <1>9 DEF DecodedEvent
<1> HIDE DEF Build
<1>26. Convert(s7, Build) = Took(Build(<<seconds, nanos, metadata_id, current_span_id, fields, current_span, spans>>), nothing)
  <2>1. PICK vals : vals = <<seconds, nanos, metadata_id, current_span_id, fields, current_span, spans>> OBVIOUS
  <2>2. s7 = Took(vals, nothing) BY <1>24, <2>1
  <2>3. Convert(s7, Build) = Took(Build(vals), nothing)
    BY <2>2, Once DEF Convert, OrError, Bind, Took
  <2> QED BY <2>1, <2>3
<1> QED BY <1>2, <1>3, <1>7, <1>18, <1>25, <1>26

LEMMA FrameBytes ==
  ASSUME NEW kind \in Bytes, NEW payload \in Blob
  PROVE  \E head \in Blob, length \in Blob :
           /\ head = <<kind>> /\ Len(head) = 1
           /\ length = PushU32(Len(payload)) /\ Len(length) = U32
           /\ Frame(kind, payload) = Cat(head, Cat(length, payload))
           /\ Cat(length, payload) \in Blob /\ Len(Cat(length, payload)) = U32 + Len(payload)
           /\ Frame(kind, payload) \in Blob /\ Len(Frame(kind, payload)) = 1 + U32 + Len(payload)
           /\ Len(payload) \in Nat
<1>1. Len(payload) \in Nat BY DEF Blob
<1>2. PICK head \in Blob : head = <<kind>> /\ Len(head) = 1
  <2>1. <<kind>> \in Blob /\ Len(<<kind>>) = 1 BY DEF Blob
  <2> QED BY <2>1
<1>3. PICK length \in Blob : length = PushU32(Len(payload)) /\ Len(length) = U32
  BY <1>1, Widths, LittleEndianBytes DEF PushU32
<1>4. Cat(length, payload) \in Blob /\ Len(Cat(length, payload)) = U32 + Len(payload)
  BY <1>3, ConcatProperties DEF Cat, Blob
<1>5. PICK t \in Blob : t = Cat(length, payload) BY <1>4
<1>6. Cat(head, t) \in Blob /\ Len(Cat(head, t)) = 1 + U32 + Len(payload)
  <2>1. Cat(head, t) \in Blob /\ Len(Cat(head, t)) = Len(head) + Len(t)
    BY ConcatProperties DEF Cat, Blob
  <2>2. Len(head) + Len(t) = 1 + U32 + Len(payload) BY <1>1, <1>2, <1>4, <1>5, Widths
  <2> QED BY <2>1, <2>2
<1>7. Frame(kind, payload) = Cat(Cat(head, length), payload) BY <1>2, <1>3 DEF Frame, Cat
<1>8. Cat(Cat(head, length), payload) = Cat(head, t) BY <1>5, Regroup
<1> QED BY <1>1, <1>2, <1>3, <1>4, <1>5, <1>6, <1>7, <1>8

(* The kind and the length before a payload, whole or not.                 *)
LEMMA HeaderBack ==
  ASSUME NEW kind \in Bytes, NEW n \in Nat, n < Limit, NEW rest \in Blob,
         NEW head \in Blob, head = <<kind>>, NEW length \in Blob, length = PushU32(n)
  PROVE  /\ ThenU8(Took(<<>>, Cat(head, rest))) = Took(<<kind>>, rest)
         /\ ThenU32(ThenU8(Took(<<>>, Cat(head, Cat(length, rest))))) = Took(<<kind, n>>, rest)
<1>1. \A r \in Blob : ThenU8(Took(<<>>, Cat(head, r))) = Took(<<kind>>, r)
  <2> TAKE r \in Blob
  <2>1. TakeU8(Cat(head, r)) = Took(kind, r) BY TakeU8Back DEF Cat
  <2> QED BY <2>1, FirstBack
<1>2. PICK t \in Blob : t = Cat(length, rest) BY CatJoined
<1>3. ThenU8(Took(<<>>, Cat(head, t))) = Took(<<kind>>, t) BY <1>1
<1>4. TakeU32(t) = Took(n, rest)
  BY <1>2, Widths, TakeNumberBack DEF TakeU32, PushU32, Limit, Cat
<1>5. ThenU32(Took(<<kind>>, t)) = Took(Append(<<kind>>, n), rest) BY <1>4, ThenBack
<1>6. Append(<<kind>>, n) = <<kind, n>> BY Longer
<1>7. PICK taken : taken = ThenU8(Took(<<>>, Cat(head, t))) OBVIOUS
<1>8. ThenU32(taken) = Took(<<kind, n>>, rest)
  <2>1. taken = Took(<<kind>>, t) BY <1>3, <1>7
  <2> QED BY <1>5, <1>6, <2>1
<1> QED BY <1>1, <1>2, <1>7, <1>8

(* What the decoder makes of a frame whose header it has read.             *)
FrameOf(header, payload) ==
  OrError(DecodePayload(header.value[1], payload.value),
          LAMBDA frame : Took(frame.value, payload.rest))

PayloadOf(header) ==
  OrError(TakeBytes(header.value[2], header.rest), LAMBDA payload : FrameOf(header, payload))

LEMMA FrameIs ==
  ASSUME NEW input, NEW kind, NEW n, NEW after,
         ThenU32(ThenU8(Took(<<>>, input))) = Took(<<kind, n>>, after)
  PROVE  /\ \A payload, rest, value, r :
              TakeBytes(n, after) = Took(payload, rest) /\ DecodePayload(kind, payload) = Took(value, r)
                => DecodeFrame(input) = Took(value, rest)
         /\ \A error : error # None /\ TakeBytes(n, after) = Failed(error)
                         => DecodeFrame(input) = Failed(error)
<1>1. PICK header : header = ThenU32(ThenU8(Took(<<>>, input))) OBVIOUS
<1>2. /\ header.error = None /\ header.rest = after
      /\ header.value[1] = kind /\ header.value[2] = n
  <2>1. PICK v : v = <<kind, n>> OBVIOUS
  <2>2. header = Took(v, after) BY <1>1, <2>1
  <2>3. header.error = None /\ header.rest = after /\ header.value = v BY <2>2 DEF Took
  <2> QED BY <2>1, <2>3
<1>3. DecodeFrame(input) = OrError(header, PayloadOf)
  <2>1. DecodeFrame(input) = OrError(ThenU32(ThenU8(Took(<<>>, input))), PayloadOf)
    BY DEF DecodeFrame, ThenU32, ThenU8, PayloadOf, FrameOf
  <2> QED BY <1>1, <2>1 DEF OrError, Bind
<1>4. OrError(header, PayloadOf) = PayloadOf(header) BY <1>2, Once DEF OrError, Bind
<1> DEFINE Payload(payload) == FrameOf(header, payload)
<1>5. PayloadOf(header) = OrError(TakeBytes(header.value[2], header.rest), Payload)
  BY DEF PayloadOf
<1>6. PICK taken : taken = TakeBytes(n, after) OBVIOUS
<1>7. PayloadOf(header) = OrError(taken, Payload) BY <1>2, <1>5, <1>6 DEF OrError, Bind
<1>8. ASSUME NEW payload, NEW rest, NEW value, NEW r,
             TakeBytes(n, after) = Took(payload, rest), DecodePayload(kind, payload) = Took(value, r)
      PROVE  DecodeFrame(input) = Took(value, rest)
  <2>1. taken.error = None /\ taken.value = payload /\ taken.rest = rest BY <1>6, <1>8 DEF Took
  <2>2. OrError(taken, Payload) = Payload(taken)
    <3> HIDE DEF Payload
    <3> QED BY <2>1, Once DEF OrError, Bind
  <2> DEFINE Build(frame) == Took(frame.value, taken.rest)
  <2>3. Payload(taken) = OrError(DecodePayload(header.value[1], taken.value), Build) BY DEF FrameOf
  <2>4. PICK frame : frame = DecodePayload(kind, payload) OBVIOUS
  <2>5. frame.error = None /\ frame.value = value BY <1>8, <2>4 DEF Took
  <2>6. DecodePayload(header.value[1], taken.value) = frame BY <1>2, <2>1, <2>4
  <2>7. OrError(DecodePayload(header.value[1], taken.value), Build) = Build(frame)
    <3> HIDE DEF Build
    <3> QED BY <2>5, <2>6, Once DEF OrError, Bind
  <2>8. Build(frame) = Took(value, rest) BY <2>1, <2>5
  <2> HIDE DEF Build, Payload
  <2> QED BY <1>3, <1>4, <1>7, <2>2, <2>3, <2>7, <2>8
<1>9. ASSUME NEW error, error # None, TakeBytes(n, after) = Failed(error)
      PROVE  DecodeFrame(input) = Failed(error)
  <2>1. taken = Failed(error) /\ taken.error # None BY <1>6, <1>9 DEF Failed
  <2>2. OrError(taken, Payload) = taken
    <3> HIDE DEF Payload
    <3> QED BY <2>1, Once DEF OrError, Bind
  <2> HIDE DEF Payload
  <2> QED BY <1>3, <1>4, <1>7, <2>1, <2>2
<1> QED BY <1>8, <1>9

(* A frame in front of anything is read as it was written, up to exactly   *)
(* where it ends: decode_binary_frame goes by the length in the header.    *)
THEOREM FrameBack ==
  ASSUME NEW kind \in Bytes, NEW payload \in Blob, Len(payload) < Limit, NEW rest \in Blob,
         NEW value, NEW r, DecodePayload(kind, payload) = Took(value, r)
  PROVE  DecodeFrame(Cat(Frame(kind, payload), rest)) = Took(value, rest)
<1>1. PICK head \in Blob, length \in Blob :
        /\ head = <<kind>> /\ length = PushU32(Len(payload))
        /\ Frame(kind, payload) = Cat(head, Cat(length, payload))
        /\ Cat(length, payload) \in Blob /\ Len(payload) \in Nat
  BY FrameBytes
<1>2. PICK after \in Blob : after = Cat(payload, rest) BY CatJoined
<1>3. Cat(Cat(head, Cat(length, payload)), rest) = Cat(head, Cat(length, after))
  <2>1. PICK t \in Blob : t = Cat(length, payload) BY <1>1
  <2>2. Cat(Cat(head, t), rest) = Cat(head, Cat(t, rest)) BY Regroup
  <2>3. Cat(t, rest) = Cat(length, after) BY <1>2, <2>1, Regroup
  <2> QED BY <2>1, <2>2, <2>3
<1>4. PICK input : input = Cat(Frame(kind, payload), rest) OBVIOUS
<1>5. ThenU32(ThenU8(Took(<<>>, input))) = Took(<<kind, Len(payload)>>, after)
  <2>1. ThenU32(ThenU8(Took(<<>>, Cat(head, Cat(length, after))))) = Took(<<kind, Len(payload)>>, after)
    BY <1>1, HeaderBack
  <2>2. input = Cat(head, Cat(length, after)) BY <1>1, <1>3, <1>4
  <2> QED BY <2>1, <2>2
<1>6. TakeBytes(Len(payload), after) = Took(payload, rest) BY <1>2, TakeBytesBack DEF Cat
<1>7. DecodeFrame(input) = Took(value, rest) BY <1>5, <1>6, FrameIs
<1> QED BY <1>4, <1>7

(* A frame that is cut, in its header or in its payload.                   *)
LEMMA PrefixOf ==
  ASSUME NEW s \in Seq(Bytes), NEW n \in 0..Len(s)
  PROVE  /\ SubSeq(s, 1, n) \in Seq(Bytes) /\ Len(SubSeq(s, 1, n)) = n
         /\ \A i \in 1..n : SubSeq(s, 1, n)[i] = s[i]
<1>1. \A i \in 1..n : s[i] \in Bytes OBVIOUS
<1>2. /\ SubSeq(s, 1, n) \in Seq(Bytes)
      /\ Len(SubSeq(s, 1, n)) = IF 1 <= n THEN n - 1 + 1 ELSE 0
      /\ \A i \in 1..n - 1 + 1 : SubSeq(s, 1, n)[i] = s[1 + i - 1]
  BY <1>1, SubSeqProperties
<1>3. n - 1 + 1 = n /\ \A i \in 1..n : 1 + i - 1 = i OBVIOUS
<1>4. \A i \in 1..n : SubSeq(s, 1, n)[i] = s[i]
  <2> TAKE i \in 1..n
  <2>1. i \in 1..n - 1 + 1 /\ 1 + i - 1 = i BY <1>3
  <2> QED BY <1>2, <2>1
<1> QED BY <1>2, <1>3, <1>4

LEMMA Cut ==
  ASSUME NEW s \in Blob, NEW t \in Blob, NEW n \in 0..Len(s \o t)
  PROVE  /\ n <= Len(s) => SubSeq(s \o t, 1, n) = SubSeq(s, 1, n)
         /\ n > Len(s) => SubSeq(s \o t, 1, n) = s \o SubSeq(t, 1, n - Len(s))
         /\ Len(s \o t) = Len(s) + Len(t) /\ Len(s) \in Nat /\ Len(t) \in Nat
         /\ SubSeq(s \o t, 1, n) \in Blob /\ Len(SubSeq(s \o t, 1, n)) = n
<1>1. /\ s \in Seq(Bytes) /\ t \in Seq(Bytes) /\ s \o t \in Seq(Bytes)
      /\ Len(s \o t) = Len(s) + Len(t) /\ Len(s) \in Nat /\ Len(t) \in Nat
  BY ConcatProperties DEF Blob
<1> DEFINE whole == s \o t
<1>2. \A i \in 1..(Len(s) + Len(t)) : whole[i] = IF i <= Len(s) THEN s[i] ELSE t[i - Len(s)]
  BY <1>1, ConcatProperties
<1>3. PICK w \in Blob : w = whole BY <1>1 DEF Blob
<1>4. PICK a \in Nat, b \in Nat : a = Len(s) /\ b = Len(t) BY <1>1
<1> HIDE DEF whole
<1>5. n \in 0..(a + b) /\ Len(w) = a + b BY <1>1, <1>3, <1>4 DEF whole
<1>6. /\ SubSeq(w, 1, n) \in Seq(Bytes) /\ Len(SubSeq(w, 1, n)) = n
      /\ \A i \in 1..n : SubSeq(w, 1, n)[i] = w[i]
  <2>1. n \in 0..Len(w) /\ w \in Seq(Bytes) BY <1>5 DEF Blob
  <2> QED BY <2>1, PrefixOf
<1>7. CASE n <= a
  <2>1. /\ SubSeq(s, 1, n) \in Seq(Bytes) /\ Len(SubSeq(s, 1, n)) = n
        /\ \A i \in 1..n : SubSeq(s, 1, n)[i] = s[i]
    <3>1. n \in 0..Len(s) /\ s \in Seq(Bytes) BY <1>1, <1>4, <1>5, <1>7
    <3> QED BY <3>1, PrefixOf
  <2>2. \A i \in 1..n : w[i] = s[i]
    <3> TAKE i \in 1..n
    <3>1. i \in 1..(Len(s) + Len(t)) /\ i <= Len(s) BY <1>4, <1>5, <1>7
    <3> QED BY <1>2, <1>3, <3>1
  <2>3. PICK p \in Seq(Bytes), q \in Seq(Bytes) : p = SubSeq(w, 1, n) /\ q = SubSeq(s, 1, n)
    BY <1>6, <2>1
  <2>4. p = q
    <3>1. Len(p) = n /\ Len(q) = n /\ \A i \in 1..n : p[i] = q[i] BY <1>6, <2>1, <2>2, <2>3
    <3> QED BY <3>1, SeqEqual
  <2> QED BY <1>1, <1>3, <1>4, <1>6, <1>7, <2>3, <2>4 DEF whole, Blob
<1>8. CASE n > a
  <2>1. PICK k \in 0..b : k = n - a
    <3>1. n \in Nat /\ n <= a + b BY <1>4, <1>5
    <3>2. n - a \in 0..b BY <1>4, <1>8, <3>1
    <3> QED BY <3>2
  <2>2. /\ SubSeq(t, 1, k) \in Seq(Bytes) /\ Len(SubSeq(t, 1, k)) = k
        /\ \A i \in 1..k : SubSeq(t, 1, k)[i] = t[i]
    <3>1. k \in 0..Len(t) /\ t \in Seq(Bytes) BY <1>1, <1>4, <2>1
    <3> QED BY <3>1, PrefixOf
  <2>3. PICK u \in Seq(Bytes) : u = SubSeq(t, 1, k) BY <2>2
  <2>4. /\ s \o u \in Seq(Bytes) /\ Len(s \o u) = a + k
        /\ \A i \in 1..(a + k) : (s \o u)[i] = IF i <= a THEN s[i] ELSE u[i - a]
    BY <1>1, <1>4, <2>2, <2>3, ConcatProperties
  <2>5. PICK p \in Seq(Bytes), q \in Seq(Bytes) : p = SubSeq(w, 1, n) /\ q = s \o u
    BY <1>6, <2>4
  <2>6. a + k = n BY <1>4, <1>5, <2>1
  <2>7. \A i \in 1..n : p[i] = q[i]
    <3> TAKE i \in 1..n
    <3>1. p[i] = w[i] BY <1>6, <2>5
    <3>2. i \in 1..(a + b) /\ i \in 1..(a + k) BY <1>4, <1>5, <2>6
    <3>3. w[i] = IF i <= a THEN s[i] ELSE t[i - a] BY <1>2, <1>3, <1>4, <3>2
    <3>4. q[i] = IF i <= a THEN s[i] ELSE u[i - a] BY <2>4, <2>5, <3>2
    <3>5. ASSUME ~(i <= a) PROVE u[i - a] = t[i - a]
      <4>1. i - a \in 1..k BY <1>4, <2>6, <3>5
      <4> QED BY <2>2, <2>3, <4>1
    <3> QED BY <3>1, <3>3, <3>4, <3>5
  <2>8. p = q
    <3>1. Len(p) = n /\ Len(q) = n BY <1>6, <2>4, <2>5, <2>6
    <3> QED BY <2>7, <3>1, SeqEqual
  <2>9. SubSeq(w, 1, n) = s \o SubSeq(t, 1, n - Len(s))
    <3>1. n - Len(s) = k BY <1>4, <2>1
    <3> QED BY <2>3, <2>5, <2>8, <3>1
  <2>10. n > Len(s) /\ ~(n <= Len(s)) BY <1>4, <1>5, <1>8
  <2>11. w = s \o t BY <1>3 DEF whole
  <2>12. SubSeq(w, 1, n) \in Blob BY <1>6 DEF Blob
  <2> QED BY <1>1, <1>6, <2>9, <2>10, <2>11, <2>12
<1> QED BY <1>4, <1>5, <1>7, <1>8

LEMMA CutCat ==
  ASSUME NEW s \in Blob, NEW t \in Blob, NEW n \in Nat, n <= Len(Cat(s, t))
  PROVE  /\ SubSeq(Cat(s, t), 1, n) \in Blob /\ Len(SubSeq(Cat(s, t), 1, n)) = n
         /\ Len(s) <= n => /\ n - Len(s) \in Nat /\ n - Len(s) <= Len(t)
                           /\ SubSeq(Cat(s, t), 1, n) = Cat(s, SubSeq(t, 1, n - Len(s)))
<1>1. n \in 0..Len(s \o t)
  <2>1. Len(Cat(s, t)) \in Nat BY CatJoined
  <2> QED BY <2>1 DEF Cat
<1>2. /\ n <= Len(s) => SubSeq(s \o t, 1, n) = SubSeq(s, 1, n)
      /\ n > Len(s) => SubSeq(s \o t, 1, n) = s \o SubSeq(t, 1, n - Len(s))
      /\ Len(s \o t) = Len(s) + Len(t) /\ Len(s) \in Nat /\ Len(t) \in Nat
      /\ SubSeq(s \o t, 1, n) \in Blob /\ Len(SubSeq(s \o t, 1, n)) = n
  BY <1>1, Cut
<1>3. PICK a \in Nat, b \in Nat : a = Len(s) /\ b = Len(t) BY <1>2
<1>4. n <= a + b BY <1>1, <1>2, <1>3
<1>5. ASSUME a <= n
      PROVE  n - a \in Nat /\ n - a <= b /\ SubSeq(Cat(s, t), 1, n) = Cat(s, SubSeq(t, 1, n - a))
  <2>1. n - a \in Nat /\ n - a <= b BY <1>4, <1>5
  <2>2. CASE n > a BY <1>2, <1>3, <2>1, <2>2 DEF Cat
  <2>3. CASE n = a
    <3>1. SubSeq(s \o t, 1, n) = SubSeq(s, 1, n) BY <1>2, <1>3, <2>3
    <3>2. SubSeq(s, 1, Len(s)) = s BY Beginnings DEF Blob
    <3>3. SubSeq(t, 1, 0) = <<>> BY Beginnings DEF Blob
    <3>4. s \o <<>> = s BY ConcatEmptySeq DEF Blob
    <3>5. n - a = 0 BY <2>3
    <3> QED BY <1>3, <2>1, <2>3, <3>1, <3>2, <3>3, <3>4, <3>5 DEF Cat
  <2> QED BY <1>5, <2>1, <2>2, <2>3
<1> QED BY <1>2, <1>3, <1>5 DEF Cat

LEMMA TooShort ==
  ASSUME NEW n \in Nat, NEW input \in Blob, Len(input) < n
  PROVE  TakeBytes(n, input) = Failed("UnexpectedEof") /\ TakeNumber(n, input) = Failed("UnexpectedEof")
<1>1. TakeBytes(n, input) = Failed("UnexpectedEof") BY DEF TakeBytes
<1>2. PICK taken : taken = TakeBytes(n, input) OBVIOUS
<1>3. taken.error # None BY <1>1, <1>2, NoErrors DEF Failed
<1>4. TakeNumber(n, input) = taken
  BY <1>2, <1>3, Once DEF TakeNumber, Convert, OrError, Bind
<1> QED BY <1>1, <1>2, <1>4

(* A failure is handed on.                                                 *)
LEMMA ErrorBack ==
  ASSUME NEW vals, NEW input, NEW error, error # None, TakeU32(input) = Failed(error)
  PROVE  ThenU32(Took(vals, input)) = Failed(error)
<1> DEFINE Add(v) == Append(vals, v)
           Next(t) == Convert(TakeU32(t.rest), LAMBDA v : Append(t.value, v))
<1>1. PICK taken : taken = Took(vals, input) OBVIOUS
<1>2. taken.error = None /\ taken.value = vals /\ taken.rest = input BY <1>1 DEF Took
<1>3. ThenU32(taken) = OrError(taken, Next) BY DEF ThenU32, Then
<1>4. OrError(taken, Next) = Next(taken)
  <2> HIDE DEF Next
  <2> QED BY <1>2, Once DEF OrError, Bind
<1>5. PICK failed : failed = TakeU32(taken.rest) OBVIOUS
<1>6. failed = Failed(error) /\ failed.error # None BY <1>2, <1>5 DEF Failed
<1> DEFINE Build(v) == Append(taken.value, v)
<1>7. Next(taken) = Convert(TakeU32(taken.rest), Build) OBVIOUS
<1>8. Convert(TakeU32(taken.rest), Build) = failed
  <2> HIDE DEF Build
  <2> QED BY <1>5, <1>6, Once DEF Convert, OrError, Bind
<1> HIDE DEF Next, Build
<1> QED BY <1>1, <1>3, <1>4, <1>6, <1>7, <1>8

LEMMA HeaderTorn ==
  ASSUME NEW input, NEW error, error # None, ThenU32(ThenU8(Took(<<>>, input))) = Failed(error)
  PROVE  DecodeFrame(input) = Failed(error)
<1>1. PICK header : header = ThenU32(ThenU8(Took(<<>>, input))) OBVIOUS
<1>2. header.error # None BY <1>1 DEF Failed
<1>3. DecodeFrame(input) = OrError(ThenU32(ThenU8(Took(<<>>, input))), PayloadOf)
  BY DEF DecodeFrame, ThenU32, ThenU8, PayloadOf, FrameOf
<1>4. OrError(header, PayloadOf) = header BY <1>2, Once DEF OrError, Bind
<1> QED BY <1>1, <1>3, <1>4

(* A frame that is cut anywhere, in its header or its payload, is the      *)
(* unexpected end of the file: it never decodes and never gives another    *)
(* error.                                                                  *)
THEOREM FrameTorn ==
  ASSUME NEW kind \in Bytes, NEW payload \in Blob, Len(payload) < Limit,
         NEW n \in Nat, n >= 1, n < Len(Frame(kind, payload))
  PROVE  /\ DecodeFrame(SubSeq(Frame(kind, payload), 1, n)) = Failed("UnexpectedEof")
         /\ SubSeq(Frame(kind, payload), 1, n) \in Blob
         /\ Len(SubSeq(Frame(kind, payload), 1, n)) = n
<1>1. PICK head \in Blob, length \in Blob :
        /\ head = <<kind>> /\ Len(head) = 1
        /\ length = PushU32(Len(payload)) /\ Len(length) = U32
        /\ Frame(kind, payload) = Cat(head, Cat(length, payload))
        /\ Cat(length, payload) \in Blob /\ Len(Cat(length, payload)) = U32 + Len(payload)
        /\ Len(Frame(kind, payload)) = 1 + U32 + Len(payload)
        /\ Len(payload) \in Nat
  BY FrameBytes
<1>2. PICK t \in Blob : t = Cat(length, payload) BY <1>1
<1>3. PICK p : p = SubSeq(Cat(head, t), 1, n) OBVIOUS
<1>4. n <= Len(Cat(head, t))
  <2>1. Len(Cat(head, t)) = 1 + U32 + Len(payload) BY <1>1, <1>2
  <2> QED BY <1>1, <2>1, Widths
<1>5. PICK k \in Nat : k = n - 1 /\ k <= Len(t)
  <2>1. Len(t) \in Nat /\ n - 1 \in Nat /\ Len(head) <= n BY <1>1, CatJoined
  <2>2. n - Len(head) <= Len(t) BY <1>4, <2>1, CutCat
  <2> QED BY <1>1, <2>1, <2>2
<1>6. p \in Blob /\ Len(p) = n BY <1>3, <1>4, CutCat
<1>7. PICK q \in Blob : q = SubSeq(t, 1, k) /\ Len(q) = k /\ p = Cat(head, q)
  <2>1. SubSeq(t, 1, k) \in Seq(Bytes) /\ Len(SubSeq(t, 1, k)) = k
    <3>1. k \in 0..Len(t) /\ t \in Seq(Bytes) BY <1>5, CatJoined DEF Blob
    <3> QED BY <3>1, PrefixOf
  <2>2. n - Len(head) = k /\ Len(head) <= n BY <1>1, <1>5
  <2>3. p = Cat(head, SubSeq(t, 1, n - Len(head))) BY <1>3, <1>4, <2>2, CutCat
  <2> QED BY <2>1, <2>2, <2>3 DEF Blob
<1>8. DecodeFrame(p) = Failed("UnexpectedEof")
  <2>1. PICK error : error = "UnexpectedEof" /\ error # None BY NoErrors
  <2>2. CASE k < U32
    <3>1. 0 \in Nat /\ 0 < Limit BY Widths, PowerPositive DEF Limit
    <3>2. ThenU8(Took(<<>>, p)) = Took(<<kind>>, q)
      <4>1. TakeU8(Cat(head, q)) = Took(kind, q) BY <1>1, TakeU8Back DEF Cat
      <4> QED BY <1>7, <4>1, FirstBack
    <3>3. TakeU32(q) = Failed(error) BY <1>7, <2>1, <2>2, TooShort, Widths DEF TakeU32
    <3>4. PICK vals : vals = <<kind>> OBVIOUS
    <3>5. ThenU32(Took(vals, q)) = Failed(error) BY <2>1, <3>3, ErrorBack
    <3>6. ThenU32(ThenU8(Took(<<>>, p))) = Failed(error)
      <4>1. ThenU8(Took(<<>>, p)) = Took(vals, q) BY <3>2, <3>4
      <4> QED BY <3>5, <4>1
    <3> QED BY <2>1, <3>6, HeaderTorn
  <2>3. CASE ~(k < U32)
    <3>1. Len(length) <= k /\ k <= Len(Cat(length, payload)) BY <1>1, <1>2, <1>5, <2>3, Widths
    <3>2. /\ k - Len(length) \in Nat /\ k - Len(length) <= Len(payload)
          /\ SubSeq(Cat(length, payload), 1, k) = Cat(length, SubSeq(payload, 1, k - Len(length)))
      BY <3>1, CutCat
    <3>3. PICK j \in Nat : j = k - U32 /\ j < Len(payload)
      <4>1. k - U32 \in Nat BY <1>1, <3>2
      <4>2. k - U32 < Len(payload) BY <1>1, <1>5, Widths
      <4> QED BY <4>1, <4>2
    <3>4. PICK r \in Blob : r = SubSeq(payload, 1, j) /\ Len(r) = j
      <4>1. j \in 0..Len(payload) /\ payload \in Seq(Bytes) BY <1>1, <3>3 DEF Blob
      <4> QED BY <4>1, PrefixOf DEF Blob
    <3>5. q = Cat(length, r) BY <1>1, <1>2, <1>7, <3>2, <3>3, <3>4
    <3>6. ThenU32(ThenU8(Took(<<>>, p))) = Took(<<kind, Len(payload)>>, r)
      <4>1. ThenU32(ThenU8(Took(<<>>, Cat(head, Cat(length, r))))) = Took(<<kind, Len(payload)>>, r)
        BY <1>1, HeaderBack
      <4> QED BY <1>7, <3>5, <4>1
    <3>7. TakeBytes(Len(payload), r) = Failed(error) BY <1>1, <2>1, <3>3, <3>4, TooShort
    <3>8. DecodeFrame(p) = Failed(error) BY <2>1, <3>6, <3>7, FrameIs
    <3> QED BY <2>1, <3>8
  <2> QED BY <2>2, <2>3
<1> QED BY <1>1, <1>2, <1>3, <1>6, <1>8


-----------------------------------------------------------------------------
(* The decoder on any input: it fails with one of its errors, or goes on   *)
(* with what is left of the input.                                         *)

ReadErrors == {"UnexpectedEof", "InvalidFrameKind", "InvalidCallsiteKind", "InvalidLevel",
               "InvalidFieldType", "InvalidUtf8"}

Sound(taken) ==
  /\ taken.error \in {None} \union ReadErrors
  /\ taken.error = None => taken.rest \in Blob

LEMMA TookSound ==
  /\ \A value, rest : rest \in Blob => Sound(Took(value, rest))
  /\ \A error \in ReadErrors : Sound(Failed(error)) /\ Failed(error).error # None
BY NoErrors DEF Sound, Took, Failed, ReadErrors

LEMMA BytesSound ==
  \A n, input : n \in Nat /\ input \in Blob =>
    /\ Sound(TakeBytes(n, input))
    /\ TakeBytes(n, input).error = None =>
         /\ TakeBytes(n, input).value \in Blob
         /\ Len(input) = n + Len(TakeBytes(n, input).rest)
<1> SUFFICES ASSUME NEW n, NEW input, n \in Nat /\ input \in Blob
             PROVE  /\ Sound(TakeBytes(n, input))
                    /\ TakeBytes(n, input).error = None =>
                         /\ TakeBytes(n, input).value \in Blob
                         /\ Len(input) = n + Len(TakeBytes(n, input).rest)
  OBVIOUS
<1>1. PICK length \in Nat : length = Len(input) BY DEF Blob
<1>2. CASE length < n
  <2>1. TakeBytes(n, input) = Failed("UnexpectedEof") BY <1>1, <1>2 DEF TakeBytes
  <2> QED BY <2>1, TookSound DEF ReadErrors
<1>3. CASE ~(length < n)
  <2>1. PICK value, rest : value = SubSeq(input, 1, n) /\ rest = SubSeq(input, n + 1, length)
    OBVIOUS
  <2>2. TakeBytes(n, input) = Took(value, rest) BY <1>1, <1>3, <2>1 DEF TakeBytes
  <2>3. input \in Seq(Bytes) /\ \A i \in 1..length : input[i] \in Bytes BY <1>1 DEF Blob
  <2>4. value \in Seq(Bytes) BY <1>1, <1>3, <2>1, <2>3
  <2>5. rest \in Seq(Bytes) /\ Len(rest) = length - n
    <3>1. \A i \in n + 1..length : input[i] \in Bytes BY <1>1, <2>3
    <3>2. /\ rest \in Seq(Bytes)
          /\ Len(rest) = IF n + 1 <= length THEN length - (n + 1) + 1 ELSE 0
      BY <1>1, <2>1, <3>1, SubSeqProperties
    <3> QED BY <1>1, <1>3, <3>2
  <2>6. /\ Took(value, rest).error = None /\ Took(value, rest).value = value
        /\ Took(value, rest).rest = rest
    BY DEF Took
  <2> QED BY <1>1, <2>2, <2>4, <2>5, <2>6, TookSound DEF Blob
<1> QED BY <1>1, <1>2, <1>3

LEMMA NumberSound ==
  \A width, input : width \in Nat /\ input \in Blob =>
    /\ Sound(TakeNumber(width, input))
    /\ TakeNumber(width, input).error = None =>
         /\ TakeNumber(width, input).value \in Nat
         /\ Len(input) = width + Len(TakeNumber(width, input).rest)
<1> SUFFICES ASSUME NEW width, NEW input, width \in Nat /\ input \in Blob
             PROVE  /\ Sound(TakeNumber(width, input))
                    /\ TakeNumber(width, input).error = None =>
                         /\ TakeNumber(width, input).value \in Nat
                         /\ Len(input) = width + Len(TakeNumber(width, input).rest)
  OBVIOUS
<1>1. PICK t : t = TakeBytes(width, input) OBVIOUS
<1>2. Sound(t) /\ (t.error = None => t.value \in Blob /\ Len(input) = width + Len(t.rest))
  BY <1>1, BytesSound
<1>3. PICK number : number = TakeNumber(width, input) OBVIOUS
<1>4. CASE t.error # None
  <2>1. number = t BY <1>1, <1>3, <1>4, Once DEF TakeNumber, Convert, OrError, Bind
  <2> QED BY <1>2, <1>3, <1>4, <2>1
<1>5. CASE t.error = None
  <2>1. PICK n : n = FromLittleEndian(t.value) OBVIOUS
  <2>2. number = Took(n, t.rest)
    BY <1>1, <1>3, <1>5, <2>1, Once DEF TakeNumber, Convert, OrError, Bind
  <2>3. n \in Nat BY <1>2, <1>5, <2>1, NumberIsNat
  <2>4. Took(n, t.rest).value = n /\ Took(n, t.rest).rest = t.rest BY DEF Took
  <2>5. t.rest \in Blob BY <1>2, <1>5 DEF Sound
  <2> QED BY <1>2, <1>3, <1>5, <2>2, <2>3, <2>4, <2>5, TookSound
<1> QED BY <1>4, <1>5

LEMMA BlobSound == \A input \in Blob : Sound(TakeBlob(input))
<1> TAKE input \in Blob
<1> DEFINE Next(length) == TakeBytes(length.value, length.rest)
<1>1. PICK length : length = TakeU32(input) OBVIOUS
<1>2. Sound(length) /\ (length.error = None => length.value \in Nat)
  BY <1>1, NumberSound, Widths DEF TakeU32
<1>3. PICK taken : taken = TakeBlob(input) OBVIOUS
<1>4. taken = OrError(length, Next) BY <1>1, <1>3 DEF TakeBlob, OrError, Bind
<1>5. taken = IF length.error = None THEN Next(length) ELSE length
  <2> HIDE DEF Next
  <2> QED BY <1>4, Once DEF OrError, Bind
<1>6. length.error = None => Sound(Next(length)) BY <1>2, BytesSound DEF Sound
<1> HIDE DEF Next
<1>7. Sound(taken) BY <1>2, <1>5, <1>6
<1> QED BY <1>3, <1>7


LEMMA StringSound == \A input \in Blob : Sound(TakeString(input))
<1> TAKE input \in Blob
<1>1. PICK t : t = TakeBlob(input) OBVIOUS
<1>2. Sound(t) BY <1>1, BlobSound
<1>3. PICK taken : taken = TakeString(input) OBVIOUS
<1>4. \/ taken = t
      \/ \E error \in ReadErrors : taken = Failed(error)
  BY <1>1, <1>3, Once DEF TakeString, Check, OrError, Bind, ReadErrors
<1>5. Sound(taken) BY <1>2, <1>4, TookSound
<1> QED BY <1>3, <1>5


LEMMA FixedSound ==
  /\ \A input \in Blob : Sound(TakeU8(input))
  /\ \A input \in Blob : Sound(TakeU32(input))
  /\ \A input \in Blob : Sound(TakeU64(input))
BY NumberSound, Widths DEF TakeU8, TakeU32, TakeU64


LEMMA KindSound == \A input \in Blob : Sound(TakeKind(input))
<1> TAKE input \in Blob
<1>1. PICK t : t = TakeU8(input) OBVIOUS
<1>2. Sound(t) BY <1>1, FixedSound
<1>3. PICK taken : taken = TakeKind(input) OBVIOUS
<1>4. \/ taken = t
      \/ \E error \in ReadErrors : taken = Failed(error)
  BY <1>1, <1>3, Once DEF TakeKind, Check, OrError, Bind, ReadErrors
<1>5. Sound(taken) BY <1>2, <1>4, TookSound
<1> QED BY <1>3, <1>5


LEMMA LevelSound == \A input \in Blob : Sound(TakeLevel(input))
<1> TAKE input \in Blob
<1>1. PICK t : t = TakeU8(input) OBVIOUS
<1>2. Sound(t) BY <1>1, FixedSound
<1>3. PICK taken : taken = TakeLevel(input) OBVIOUS
<1>4. \/ taken = t
      \/ \E error \in ReadErrors : taken = Failed(error)
  BY <1>1, <1>3, Once DEF TakeLevel, Check, OrError, Bind, ReadErrors
<1>5. Sound(taken) BY <1>2, <1>4, TookSound
<1> QED BY <1>3, <1>5


LEMMA ValueOfSound == \A kind : \A input \in Blob : Sound(TakeValueOf(kind, input))
<1> TAKE kind
<1> TAKE input \in Blob
<1>1. Width(kind) \in Nat BY Widths DEF Width
<1> QED BY <1>1, TookSound, StringSound, BlobSound, BytesSound DEF TakeValueOf

LEMMA ValueSound == \A input \in Blob : Sound(TakeValue(input))
<1> TAKE input \in Blob
<1> DEFINE Known(c) == c \in DOMAIN ValueKinds
           Build(kind, b) == [kind |-> kind, bytes |-> b]
           Next(code) == Convert(TakeValueOf(ValueKinds[code.value], code.rest),
                                 LAMBDA b : [kind |-> ValueKinds[code.value], bytes |-> b])
           code == Check(TakeU8(input), Known, "InvalidFieldType")
<1>1. PICK t : t = TakeU8(input) OBVIOUS
<1>2. Sound(t) BY <1>1, FixedSound
<1>3. Sound(code)
  <2>1. \/ code = t
        \/ \E error \in ReadErrors : code = Failed(error)
    <3> HIDE DEF Known
    <3> QED BY <1>1, Once DEF Check, OrError, Bind, ReadErrors
  <2> HIDE DEF code
  <2> QED BY <1>2, <2>1, TookSound
<1>4. TakeValue(input) = OrError(code, Next) BY DEF TakeValue, Check, OrError, Bind
<1>5. PICK c, taken : c = code /\ taken = TakeValue(input) OBVIOUS
<1> HIDE DEF code
<1>6. taken = IF c.error = None THEN Next(c) ELSE c
  <2>1. taken = OrError(c, Next) BY <1>4, <1>5 DEF OrError, Bind
  <2> HIDE DEF Next
  <2> QED BY <2>1, Once DEF OrError, Bind
<1>7. c.error = None => Sound(Next(c))
  <2> SUFFICES ASSUME c.error = None PROVE Sound(Next(c)) OBVIOUS
  <2>1. PICK content : content = TakeValueOf(ValueKinds[c.value], c.rest) OBVIOUS
  <2>2. Sound(content)
    <3>1. c.rest \in Blob BY <1>3, <1>5 DEF Sound
    <3> QED BY <2>1, <3>1, ValueOfSound
  <2>3. \/ Next(c) = content
        \/ content.error = None /\ \E v : Next(c) = Took(v, content.rest)
    BY <2>1, Once DEF Convert, OrError, Bind
  <2> HIDE DEF Next
  <2>4. content.error = None => content.rest \in Blob BY <2>2 DEF Sound
  <2> QED BY <2>2, <2>3, <2>4, TookSound
<1> HIDE DEF Next
<1>8. Sound(taken) BY <1>3, <1>5, <1>6, <1>7
<1> QED BY <1>5, <1>8


LEMMA ThenU8Sound == \A taken : Sound(taken) => Sound(ThenU8(taken))
<1> SUFFICES ASSUME NEW taken, Sound(taken) PROVE Sound(ThenU8(taken)) OBVIOUS
<1>1. PICK next : next = ThenU8(taken) OBVIOUS
<1>2. CASE taken.error # None
  <2>1. next = taken BY <1>1, <1>2, Once DEF ThenU8, Then, OrError, Bind
  <2> QED BY <1>1, <2>1
<1>3. CASE taken.error = None
  <2>1. PICK t : t = TakeU8(taken.rest) OBVIOUS
  <2>2. Sound(t) /\ (t.error = None => t.rest \in Blob)
    BY <1>3, <2>1, FixedSound DEF Sound
  <2>3. \/ next = t
        \/ t.error = None /\ \E v : next = Took(v, t.rest)
    BY <1>1, <1>3, <2>1, Once DEF ThenU8, Then, Convert, OrError, Bind
  <2> QED BY <1>1, <2>2, <2>3, TookSound
<1> QED BY <1>2, <1>3


LEMMA ThenU32Sound == \A taken : Sound(taken) => Sound(ThenU32(taken))
<1> SUFFICES ASSUME NEW taken, Sound(taken) PROVE Sound(ThenU32(taken)) OBVIOUS
<1>1. PICK next : next = ThenU32(taken) OBVIOUS
<1>2. CASE taken.error # None
  <2>1. next = taken BY <1>1, <1>2, Once DEF ThenU32, Then, OrError, Bind
  <2> QED BY <1>1, <2>1
<1>3. CASE taken.error = None
  <2>1. PICK t : t = TakeU32(taken.rest) OBVIOUS
  <2>2. Sound(t) /\ (t.error = None => t.rest \in Blob)
    BY <1>3, <2>1, FixedSound DEF Sound
  <2>3. \/ next = t
        \/ t.error = None /\ \E v : next = Took(v, t.rest)
    BY <1>1, <1>3, <2>1, Once DEF ThenU32, Then, Convert, OrError, Bind
  <2> QED BY <1>1, <2>2, <2>3, TookSound
<1> QED BY <1>2, <1>3


LEMMA ThenU64Sound == \A taken : Sound(taken) => Sound(ThenU64(taken))
<1> SUFFICES ASSUME NEW taken, Sound(taken) PROVE Sound(ThenU64(taken)) OBVIOUS
<1>1. PICK next : next = ThenU64(taken) OBVIOUS
<1>2. CASE taken.error # None
  <2>1. next = taken BY <1>1, <1>2, Once DEF ThenU64, Then, OrError, Bind
  <2> QED BY <1>1, <2>1
<1>3. CASE taken.error = None
  <2>1. PICK t : t = TakeU64(taken.rest) OBVIOUS
  <2>2. Sound(t) /\ (t.error = None => t.rest \in Blob)
    BY <1>3, <2>1, FixedSound DEF Sound
  <2>3. \/ next = t
        \/ t.error = None /\ \E v : next = Took(v, t.rest)
    BY <1>1, <1>3, <2>1, Once DEF ThenU64, Then, Convert, OrError, Bind
  <2> QED BY <1>1, <2>2, <2>3, TookSound
<1> QED BY <1>2, <1>3


LEMMA ThenStringSound == \A taken : Sound(taken) => Sound(ThenString(taken))
<1> SUFFICES ASSUME NEW taken, Sound(taken) PROVE Sound(ThenString(taken)) OBVIOUS
<1>1. PICK next : next = ThenString(taken) OBVIOUS
<1>2. CASE taken.error # None
  <2>1. next = taken BY <1>1, <1>2, Once DEF ThenString, Then, OrError, Bind
  <2> QED BY <1>1, <2>1
<1>3. CASE taken.error = None
  <2>1. PICK t : t = TakeString(taken.rest) OBVIOUS
  <2>2. Sound(t) /\ (t.error = None => t.rest \in Blob)
    BY <1>3, <2>1, StringSound DEF Sound
  <2>3. \/ next = t
        \/ t.error = None /\ \E v : next = Took(v, t.rest)
    BY <1>1, <1>3, <2>1, Once DEF ThenString, Then, Convert, OrError, Bind
  <2> QED BY <1>1, <2>2, <2>3, TookSound
<1> QED BY <1>2, <1>3


LEMMA ThenKindSound == \A taken : Sound(taken) => Sound(ThenKind(taken))
<1> SUFFICES ASSUME NEW taken, Sound(taken) PROVE Sound(ThenKind(taken)) OBVIOUS
<1>1. PICK next : next = ThenKind(taken) OBVIOUS
<1>2. CASE taken.error # None
  <2>1. next = taken BY <1>1, <1>2, Once DEF ThenKind, Then, OrError, Bind
  <2> QED BY <1>1, <2>1
<1>3. CASE taken.error = None
  <2>1. PICK t : t = TakeKind(taken.rest) OBVIOUS
  <2>2. Sound(t) /\ (t.error = None => t.rest \in Blob)
    BY <1>3, <2>1, KindSound DEF Sound
  <2>3. \/ next = t
        \/ t.error = None /\ \E v : next = Took(v, t.rest)
    BY <1>1, <1>3, <2>1, Once DEF ThenKind, Then, Convert, OrError, Bind
  <2> QED BY <1>1, <2>2, <2>3, TookSound
<1> QED BY <1>2, <1>3


LEMMA ThenLevelSound == \A taken : Sound(taken) => Sound(ThenLevel(taken))
<1> SUFFICES ASSUME NEW taken, Sound(taken) PROVE Sound(ThenLevel(taken)) OBVIOUS
<1>1. PICK next : next = ThenLevel(taken) OBVIOUS
<1>2. CASE taken.error # None
  <2>1. next = taken BY <1>1, <1>2, Once DEF ThenLevel, Then, OrError, Bind
  <2> QED BY <1>1, <2>1
<1>3. CASE taken.error = None
  <2>1. PICK t : t = TakeLevel(taken.rest) OBVIOUS
  <2>2. Sound(t) /\ (t.error = None => t.rest \in Blob)
    BY <1>3, <2>1, LevelSound DEF Sound
  <2>3. \/ next = t
        \/ t.error = None /\ \E v : next = Took(v, t.rest)
    BY <1>1, <1>3, <2>1, Once DEF ThenLevel, Then, Convert, OrError, Bind
  <2> QED BY <1>1, <2>2, <2>3, TookSound
<1> QED BY <1>2, <1>3


LEMMA ThenValueSound == \A taken : Sound(taken) => Sound(ThenValue(taken))
<1> SUFFICES ASSUME NEW taken, Sound(taken) PROVE Sound(ThenValue(taken)) OBVIOUS
<1>1. PICK next : next = ThenValue(taken) OBVIOUS
<1>2. CASE taken.error # None
  <2>1. next = taken BY <1>1, <1>2, Once DEF ThenValue, Then, OrError, Bind
  <2> QED BY <1>1, <2>1
<1>3. CASE taken.error = None
  <2>1. PICK t : t = TakeValue(taken.rest) OBVIOUS
  <2>2. Sound(t) /\ (t.error = None => t.rest \in Blob)
    BY <1>3, <2>1, ValueSound DEF Sound
  <2>3. \/ next = t
        \/ t.error = None /\ \E v : next = Took(v, t.rest)
    BY <1>1, <1>3, <2>1, Once DEF ThenValue, Then, Convert, OrError, Bind
  <2> QED BY <1>1, <2>2, <2>3, TookSound
<1> QED BY <1>2, <1>3


LEMMA FieldSound == \A input \in Blob : Sound(TakeField(input))
<1> TAKE input \in Blob
<1> DEFINE Build(v) == [name |-> v[1], value |-> v[2]]
<1>1. PICK t : t = ThenValue(ThenString(Took(<<>>, input))) OBVIOUS
<1>2. Sound(t) BY <1>1, TookSound, ThenStringSound, ThenValueSound
<1>3. TakeField(input) = Convert(ThenValue(ThenString(Took(<<>>, input))), Build)
  BY DEF TakeField, ThenValue, ThenString
<1>4. TakeField(input) = Convert(t, Build) BY <1>1, <1>3 DEF Convert, OrError, Bind
<1>5. \/ Convert(t, Build) = t
      \/ t.error = None /\ \E v : Convert(t, Build) = Took(v, t.rest)
  BY Once DEF Convert, OrError, Bind
<1> HIDE DEF Build
<1>6. t.error = None => t.rest \in Blob BY <1>2 DEF Sound
<1> QED BY <1>2, <1>4, <1>5, <1>6, TookSound


LEMMA ThenFieldSound == \A taken : Sound(taken) => Sound(ThenField(taken))
<1> SUFFICES ASSUME NEW taken, Sound(taken) PROVE Sound(ThenField(taken)) OBVIOUS
<1>1. PICK next : next = ThenField(taken) OBVIOUS
<1>2. CASE taken.error # None
  <2>1. next = taken BY <1>1, <1>2, Once DEF ThenField, Then, OrError, Bind
  <2> QED BY <1>1, <2>1
<1>3. CASE taken.error = None
  <2>1. PICK t : t = TakeField(taken.rest) OBVIOUS
  <2>2. Sound(t) /\ (t.error = None => t.rest \in Blob)
    BY <1>3, <2>1, FieldSound DEF Sound
  <2>3. \/ next = t
        \/ t.error = None /\ \E v : next = Took(v, t.rest)
    BY <1>1, <1>3, <2>1, Once DEF ThenField, Then, Convert, OrError, Bind
  <2> QED BY <1>1, <2>2, <2>3, TookSound
<1> QED BY <1>2, <1>3


LEMMA RepeatFieldSound == \A n, input : n \in Nat /\ input \in Blob => Sound(RepeatField(n, input))
<1> SUFFICES ASSUME NEW n, NEW input, n \in Nat /\ input \in Blob PROVE Sound(RepeatField(n, input))
  OBVIOUS
<1> DEFINE Def(k, f) == [i \in 0..k |-> IF i = 0 THEN Took(<<>>, input) ELSE ThenField(f[i - 1])]
           Good(k, f) == /\ \A i \in 0..k : f[i] = IF i = 0 THEN Took(<<>>, input) ELSE ThenField(f[i - 1])
                         /\ \A i \in 0..k : Sound(f[i])
           P == {k \in 0..n : \E f : Good(k, f)}
<1>1. 0 \in P
  <2>1. PICK f : f = [i \in 0..0 |-> Took(<<>>, input)] OBVIOUS
  <2>2. Good(0, f) BY <2>1, TookSound
  <2> HIDE DEF Good
  <2> QED BY <2>2
<1>2. ASSUME NEW k \in 0..n, k # n, k \in P PROVE k + 1 \in P
  <2>1. PICK f : Good(k, f) BY <1>2
  <2>2. k + 1 \in 0..n BY <1>2
  <2>3. PICK next : next = ThenField(f[k]) OBVIOUS
  <2>4. Sound(next)
    <3>1. k \in 0..k OBVIOUS
    <3>2. Sound(f[k]) BY <2>1, <3>1
    <3> QED BY <2>3, <3>2, ThenFieldSound
  <2>5. PICK g : g = [i \in 0..(k + 1) |-> IF i = k + 1 THEN next ELSE f[i]] OBVIOUS
  <2>6. \A i \in 0..(k + 1) : g[i] = IF i = k + 1 THEN next ELSE f[i] BY <2>5
  <2>7. \A i \in 0..(k + 1) : i = k + 1 \/ i \in 0..k OBVIOUS
  <2>8. \A i \in 0..(k + 1) : Sound(g[i])
    <3> TAKE i \in 0..(k + 1)
    <3> QED BY <2>1, <2>4, <2>6, <2>7
  <2>9. ASSUME NEW i \in 0..(k + 1)
        PROVE  g[i] = IF i = 0 THEN Took(<<>>, input) ELSE ThenField(g[i - 1])
    <3>1. CASE i = k + 1
      <4>1. i - 1 = k /\ k \in 0..(k + 1) /\ k # k + 1 /\ i # 0 BY <3>1
      <4>2. g[i - 1] = f[k] BY <2>6, <4>1
      <4> QED BY <2>3, <2>6, <3>1, <4>1, <4>2
    <3>2. CASE i # k + 1
      <4>1. i \in 0..k BY <3>2
      <4>2. g[i] = f[i] BY <2>6, <3>2
      <4>3. i # 0 => i - 1 \in 0..(k + 1) /\ i - 1 # k + 1 BY <3>2
      <4>4. i # 0 => g[i - 1] = f[i - 1] BY <2>6, <4>3
      <4> QED BY <2>1, <4>1, <4>2, <4>4
    <3> QED BY <3>1, <3>2
  <2>10. Good(k + 1, g) BY <2>8, <2>9
  <2> HIDE DEF Good
  <2> QED BY <2>2, <2>10
<1>3. 0..n \subseteq P
  <2> HIDE DEF P
  <2> QED BY <1>1, <1>2, Induct
<1>4. PICK f : Good(n, f)
  <2>1. n \in P
    <3>1. n \in 0..n OBVIOUS
    <3> HIDE DEF P
    <3> QED BY <1>3, <3>1
  <2> HIDE DEF Good
  <2> QED BY <2>1
<1>5. PICK g : g = [i \in 0..n |-> f[i]] OBVIOUS
<1>6. g = Def(n, g)
  <2>1. \A i \in 0..n : i # 0 => i - 1 \in 0..n OBVIOUS
  <2>2. \A i \in 0..n : g[i] = f[i] BY <1>5
  <2>3. \A i \in 0..n : g[i] = IF i = 0 THEN Took(<<>>, input) ELSE ThenField(g[i - 1])
    BY <1>4, <2>1, <2>2
  <2>4. g = [i \in 0..n |-> g[i]] BY <1>5
  <2> QED BY <2>3, <2>4
<1>7. PICK taken : taken = CHOOSE h : h = Def(n, h) OBVIOUS
<1>8. RepeatField(n, input) = taken[n] BY <1>7 DEF RepeatField, Repeat, ThenField
<1>9. taken = Def(n, taken)
  <2> HIDE DEF Def
  <2> QED BY <1>6, <1>7
<1>10. \A i \in 0..n : taken[i] = IF i = 0 THEN Took(<<>>, input) ELSE ThenField(taken[i - 1])
  BY <1>9
<1>11. SameSteps(f, taken, 0, n) BY <1>4, <1>10 DEF SameSteps
<1>12. taken[n] = f[n] /\ Sound(f[n])
  <2>1. 0 \in Nat /\ 0 <= n /\ n \in 0..n OBVIOUS
  <2> QED BY <1>4, <1>11, <2>1, Agree
<1> QED BY <1>8, <1>12

LEMMA FieldsSound == \A input \in Blob : Sound(TakeFields(input))
<1> TAKE input \in Blob
<1> DEFINE Next(t) == RepeatField(t.value, t.rest)
<1>1. PICK count : count = TakeNumber(U16, input) OBVIOUS
<1>2. Sound(count) /\ (count.error = None => count.value \in Nat)
  BY <1>1, NumberSound, Widths
<1>3. TakeFields(input) = OrError(count, Next)
  BY <1>1 DEF TakeFields, TakeAll, RepeatField, OrError, Bind
<1>4. OrError(count, Next) = IF count.error = None THEN Next(count) ELSE count
  <2> HIDE DEF Next
  <2> QED BY Once DEF OrError, Bind
<1>5. count.error = None => Sound(Next(count)) BY <1>2, RepeatFieldSound DEF Sound
<1> HIDE DEF Next
<1> QED BY <1>2, <1>3, <1>4, <1>5


LEMMA RepeatStringSound == \A n, input : n \in Nat /\ input \in Blob => Sound(RepeatString(n, input))
<1> SUFFICES ASSUME NEW n, NEW input, n \in Nat /\ input \in Blob PROVE Sound(RepeatString(n, input))
  OBVIOUS
<1> DEFINE Def(k, f) == [i \in 0..k |-> IF i = 0 THEN Took(<<>>, input) ELSE ThenString(f[i - 1])]
           Good(k, f) == /\ \A i \in 0..k : f[i] = IF i = 0 THEN Took(<<>>, input) ELSE ThenString(f[i - 1])
                         /\ \A i \in 0..k : Sound(f[i])
           P == {k \in 0..n : \E f : Good(k, f)}
<1>1. 0 \in P
  <2>1. PICK f : f = [i \in 0..0 |-> Took(<<>>, input)] OBVIOUS
  <2>2. Good(0, f) BY <2>1, TookSound
  <2> HIDE DEF Good
  <2> QED BY <2>2
<1>2. ASSUME NEW k \in 0..n, k # n, k \in P PROVE k + 1 \in P
  <2>1. PICK f : Good(k, f) BY <1>2
  <2>2. k + 1 \in 0..n BY <1>2
  <2>3. PICK next : next = ThenString(f[k]) OBVIOUS
  <2>4. Sound(next)
    <3>1. k \in 0..k OBVIOUS
    <3>2. Sound(f[k]) BY <2>1, <3>1
    <3> QED BY <2>3, <3>2, ThenStringSound
  <2>5. PICK g : g = [i \in 0..(k + 1) |-> IF i = k + 1 THEN next ELSE f[i]] OBVIOUS
  <2>6. \A i \in 0..(k + 1) : g[i] = IF i = k + 1 THEN next ELSE f[i] BY <2>5
  <2>7. \A i \in 0..(k + 1) : i = k + 1 \/ i \in 0..k OBVIOUS
  <2>8. \A i \in 0..(k + 1) : Sound(g[i])
    <3> TAKE i \in 0..(k + 1)
    <3> QED BY <2>1, <2>4, <2>6, <2>7
  <2>9. ASSUME NEW i \in 0..(k + 1)
        PROVE  g[i] = IF i = 0 THEN Took(<<>>, input) ELSE ThenString(g[i - 1])
    <3>1. CASE i = k + 1
      <4>1. i - 1 = k /\ k \in 0..(k + 1) /\ k # k + 1 /\ i # 0 BY <3>1
      <4>2. g[i - 1] = f[k] BY <2>6, <4>1
      <4> QED BY <2>3, <2>6, <3>1, <4>1, <4>2
    <3>2. CASE i # k + 1
      <4>1. i \in 0..k BY <3>2
      <4>2. g[i] = f[i] BY <2>6, <3>2
      <4>3. i # 0 => i - 1 \in 0..(k + 1) /\ i - 1 # k + 1 BY <3>2
      <4>4. i # 0 => g[i - 1] = f[i - 1] BY <2>6, <4>3
      <4> QED BY <2>1, <4>1, <4>2, <4>4
    <3> QED BY <3>1, <3>2
  <2>10. Good(k + 1, g) BY <2>8, <2>9
  <2> HIDE DEF Good
  <2> QED BY <2>2, <2>10
<1>3. 0..n \subseteq P
  <2> HIDE DEF P
  <2> QED BY <1>1, <1>2, Induct
<1>4. PICK f : Good(n, f)
  <2>1. n \in P
    <3>1. n \in 0..n OBVIOUS
    <3> HIDE DEF P
    <3> QED BY <1>3, <3>1
  <2> HIDE DEF Good
  <2> QED BY <2>1
<1>5. PICK g : g = [i \in 0..n |-> f[i]] OBVIOUS
<1>6. g = Def(n, g)
  <2>1. \A i \in 0..n : i # 0 => i - 1 \in 0..n OBVIOUS
  <2>2. \A i \in 0..n : g[i] = f[i] BY <1>5
  <2>3. \A i \in 0..n : g[i] = IF i = 0 THEN Took(<<>>, input) ELSE ThenString(g[i - 1])
    BY <1>4, <2>1, <2>2
  <2>4. g = [i \in 0..n |-> g[i]] BY <1>5
  <2> QED BY <2>3, <2>4
<1>7. PICK taken : taken = CHOOSE h : h = Def(n, h) OBVIOUS
<1>8. RepeatString(n, input) = taken[n] BY <1>7 DEF RepeatString, Repeat, ThenString
<1>9. taken = Def(n, taken)
  <2> HIDE DEF Def
  <2> QED BY <1>6, <1>7
<1>10. \A i \in 0..n : taken[i] = IF i = 0 THEN Took(<<>>, input) ELSE ThenString(taken[i - 1])
  BY <1>9
<1>11. SameSteps(f, taken, 0, n) BY <1>4, <1>10 DEF SameSteps
<1>12. taken[n] = f[n] /\ Sound(f[n])
  <2>1. 0 \in Nat /\ 0 <= n /\ n \in 0..n OBVIOUS
  <2> QED BY <1>4, <1>11, <2>1, Agree
<1> QED BY <1>8, <1>12

LEMMA StringsSound == \A input \in Blob : Sound(TakeStrings(input))
<1> TAKE input \in Blob
<1> DEFINE Next(t) == RepeatString(t.value, t.rest)
<1>1. PICK count : count = TakeNumber(U16, input) OBVIOUS
<1>2. Sound(count) /\ (count.error = None => count.value \in Nat)
  BY <1>1, NumberSound, Widths
<1>3. TakeStrings(input) = OrError(count, Next)
  BY <1>1 DEF TakeStrings, TakeAll, RepeatString, OrError, Bind
<1>4. OrError(count, Next) = IF count.error = None THEN Next(count) ELSE count
  <2> HIDE DEF Next
  <2> QED BY Once DEF OrError, Bind
<1>5. count.error = None => Sound(Next(count)) BY <1>2, RepeatStringSound DEF Sound
<1> HIDE DEF Next
<1> QED BY <1>2, <1>3, <1>4, <1>5


LEMMA ThenFieldsSound == \A taken : Sound(taken) => Sound(ThenFields(taken))
<1> SUFFICES ASSUME NEW taken, Sound(taken) PROVE Sound(ThenFields(taken)) OBVIOUS
<1>1. PICK next : next = ThenFields(taken) OBVIOUS
<1>2. CASE taken.error # None
  <2>1. next = taken BY <1>1, <1>2, Once DEF ThenFields, Then, OrError, Bind
  <2> QED BY <1>1, <2>1
<1>3. CASE taken.error = None
  <2>1. PICK t : t = TakeFields(taken.rest) OBVIOUS
  <2>2. Sound(t) /\ (t.error = None => t.rest \in Blob)
    BY <1>3, <2>1, FieldsSound DEF Sound
  <2>3. \/ next = t
        \/ t.error = None /\ \E v : next = Took(v, t.rest)
    BY <1>1, <1>3, <2>1, Once DEF ThenFields, Then, Convert, OrError, Bind
  <2> QED BY <1>1, <2>2, <2>3, TookSound
<1> QED BY <1>2, <1>3


LEMMA ThenStringsSound == \A taken : Sound(taken) => Sound(ThenStrings(taken))
<1> SUFFICES ASSUME NEW taken, Sound(taken) PROVE Sound(ThenStrings(taken)) OBVIOUS
<1>1. PICK next : next = ThenStrings(taken) OBVIOUS
<1>2. CASE taken.error # None
  <2>1. next = taken BY <1>1, <1>2, Once DEF ThenStrings, Then, OrError, Bind
  <2> QED BY <1>1, <2>1
<1>3. CASE taken.error = None
  <2>1. PICK t : t = TakeStrings(taken.rest) OBVIOUS
  <2>2. Sound(t) /\ (t.error = None => t.rest \in Blob)
    BY <1>3, <2>1, StringsSound DEF Sound
  <2>3. \/ next = t
        \/ t.error = None /\ \E v : next = Took(v, t.rest)
    BY <1>1, <1>3, <2>1, Once DEF ThenStrings, Then, Convert, OrError, Bind
  <2> QED BY <1>1, <2>2, <2>3, TookSound
<1> QED BY <1>2, <1>3


LEMMA SpanSound == \A input \in Blob : Sound(TakeSpan(input))
<1> TAKE input \in Blob
<1> DEFINE s1 == ThenU64(Took(<<>>, input))
           s2 == ThenU32(s1)
           s3 == ThenLevel(s2)
           s4 == ThenString(s3)
           s5 == ThenString(s4)
           s6 == ThenFields(s5)
           Build(v) == [id |-> v[1], metadata_id |-> v[2], level |-> v[3],
                        name |-> v[4], target |-> v[5], fields |-> v[6]]
<1>1. TakeSpan(input) = Convert(s6, Build)
  BY DEF TakeSpan, ThenU64, ThenU32, ThenLevel, ThenString, ThenFields
<1>2. Sound(s1) BY TookSound, ThenU64Sound
<1> HIDE DEF s1
<1>3. Sound(s2) BY <1>2, ThenU32Sound
<1> HIDE DEF s2
<1>4. Sound(s3) BY <1>3, ThenLevelSound
<1> HIDE DEF s3
<1>5. Sound(s4) BY <1>4, ThenStringSound
<1> HIDE DEF s4
<1>6. Sound(s5) BY <1>5, ThenStringSound
<1> HIDE DEF s5
<1>7. Sound(s6) BY <1>6, ThenFieldsSound
<1> HIDE DEF s6
<1>8. \/ Convert(s6, Build) = s6
      \/ s6.error = None /\ \E v : Convert(s6, Build) = Took(v, s6.rest)
  <2> HIDE DEF Build
  <2> QED BY Once DEF Convert, OrError, Bind
<1> HIDE DEF Build
<1>9. s6.error = None => s6.rest \in Blob BY <1>7 DEF Sound
<1> QED BY <1>1, <1>7, <1>8, <1>9, TookSound


LEMMA ThenSpanSound == \A taken : Sound(taken) => Sound(ThenSpan(taken))
<1> SUFFICES ASSUME NEW taken, Sound(taken) PROVE Sound(ThenSpan(taken)) OBVIOUS
<1>1. PICK next : next = ThenSpan(taken) OBVIOUS
<1>2. CASE taken.error # None
  <2>1. next = taken BY <1>1, <1>2, Once DEF ThenSpan, Then, OrError, Bind
  <2> QED BY <1>1, <2>1
<1>3. CASE taken.error = None
  <2>1. PICK t : t = TakeSpan(taken.rest) OBVIOUS
  <2>2. Sound(t) /\ (t.error = None => t.rest \in Blob)
    BY <1>3, <2>1, SpanSound DEF Sound
  <2>3. \/ next = t
        \/ t.error = None /\ \E v : next = Took(v, t.rest)
    BY <1>1, <1>3, <2>1, Once DEF ThenSpan, Then, Convert, OrError, Bind
  <2> QED BY <1>1, <2>2, <2>3, TookSound
<1> QED BY <1>2, <1>3


LEMMA RepeatSpanSound == \A n, input : n \in Nat /\ input \in Blob => Sound(RepeatSpan(n, input))
<1> SUFFICES ASSUME NEW n, NEW input, n \in Nat /\ input \in Blob PROVE Sound(RepeatSpan(n, input))
  OBVIOUS
<1> DEFINE Def(k, f) == [i \in 0..k |-> IF i = 0 THEN Took(<<>>, input) ELSE ThenSpan(f[i - 1])]
           Good(k, f) == /\ \A i \in 0..k : f[i] = IF i = 0 THEN Took(<<>>, input) ELSE ThenSpan(f[i - 1])
                         /\ \A i \in 0..k : Sound(f[i])
           P == {k \in 0..n : \E f : Good(k, f)}
<1>1. 0 \in P
  <2>1. PICK f : f = [i \in 0..0 |-> Took(<<>>, input)] OBVIOUS
  <2>2. Good(0, f) BY <2>1, TookSound
  <2> HIDE DEF Good
  <2> QED BY <2>2
<1>2. ASSUME NEW k \in 0..n, k # n, k \in P PROVE k + 1 \in P
  <2>1. PICK f : Good(k, f) BY <1>2
  <2>2. k + 1 \in 0..n BY <1>2
  <2>3. PICK next : next = ThenSpan(f[k]) OBVIOUS
  <2>4. Sound(next)
    <3>1. k \in 0..k OBVIOUS
    <3>2. Sound(f[k]) BY <2>1, <3>1
    <3> QED BY <2>3, <3>2, ThenSpanSound
  <2>5. PICK g : g = [i \in 0..(k + 1) |-> IF i = k + 1 THEN next ELSE f[i]] OBVIOUS
  <2>6. \A i \in 0..(k + 1) : g[i] = IF i = k + 1 THEN next ELSE f[i] BY <2>5
  <2>7. \A i \in 0..(k + 1) : i = k + 1 \/ i \in 0..k OBVIOUS
  <2>8. \A i \in 0..(k + 1) : Sound(g[i])
    <3> TAKE i \in 0..(k + 1)
    <3> QED BY <2>1, <2>4, <2>6, <2>7
  <2>9. ASSUME NEW i \in 0..(k + 1)
        PROVE  g[i] = IF i = 0 THEN Took(<<>>, input) ELSE ThenSpan(g[i - 1])
    <3>1. CASE i = k + 1
      <4>1. i - 1 = k /\ k \in 0..(k + 1) /\ k # k + 1 /\ i # 0 BY <3>1
      <4>2. g[i - 1] = f[k] BY <2>6, <4>1
      <4> QED BY <2>3, <2>6, <3>1, <4>1, <4>2
    <3>2. CASE i # k + 1
      <4>1. i \in 0..k BY <3>2
      <4>2. g[i] = f[i] BY <2>6, <3>2
      <4>3. i # 0 => i - 1 \in 0..(k + 1) /\ i - 1 # k + 1 BY <3>2
      <4>4. i # 0 => g[i - 1] = f[i - 1] BY <2>6, <4>3
      <4> QED BY <2>1, <4>1, <4>2, <4>4
    <3> QED BY <3>1, <3>2
  <2>10. Good(k + 1, g) BY <2>8, <2>9
  <2> HIDE DEF Good
  <2> QED BY <2>2, <2>10
<1>3. 0..n \subseteq P
  <2> HIDE DEF P
  <2> QED BY <1>1, <1>2, Induct
<1>4. PICK f : Good(n, f)
  <2>1. n \in P
    <3>1. n \in 0..n OBVIOUS
    <3> HIDE DEF P
    <3> QED BY <1>3, <3>1
  <2> HIDE DEF Good
  <2> QED BY <2>1
<1>5. PICK g : g = [i \in 0..n |-> f[i]] OBVIOUS
<1>6. g = Def(n, g)
  <2>1. \A i \in 0..n : i # 0 => i - 1 \in 0..n OBVIOUS
  <2>2. \A i \in 0..n : g[i] = f[i] BY <1>5
  <2>3. \A i \in 0..n : g[i] = IF i = 0 THEN Took(<<>>, input) ELSE ThenSpan(g[i - 1])
    BY <1>4, <2>1, <2>2
  <2>4. g = [i \in 0..n |-> g[i]] BY <1>5
  <2> QED BY <2>3, <2>4
<1>7. PICK taken : taken = CHOOSE h : h = Def(n, h) OBVIOUS
<1>8. RepeatSpan(n, input) = taken[n] BY <1>7 DEF RepeatSpan, Repeat, ThenSpan
<1>9. taken = Def(n, taken)
  <2> HIDE DEF Def
  <2> QED BY <1>6, <1>7
<1>10. \A i \in 0..n : taken[i] = IF i = 0 THEN Took(<<>>, input) ELSE ThenSpan(taken[i - 1])
  BY <1>9
<1>11. SameSteps(f, taken, 0, n) BY <1>4, <1>10 DEF SameSteps
<1>12. taken[n] = f[n] /\ Sound(f[n])
  <2>1. 0 \in Nat /\ 0 <= n /\ n \in 0..n OBVIOUS
  <2> QED BY <1>4, <1>11, <2>1, Agree
<1> QED BY <1>8, <1>12

LEMMA SpansSound == \A input \in Blob : Sound(TakeSpans(input))
<1> TAKE input \in Blob
<1> DEFINE Next(t) == RepeatSpan(t.value, t.rest)
<1>1. PICK count : count = TakeNumber(U16, input) OBVIOUS
<1>2. Sound(count) /\ (count.error = None => count.value \in Nat)
  BY <1>1, NumberSound, Widths
<1>3. TakeSpans(input) = OrError(count, Next)
  BY <1>1 DEF TakeSpans, TakeAll, RepeatSpan, OrError, Bind
<1>4. OrError(count, Next) = IF count.error = None THEN Next(count) ELSE count
  <2> HIDE DEF Next
  <2> QED BY Once DEF OrError, Bind
<1>5. count.error = None => Sound(Next(count)) BY <1>2, RepeatSpanSound DEF Sound
<1> HIDE DEF Next
<1> QED BY <1>2, <1>3, <1>4, <1>5


LEMMA ThenSpansSound == \A taken : Sound(taken) => Sound(ThenSpans(taken))
<1> SUFFICES ASSUME NEW taken, Sound(taken) PROVE Sound(ThenSpans(taken)) OBVIOUS
<1>1. PICK next : next = ThenSpans(taken) OBVIOUS
<1>2. CASE taken.error # None
  <2>1. next = taken BY <1>1, <1>2, Once DEF ThenSpans, Then, OrError, Bind
  <2> QED BY <1>1, <2>1
<1>3. CASE taken.error = None
  <2>1. PICK t : t = TakeSpans(taken.rest) OBVIOUS
  <2>2. Sound(t) /\ (t.error = None => t.rest \in Blob)
    BY <1>3, <2>1, SpansSound DEF Sound
  <2>3. \/ next = t
        \/ t.error = None /\ \E v : next = Took(v, t.rest)
    BY <1>1, <1>3, <2>1, Once DEF ThenSpans, Then, Convert, OrError, Bind
  <2> QED BY <1>1, <2>2, <2>3, TookSound
<1> QED BY <1>2, <1>3


LEMMA OptionalStringSound == \A input \in Blob : Sound(TakeOptionalString(input))
<1> TAKE input \in Blob
<1> DEFINE Build(v) == {v}
           Next(present) == IF present.value = 1 THEN Convert(TakeString(present.rest), Build)
                            ELSE Took({}, present.rest)
<1>1. PICK present : present = TakeU8(input) OBVIOUS
<1>2. Sound(present) /\ (present.error = None => present.rest \in Blob)
  BY <1>1, FixedSound DEF Sound
<1>3. TakeOptionalString(input) = OrError(present, Next)
  BY <1>1 DEF TakeOptionalString, TakeOptional, OrError, Bind, Convert
<1>4. OrError(present, Next) = IF present.error = None THEN Next(present) ELSE present
  <2> HIDE DEF Next
  <2> QED BY Once DEF OrError, Bind
<1>5. ASSUME present.error = None PROVE Sound(Next(present))
  <2>1. PICK t : t = TakeString(present.rest) OBVIOUS
  <2>2. Sound(t) /\ (t.error = None => t.rest \in Blob) BY <1>2, <1>5, <2>1, StringSound DEF Sound
  <2>3. Convert(TakeString(present.rest), Build) = t
          \/ (t.error = None /\ \E v : Convert(TakeString(present.rest), Build) = Took(v, t.rest))
    BY <2>1, Once DEF Convert, OrError, Bind
  <2>4. Sound(Convert(TakeString(present.rest), Build))
    <3> HIDE DEF Build
    <3> QED BY <2>2, <2>3, TookSound
  <2>5. Sound(Took({}, present.rest)) BY <1>2, <1>5, TookSound
  <2> HIDE DEF Build
  <2> QED BY <2>4, <2>5
<1> HIDE DEF Next
<1> QED BY <1>2, <1>3, <1>4, <1>5


LEMMA OptionalU32Sound == \A input \in Blob : Sound(TakeOptionalU32(input))
<1> TAKE input \in Blob
<1> DEFINE Build(v) == {v}
           Next(present) == IF present.value = 1 THEN Convert(TakeU32(present.rest), Build)
                            ELSE Took({}, present.rest)
<1>1. PICK present : present = TakeU8(input) OBVIOUS
<1>2. Sound(present) /\ (present.error = None => present.rest \in Blob)
  BY <1>1, FixedSound DEF Sound
<1>3. TakeOptionalU32(input) = OrError(present, Next)
  BY <1>1 DEF TakeOptionalU32, TakeOptional, OrError, Bind, Convert
<1>4. OrError(present, Next) = IF present.error = None THEN Next(present) ELSE present
  <2> HIDE DEF Next
  <2> QED BY Once DEF OrError, Bind
<1>5. ASSUME present.error = None PROVE Sound(Next(present))
  <2>1. PICK t : t = TakeU32(present.rest) OBVIOUS
  <2>2. Sound(t) /\ (t.error = None => t.rest \in Blob) BY <1>2, <1>5, <2>1, FixedSound DEF Sound
  <2>3. Convert(TakeU32(present.rest), Build) = t
          \/ (t.error = None /\ \E v : Convert(TakeU32(present.rest), Build) = Took(v, t.rest))
    BY <2>1, Once DEF Convert, OrError, Bind
  <2>4. Sound(Convert(TakeU32(present.rest), Build))
    <3> HIDE DEF Build
    <3> QED BY <2>2, <2>3, TookSound
  <2>5. Sound(Took({}, present.rest)) BY <1>2, <1>5, TookSound
  <2> HIDE DEF Build
  <2> QED BY <2>4, <2>5
<1> HIDE DEF Next
<1> QED BY <1>2, <1>3, <1>4, <1>5


LEMMA OptionalSpanSound == \A input \in Blob : Sound(TakeOptionalSpan(input))
<1> TAKE input \in Blob
<1> DEFINE Build(v) == {v}
           Next(present) == IF present.value = 1 THEN Convert(TakeSpan(present.rest), Build)
                            ELSE Took({}, present.rest)
<1>1. PICK present : present = TakeU8(input) OBVIOUS
<1>2. Sound(present) /\ (present.error = None => present.rest \in Blob)
  BY <1>1, FixedSound DEF Sound
<1>3. TakeOptionalSpan(input) = OrError(present, Next)
  BY <1>1 DEF TakeOptionalSpan, TakeOptional, OrError, Bind, Convert
<1>4. OrError(present, Next) = IF present.error = None THEN Next(present) ELSE present
  <2> HIDE DEF Next
  <2> QED BY Once DEF OrError, Bind
<1>5. ASSUME present.error = None PROVE Sound(Next(present))
  <2>1. PICK t : t = TakeSpan(present.rest) OBVIOUS
  <2>2. Sound(t) /\ (t.error = None => t.rest \in Blob) BY <1>2, <1>5, <2>1, SpanSound DEF Sound
  <2>3. Convert(TakeSpan(present.rest), Build) = t
          \/ (t.error = None /\ \E v : Convert(TakeSpan(present.rest), Build) = Took(v, t.rest))
    BY <2>1, Once DEF Convert, OrError, Bind
  <2>4. Sound(Convert(TakeSpan(present.rest), Build))
    <3> HIDE DEF Build
    <3> QED BY <2>2, <2>3, TookSound
  <2>5. Sound(Took({}, present.rest)) BY <1>2, <1>5, TookSound
  <2> HIDE DEF Build
  <2> QED BY <2>4, <2>5
<1> HIDE DEF Next
<1> QED BY <1>2, <1>3, <1>4, <1>5


LEMMA ThenOptionalStringSound == \A taken : Sound(taken) => Sound(ThenOptionalString(taken))
<1> SUFFICES ASSUME NEW taken, Sound(taken) PROVE Sound(ThenOptionalString(taken)) OBVIOUS
<1>1. PICK next : next = ThenOptionalString(taken) OBVIOUS
<1>2. CASE taken.error # None
  <2>1. next = taken BY <1>1, <1>2, Once DEF ThenOptionalString, Then, OrError, Bind
  <2> QED BY <1>1, <2>1
<1>3. CASE taken.error = None
  <2>1. PICK t : t = TakeOptionalString(taken.rest) OBVIOUS
  <2>2. Sound(t) /\ (t.error = None => t.rest \in Blob)
    BY <1>3, <2>1, OptionalStringSound DEF Sound
  <2>3. \/ next = t
        \/ t.error = None /\ \E v : next = Took(v, t.rest)
    BY <1>1, <1>3, <2>1, Once DEF ThenOptionalString, Then, Convert, OrError, Bind
  <2> QED BY <1>1, <2>2, <2>3, TookSound
<1> QED BY <1>2, <1>3


LEMMA ThenOptionalU32Sound == \A taken : Sound(taken) => Sound(ThenOptionalU32(taken))
<1> SUFFICES ASSUME NEW taken, Sound(taken) PROVE Sound(ThenOptionalU32(taken)) OBVIOUS
<1>1. PICK next : next = ThenOptionalU32(taken) OBVIOUS
<1>2. CASE taken.error # None
  <2>1. next = taken BY <1>1, <1>2, Once DEF ThenOptionalU32, Then, OrError, Bind
  <2> QED BY <1>1, <2>1
<1>3. CASE taken.error = None
  <2>1. PICK t : t = TakeOptionalU32(taken.rest) OBVIOUS
  <2>2. Sound(t) /\ (t.error = None => t.rest \in Blob)
    BY <1>3, <2>1, OptionalU32Sound DEF Sound
  <2>3. \/ next = t
        \/ t.error = None /\ \E v : next = Took(v, t.rest)
    BY <1>1, <1>3, <2>1, Once DEF ThenOptionalU32, Then, Convert, OrError, Bind
  <2> QED BY <1>1, <2>2, <2>3, TookSound
<1> QED BY <1>2, <1>3


LEMMA ThenOptionalSpanSound == \A taken : Sound(taken) => Sound(ThenOptionalSpan(taken))
<1> SUFFICES ASSUME NEW taken, Sound(taken) PROVE Sound(ThenOptionalSpan(taken)) OBVIOUS
<1>1. PICK next : next = ThenOptionalSpan(taken) OBVIOUS
<1>2. CASE taken.error # None
  <2>1. next = taken BY <1>1, <1>2, Once DEF ThenOptionalSpan, Then, OrError, Bind
  <2> QED BY <1>1, <2>1
<1>3. CASE taken.error = None
  <2>1. PICK t : t = TakeOptionalSpan(taken.rest) OBVIOUS
  <2>2. Sound(t) /\ (t.error = None => t.rest \in Blob)
    BY <1>3, <2>1, OptionalSpanSound DEF Sound
  <2>3. \/ next = t
        \/ t.error = None /\ \E v : next = Took(v, t.rest)
    BY <1>1, <1>3, <2>1, Once DEF ThenOptionalSpan, Then, Convert, OrError, Bind
  <2> QED BY <1>1, <2>2, <2>3, TookSound
<1> QED BY <1>2, <1>3


LEMMA MetadataSound == \A payload \in Blob : Sound(DecodeMetadata(payload))
<1> TAKE payload \in Blob
<1> DEFINE s1 == ThenU32(Took(<<>>, payload))
           s2 == ThenKind(s1)
           s3 == ThenLevel(s2)
           s4 == ThenOptionalString(s3)
           s5 == ThenOptionalU32(s4)
           s6 == ThenOptionalString(s5)
           s7 == ThenString(s6)
           s8 == ThenString(s7)
           s9 == ThenStrings(s8)
           Build(v) == [frame |-> "metadata", id |-> v[1], kind |-> CallsiteKinds[v[2]],
                        level |-> v[3], file |-> v[4], line |-> v[5],
                        module_path |-> v[6], name |-> v[7], target |-> v[8],
                        fields |-> v[9]]
<1>1. DecodeMetadata(payload) = Convert(s9, Build)
  BY DEF DecodeMetadata, ThenU32, ThenKind, ThenLevel, ThenOptionalString, ThenOptionalU32, ThenString, ThenStrings
<1>2. Sound(s1) BY TookSound, ThenU32Sound
<1> HIDE DEF s1
<1>3. Sound(s2) BY <1>2, ThenKindSound
<1> HIDE DEF s2
<1>4. Sound(s3) BY <1>3, ThenLevelSound
<1> HIDE DEF s3
<1>5. Sound(s4) BY <1>4, ThenOptionalStringSound
<1> HIDE DEF s4
<1>6. Sound(s5) BY <1>5, ThenOptionalU32Sound
<1> HIDE DEF s5
<1>7. Sound(s6) BY <1>6, ThenOptionalStringSound
<1> HIDE DEF s6
<1>8. Sound(s7) BY <1>7, ThenStringSound
<1> HIDE DEF s7
<1>9. Sound(s8) BY <1>8, ThenStringSound
<1> HIDE DEF s8
<1>10. Sound(s9) BY <1>9, ThenStringsSound
<1> HIDE DEF s9
<1>11. \/ Convert(s9, Build) = s9
       \/ s9.error = None /\ \E v : Convert(s9, Build) = Took(v, s9.rest)
  <2> HIDE DEF Build
  <2> QED BY Once DEF Convert, OrError, Bind
<1> HIDE DEF Build
<1>12. s9.error = None => s9.rest \in Blob BY <1>10 DEF Sound
<1> QED BY <1>1, <1>10, <1>11, <1>12, TookSound


LEMMA EventSound == \A payload \in Blob : Sound(DecodeEvent(payload))
<1> TAKE payload \in Blob
<1> DEFINE s1 == ThenU64(Took(<<>>, payload))
           s2 == ThenU32(s1)
           s3 == ThenU32(s2)
           s4 == ThenU64(s3)
           s5 == ThenFields(s4)
           s6 == ThenOptionalSpan(s5)
           s7 == ThenSpans(s6)
           Build(v) == [frame |-> "event", seconds |-> v[1], nanos |-> v[2], metadata_id |-> v[3],
                        current_span_id |-> v[4], fields |-> v[5], current_span |-> v[6],
                        spans |-> v[7]]
<1>1. DecodeEvent(payload) = Convert(s7, Build)
  BY DEF DecodeEvent, ThenU64, ThenU32, ThenFields, ThenOptionalSpan, ThenSpans
<1>2. Sound(s1) BY TookSound, ThenU64Sound
<1> HIDE DEF s1
<1>3. Sound(s2) BY <1>2, ThenU32Sound
<1> HIDE DEF s2
<1>4. Sound(s3) BY <1>3, ThenU32Sound
<1> HIDE DEF s3
<1>5. Sound(s4) BY <1>4, ThenU64Sound
<1> HIDE DEF s4
<1>6. Sound(s5) BY <1>5, ThenFieldsSound
<1> HIDE DEF s5
<1>7. Sound(s6) BY <1>6, ThenOptionalSpanSound
<1> HIDE DEF s6
<1>8. Sound(s7) BY <1>7, ThenSpansSound
<1> HIDE DEF s7
<1>9. \/ Convert(s7, Build) = s7
      \/ s7.error = None /\ \E v : Convert(s7, Build) = Took(v, s7.rest)
  <2> HIDE DEF Build
  <2> QED BY Once DEF Convert, OrError, Bind
<1> HIDE DEF Build
<1>10. s7.error = None => s7.rest \in Blob BY <1>8 DEF Sound
<1> QED BY <1>1, <1>8, <1>9, <1>10, TookSound


LEMMA PayloadSound == \A kind : \A payload \in Blob : Sound(DecodePayload(kind, payload))
BY TookSound, MetadataSound, EventSound DEF DecodePayload, ReadErrors

(* Whatever the bytes are, reading a frame of them gives a frame or one of *)
(* the errors decode_binary_frame has, and a frame that is read consumes   *)
(* some of them: the loop of redline-decode makes progress.                *)
THEOREM FrameSound ==
  \A input \in Blob :
    /\ Sound(DecodeFrame(input))
    /\ DecodeFrame(input).error = None => Len(DecodeFrame(input).rest) < Len(input)
<1> TAKE input \in Blob
<1>1. PICK header : header = ThenU32(ThenU8(Took(<<>>, input))) OBVIOUS
<1>2. PICK frame : frame = DecodeFrame(input) OBVIOUS
<1>3. frame = OrError(header, PayloadOf)
  <2>1. DecodeFrame(input) = OrError(ThenU32(ThenU8(Took(<<>>, input))), PayloadOf)
    BY DEF DecodeFrame, ThenU32, ThenU8, PayloadOf, FrameOf
  <2> QED BY <1>1, <1>2, <2>1 DEF OrError, Bind
<1>4. frame = IF header.error = None THEN PayloadOf(header) ELSE header
  BY <1>3, Once DEF OrError, Bind
<1>5. Sound(header) BY <1>1, TookSound, ThenU8Sound, ThenU32Sound
<1>6. CASE header.error # None BY <1>2, <1>4, <1>5, <1>6
<1>7. CASE header.error = None
  <2>1. PICK one : one = TakeU8(input) OBVIOUS
  <2>2. Sound(one) /\ (one.error = None => Len(input) = 1 + Len(one.rest))
    BY <2>1, NumberSound DEF TakeU8
  <2>3. PICK kind : kind = ThenU8(Took(<<>>, input)) OBVIOUS
  <2>4. kind = IF one.error = None THEN Took(Append(<<>>, one.value), one.rest) ELSE one
    BY <2>1, <2>3, Once DEF ThenU8, Then, Convert, OrError, Bind, Took
  <2>5. kind.error = None
    BY <1>1, <1>7, <2>3, Once DEF ThenU32, Then, Convert, OrError, Bind
  <2>6. one.error = None /\ one.rest \in Blob
    <3>1. one.error = None BY <2>4, <2>5
    <3> QED BY <2>2, <3>1 DEF Sound
  <2>7. PICK two : two = TakeU32(one.rest) OBVIOUS
  <2>8. /\ Sound(two)
        /\ two.error = None => two.value \in Nat /\ Len(one.rest) = U32 + Len(two.rest)
    BY <2>6, <2>7, NumberSound, Widths DEF TakeU32
  <2>9. kind.value = <<one.value>> /\ kind.rest = one.rest
    <3>1. Append(<<>>, one.value) = <<one.value>> BY Longer
    <3> QED BY <2>4, <2>6, <3>1 DEF Took
  <2>10. header = IF two.error = None THEN Took(Append(<<one.value>>, two.value), two.rest) ELSE two
    <3>1. PICK vals : vals = <<one.value>> OBVIOUS
    <3>2. header = IF two.error = None THEN Took(Append(vals, two.value), two.rest) ELSE two
      BY <1>1, <2>3, <2>5, <2>7, <2>9, <3>1, Once DEF ThenU32, Then, Convert, OrError, Bind
    <3> QED BY <3>1, <3>2
  <2>11. two.error = None BY <1>7, <2>10
  <2>12. header.value[2] = two.value /\ header.rest = two.rest
    <3>1. Append(<<one.value>>, two.value) = <<one.value, two.value>> BY Longer
    <3>2. PICK vals : vals = <<one.value, two.value>> OBVIOUS
    <3>3. header = Took(vals, two.rest) BY <2>10, <2>11, <3>1, <3>2
    <3>4. header.value = vals /\ header.rest = two.rest BY <3>3 DEF Took
    <3> QED BY <3>2, <3>4
  <2>13. PICK payload : payload = TakeBytes(two.value, two.rest) OBVIOUS
  <2>14. /\ Sound(payload)
         /\ payload.error = None =>
              payload.value \in Blob /\ Len(two.rest) = two.value + Len(payload.rest)
    BY <2>8, <2>11, <2>13, BytesSound DEF Sound
  <2> DEFINE Payload(p) == FrameOf(header, p)
  <2>15. frame = OrError(payload, Payload)
    BY <1>4, <1>7, <2>12, <2>13 DEF PayloadOf, OrError, Bind
  <2>16. OrError(payload, Payload) = IF payload.error = None THEN Payload(payload) ELSE payload
    <3> HIDE DEF Payload
    <3> QED BY Once DEF OrError, Bind
  <2>17. CASE payload.error # None BY <1>2, <2>14, <2>15, <2>16, <2>17
  <2>18. CASE payload.error = None
    <3>1. PICK decoded : decoded = DecodePayload(header.value[1], payload.value) OBVIOUS
    <3>2. Sound(decoded) BY <2>14, <2>18, <3>1, PayloadSound
    <3>3. Payload(payload) = IF decoded.error = None THEN Took(decoded.value, payload.rest) ELSE decoded
      BY <3>1, Once DEF FrameOf, OrError, Bind
    <3> HIDE DEF Payload
    <3>4. payload.rest \in Blob BY <2>14, <2>18 DEF Sound
    <3>5. CASE decoded.error # None BY <1>2, <2>15, <2>16, <2>18, <3>2, <3>3, <3>5
    <3>6. CASE decoded.error = None
      <4>1. frame = Took(decoded.value, payload.rest) BY <2>15, <2>16, <2>18, <3>3, <3>6
      <4>2. frame.rest = payload.rest BY <4>1 DEF Took
      <4>3. PICK a \in Nat, b \in Nat, c \in Nat, d \in Nat, v \in Nat, u \in Nat :
              /\ a = Len(input) /\ b = Len(one.rest) /\ c = Len(two.rest) /\ d = Len(payload.rest)
              /\ v = two.value /\ u = U32
        <5>1. two.rest \in Blob BY <2>8, <2>11 DEF Sound
        <5>2. /\ Len(input) \in Nat /\ Len(one.rest) \in Nat /\ Len(two.rest) \in Nat
              /\ Len(payload.rest) \in Nat
          BY <2>6, <3>4, <5>1 DEF Blob
        <5> QED BY <2>8, <2>11, <5>2, Widths
      <4>4. a = 1 + b /\ b = u + c /\ c = v + d BY <2>2, <2>6, <2>8, <2>11, <2>14, <2>18, <4>3
      <4>5. d < a BY <4>4
      <4>6. Sound(frame) BY <3>4, <4>1, TookSound
      <4> QED BY <1>2, <4>2, <4>3, <4>5, <4>6
    <3> QED BY <3>5, <3>6
  <2> QED BY <2>17, <2>18
<1> QED BY <1>6, <1>7
=============================================================================

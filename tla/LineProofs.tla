----------------------------- MODULE LineProofs -----------------------------
(***************************************************************************)
(* Proofs about lines of JSON: the digits of a timestamp, and the writer   *)
(* of NDJSON and the writer of redline-decode, which agree on every string *)
(* and so on every line.                                                   *)
(***************************************************************************)
EXTENDS CodecProofs

-----------------------------------------------------------------------------
(* Decimal digits.                                                         *)

LEMMA Quotient ==
  \A a, b, q, r : a \in Nat /\ b \in Nat /\ q \in Nat /\ r \in Nat /\ r < b /\ a = b * q + r
                    => a \div b = q /\ a % b = r
<1> SUFFICES ASSUME NEW a \in Nat, NEW b \in Nat, NEW q \in Nat, NEW r \in Nat, r < b, a = b * q + r
             PROVE  a \div b = q /\ (a % b) = r
  OBVIOUS
<1>1. PICK p \in Nat, m \in Nat : p = a \div b /\ m = a % b /\ m < b /\ a = b * p + m
  <2>1. b > 0 OBVIOUS
  <2>2. a \div b \in Nat /\ a % b \in 0..(b - 1) /\ a = b * (a \div b) + (a % b) BY <2>1, DivMod
  <2> QED BY <2>2
<1>2. b * q + r = b * p + m BY <1>1
<1>3. ASSUME NEW x \in Nat, NEW y \in Nat, NEW u \in Nat, NEW v \in Nat, v < b,
             b * x + u = b * y + v
      PROVE  ~(x < y) \/ u >= b
  <2> SUFFICES ASSUME x < y PROVE u >= b OBVIOUS
  <2>1. PICK d \in Nat : y = x + 1 + d
    <3>1. y - x - 1 \in Nat /\ y = x + 1 + (y - x - 1) OBVIOUS
    <3> QED BY <3>1
  <2>2. b * y = b * x + b + b * d BY <2>1
  <2>3. b * d \in Nat /\ b * x \in Nat OBVIOUS
  <2>4. PICK bd \in Nat, bx \in Nat : bd = b * d /\ bx = b * x BY <2>3
  <2>5. bx + u = bx + b + bd + v BY <1>3, <2>2, <2>4
  <2> QED BY <2>5
<1>4. ~(p < q)
  <2>1. b * p + m = b * q + r BY <1>2
  <2>2. ~(p < q) \/ m >= b BY <1>3, <2>1
  <2> QED BY <1>1, <2>2
<1>5. ~(q < p)
  <2>1. ~(q < p) \/ r >= b BY <1>1, <1>2, <1>3
  <2> QED BY <2>1
<1>6. p = q BY <1>4, <1>5
<1>7. b * p \in Nat OBVIOUS
<1>8. m = r BY <1>2, <1>6, <1>7
<1> QED BY <1>1, <1>6, <1>8

LEMMA Tens ==
  ASSUME NEW j \in Nat
  PROVE  /\ Power(10, j) \in Nat /\ Power(10, j) > 0
         /\ Power(10, j + 1) = 10 * Power(10, j)
         /\ Power(10, 0) = 1
<1> DEFINE P == {i \in 0..j : Power(10, i) > 0}
<1>1. /\ Power(10, 0) = 1
      /\ \A n \in Nat : Power(10, n) \in Nat /\ Power(10, n + 1) = 10 * Power(10, n)
  BY PowerIs
<1>2. 0 \in P BY <1>1
<1>3. ASSUME NEW i \in 0..j, i # j, i \in P PROVE i + 1 \in P
  <2>1. i \in Nat /\ i + 1 \in 0..j BY <1>3
  <2>2. PICK p \in Nat : p = Power(10, i) /\ p > 0 BY <1>1, <1>3, <2>1
  <2>3. Power(10, i + 1) = 10 * p BY <1>1, <2>1, <2>2
  <2> QED BY <2>1, <2>2, <2>3
<1>4. 0..j \subseteq P
  <2> HIDE DEF P
  <2> QED BY <1>2, <1>3, Induct
<1>5. j \in P BY <1>4
<1> QED BY <1>1, <1>5

(* The last j digits of n.                                                 *)
LastDigits(j, n) == [i \in 1..j |-> (n \div Power(10, j - i)) % 10]

LEMMA TenthOf ==
  ASSUME NEW n \in Nat, NEW p \in Nat, p > 0
  PROVE  n \div (10 * p) = (n \div 10) \div p
<1>1. PICK a \in Nat, r \in Nat : a = n \div 10 /\ r < 10 /\ n = 10 * a + r
  <2>1. 10 \in Nat /\ 10 > 0 OBVIOUS
  <2>2. n \div 10 \in Nat /\ n % 10 \in 0..(10 - 1) /\ n = 10 * (n \div 10) + (n % 10) BY <2>1, DivMod
  <2> QED BY <2>2
<1>2. PICK q \in Nat, m \in Nat : q = a \div p /\ m < p /\ a = p * q + m
  <2>2. a \div p \in Nat /\ a % p \in 0..(p - 1) /\ a = p * (a \div p) + (a % p) BY DivMod
  <2> QED BY <2>2
<1>3. PICK x \in Nat : x = p * q OBVIOUS
<1>4. (10 * p) * q = 10 * x BY <1>3
<1>5. n = (10 * p) * q + (10 * m + r) BY <1>1, <1>2, <1>3, <1>4
<1>6. 10 * m + r \in Nat /\ 10 * m + r < 10 * p /\ 10 * p \in Nat BY <1>1, <1>2
<1>7. PICK b \in Nat, e \in Nat : b = 10 * p /\ e = 10 * m + r BY <1>6
<1>8. n = b * q + e /\ e < b BY <1>5, <1>6, <1>7
<1>9. n \div b = q BY <1>8, Quotient
<1> QED BY <1>1, <1>2, <1>7, <1>9

LEMMA DigitSeq ==
  ASSUME NEW j \in Nat, NEW n \in Nat
  PROVE  LastDigits(j, n) \in Seq(Nat) /\ Len(LastDigits(j, n)) = j
<1>1. ASSUME NEW i \in 1..j PROVE (n \div Power(10, j - i)) % 10 \in Nat
  <2>1. PICK p \in Nat : p = Power(10, j - i) /\ p > 0
    <3>1. j - i \in Nat OBVIOUS
    <3> QED BY <3>1, Tens
  <2>2. n \div p \in Nat BY <2>1, DivMod
  <2> QED BY <2>1, <2>2
<1>2. LastDigits(j, n) \in [1..j -> Nat] BY <1>1 DEF LastDigits
<1> QED BY <1>2

LEMMA DigitAppended ==
  ASSUME NEW j \in Nat, NEW n \in Nat
  PROVE  LastDigits(j + 1, n) = Append(LastDigits(j, n \div 10), n % 10)
<1>1. PICK a \in Nat, r \in Nat : a = n \div 10 /\ r = n % 10 OBVIOUS
<1>2. PICK s \in Seq(Nat), t \in Seq(Nat) :
        s = LastDigits(j, a) /\ Len(s) = j /\ t = LastDigits(j + 1, n) /\ Len(t) = j + 1
  <2>1. j + 1 \in Nat OBVIOUS
  <2> QED BY <2>1, DigitSeq
<1>3. Append(s, r) \in Seq(Nat) /\ Len(Append(s, r)) = j + 1 BY <1>2
<1>4. ASSUME NEW i \in 1..(j + 1) PROVE t[i] = Append(s, r)[i]
  <2>1. CASE i = j + 1
    <3>1. t[i] = (n \div Power(10, 0)) % 10
      <4>1. j + 1 - i = 0 BY <2>1
      <4>2. t[i] = (n \div Power(10, j + 1 - i)) % 10 BY <1>2 DEF LastDigits
      <4> QED BY <4>1, <4>2
    <3>2. n \div 1 = n OBVIOUS
    <3>3. Power(10, 0) = 1 BY Tens
    <3>4. t[i] = r BY <1>1, <3>1, <3>2, <3>3
    <3>5. Append(s, r)[Len(s) + 1] = r BY <1>2, AppendProperties
    <3>6. Append(s, r)[i] = r BY <1>2, <2>1, <3>5
    <3> QED BY <3>4, <3>6
  <2>2. CASE i # j + 1
    <3>1. i \in 1..j /\ j - i \in Nat BY <2>2
    <3>2. Append(s, r)[i] = s[i] BY <1>2, <3>1
    <3>3. s[i] = (a \div Power(10, j - i)) % 10 BY <1>2, <3>1 DEF LastDigits
    <3>4. t[i] = (n \div Power(10, j + 1 - i)) % 10 BY <1>2 DEF LastDigits
    <3>5. PICK p \in Nat : p = Power(10, j - i) /\ p > 0 /\ Power(10, j - i + 1) = 10 * p
      BY <3>1, Tens
    <3>6. j - i + 1 = j + 1 - i OBVIOUS
    <3>7. n \div (10 * p) = a \div p BY <1>1, <3>5, TenthOf
    <3>8. n \div Power(10, j + 1 - i) = a \div Power(10, j - i) BY <3>5, <3>6, <3>7
    <3> QED BY <3>2, <3>3, <3>4, <3>8
  <2> QED BY <2>1, <2>2
<1>5. t = Append(s, r)
  <2>1. PICK u \in Seq(Nat) : u = Append(s, r) /\ Len(u) = j + 1 BY <1>3
  <2>2. \A i \in 1..(j + 1) : t[i] = u[i] BY <1>4, <2>1
  <2>3. t = u BY <1>2, <2>1, <2>2, SeqEqual
  <2> QED BY <2>1, <2>3
<1> QED BY <1>1, <1>2, <1>5

(* How many digits a number has.                                           *)
HasDigits(k, l) == l \in Nat \ {0} /\ k < Power(10, l) /\ (l = 1 \/ Power(10, l - 1) <= k)

LEMMA TensGrow ==
  ASSUME NEW a \in Nat, NEW b \in Nat, a <= b
  PROVE  Power(10, a) <= Power(10, b)
<1> DEFINE P == {i \in a..b : Power(10, a) <= Power(10, i)}
<1>1. \A i \in Nat : Power(10, i) \in Nat /\ Power(10, i + 1) = 10 * Power(10, i) BY Tens
<1>2. a \in P BY <1>1
<1>3. ASSUME NEW i \in a..b, i # b, i \in P PROVE i + 1 \in P
  <2>1. i \in Nat /\ i + 1 \in a..b BY <1>3
  <2>2. PICK p \in Nat, q \in Nat : p = Power(10, a) /\ q = Power(10, i) /\ p <= q
    BY <1>1, <1>3, <2>1
  <2>3. Power(10, i + 1) = 10 * q BY <1>1, <2>1, <2>2
  <2> QED BY <2>1, <2>2, <2>3
<1>4. a..b \subseteq P
  <2> HIDE DEF P
  <2> QED BY <1>2, <1>3, Induct
<1>5. b \in P BY <1>4
<1> QED BY <1>5

LEMMA DigitsCounted ==
  /\ \A k \in Nat : \E l : HasDigits(k, l)
  /\ \A k \in Nat : \A l, m : HasDigits(k, l) /\ HasDigits(k, m) => l = m
<1>1. ASSUME NEW k \in Nat PROVE \E l : HasDigits(k, l)
  <2> DEFINE P == {i \in 0..k : i < Power(10, i)}
             I == {l \in Nat \ {0} : k < Power(10, l)}
  <2>1. \A i \in Nat : Power(10, i) \in Nat /\ Power(10, i + 1) = 10 * Power(10, i) BY Tens
  <2>2. 0 \in P BY Tens
  <2>3. ASSUME NEW i \in 0..k, i # k, i \in P PROVE i + 1 \in P
    <3>1. i \in Nat /\ i + 1 \in 0..k BY <2>3
    <3>2. PICK p \in Nat : p = Power(10, i) /\ i < p BY <2>1, <2>3, <3>1
    <3>3. Power(10, i + 1) = 10 * p BY <2>1, <3>1, <3>2
    <3> QED BY <3>1, <3>2, <3>3
  <2>4. 0..k \subseteq P
    <3> HIDE DEF P
    <3> QED BY <2>2, <2>3, Induct
  <2>5. I \in SUBSET Nat /\ I # {}
    <3>1. k \in P BY <2>4
    <3>2. PICK p \in Nat : p = Power(10, k) /\ k < p /\ Power(10, k + 1) = 10 * p BY <2>1, <3>1
    <3>3. k < Power(10, k + 1) /\ k + 1 \in Nat \ {0} BY <3>2
    <3> QED BY <3>3
  <2>6. PICK l \in I : \A m \in I : l <= m
    <3> HIDE DEF I
    <3> QED BY <2>5, LeastOf
  <2>7. l \in Nat \ {0} /\ k < Power(10, l) BY <2>6
  <2>8. l = 1 \/ Power(10, l - 1) <= k
    <3> SUFFICES ASSUME l # 1 PROVE Power(10, l - 1) <= k OBVIOUS
    <3>1. l - 1 \in Nat \ {0} /\ ~(l <= l - 1) BY <2>7
    <3>2. l - 1 \notin I
      <4> HIDE DEF I
      <4> QED BY <2>6, <3>1
    <3>3. Power(10, l - 1) \in Nat BY <2>1, <3>1
    <3> QED BY <3>1, <3>2, <3>3
  <2> QED BY <2>7, <2>8 DEF HasDigits
<1>2. ASSUME NEW k \in Nat, NEW l, NEW m, HasDigits(k, l), HasDigits(k, m), l < m PROVE FALSE
  <2>1. l \in Nat /\ m \in Nat /\ m # 1 /\ l <= m - 1 /\ m - 1 \in Nat BY <1>2 DEF HasDigits
  <2>2. Power(10, l) <= Power(10, m - 1) BY <2>1, TensGrow
  <2>3. Power(10, l) \in Nat /\ Power(10, m - 1) \in Nat BY <2>1, Tens
  <2>4. k < Power(10, l) /\ Power(10, m - 1) <= k BY <1>2, <2>1 DEF HasDigits
  <2> QED BY <2>2, <2>3, <2>4
<1>3. ASSUME NEW k \in Nat, NEW l, NEW m, HasDigits(k, l), HasDigits(k, m) PROVE l = m
  <2>1. l \in Nat /\ m \in Nat BY <1>3 DEF HasDigits
  <2>2. ~(l < m) /\ ~(m < l) BY <1>2, <1>3
  <2> QED BY <2>1, <2>2
<1> QED BY <1>1, <1>3

LEMMA DigitsOf ==
  \A k \in Nat : Digits(k) = IF k < 10 THEN <<k>> ELSE Append(Digits(k \div 10), k % 10)
<1> DEFINE Def(f) == [k \in Nat |-> IF k < 10 THEN <<k>> ELSE Append(f[k \div 10], k % 10)]
           digits == CHOOSE f : f = Def(f)
           count == [k \in Nat |-> CHOOSE l : HasDigits(k, l)]
           g == [k \in Nat |-> LastDigits(count[k], k)]
<1>1. \A k \in Nat : HasDigits(k, count[k]) BY DigitsCounted
<1> HIDE DEF count
<1>2. \A k \in Nat : \A l : HasDigits(k, l) => l = count[k] BY <1>1, DigitsCounted
<1>3. ASSUME NEW k \in Nat PROVE g[k] = IF k < 10 THEN <<k>> ELSE Append(g[k \div 10], k % 10)
  <2>1. CASE k < 10
    <3>1. Power(10, 1) = 10 /\ Power(10, 0) = 1
      <4>1. Power(10, 0 + 1) = 10 * Power(10, 0) /\ Power(10, 0) = 1 BY Tens
      <4> QED BY <4>1
    <3>2. HasDigits(k, 1) BY <2>1, <3>1 DEF HasDigits
    <3>3. count[k] = 1 BY <1>2, <3>2
    <3>4. LastDigits(1, k) = <<k>>
      <4>1. \A i \in 1..1 : (k \div Power(10, 1 - i)) % 10 = k
        <5> TAKE i \in 1..1
        <5>1. 1 - i = 0 OBVIOUS
        <5>2. k \div 1 = k /\ k % 10 = k BY <2>1
        <5> QED BY <3>1, <5>1, <5>2
      <4> QED BY <4>1 DEF LastDigits
    <3> QED BY <2>1, <3>3, <3>4
  <2>2. CASE ~(k < 10)
    <3>1. PICK a \in Nat, r \in Nat : a = k \div 10 /\ r = k % 10 /\ r < 10 /\ k = 10 * a + r
      <4>1. 10 \in Nat /\ 10 > 0 OBVIOUS
      <4>2. k \div 10 \in Nat /\ k % 10 \in 0..(10 - 1) /\ k = 10 * (k \div 10) + (k % 10)
        BY <4>1, DivMod
      <4> QED BY <4>2
    <3>2. PICK l \in Nat \ {0} : l = count[a] /\ HasDigits(a, l) BY <1>1 DEF HasDigits
    <3>3. PICK p \in Nat, q \in Nat :
            /\ p = Power(10, l) /\ Power(10, l + 1) = 10 * p
            /\ q = Power(10, l - 1) /\ p = 10 * q /\ (l = 1 => q = 1)
      <4>1. l - 1 \in Nat /\ l - 1 + 1 = l OBVIOUS
      <4>2. Power(10, l) \in Nat /\ Power(10, l + 1) = 10 * Power(10, l) BY Tens
      <4>3. Power(10, l - 1) \in Nat /\ Power(10, l - 1 + 1) = 10 * Power(10, l - 1)
        BY <4>1, Tens
      <4>4. l = 1 => Power(10, l - 1) = 1 BY Tens
      <4> QED BY <4>1, <4>2, <4>3, <4>4
    <3>4. a < p /\ (l = 1 \/ q <= a) BY <3>2, <3>3 DEF HasDigits
    <3>5. k < 10 * p /\ p <= k
      <4>1. CASE l = 1 BY <2>2, <3>1, <3>3, <3>4, <4>1
      <4>2. CASE q <= a BY <3>1, <3>3, <3>4, <4>2
      <4> QED BY <3>4, <4>1, <4>2
    <3>6. HasDigits(k, l + 1)
      <4>1. l + 1 \in Nat \ {0} /\ l + 1 - 1 = l OBVIOUS
      <4> QED BY <3>3, <3>5, <4>1 DEF HasDigits
    <3>7. count[k] = l + 1 BY <1>2, <3>6
    <3>8. g[k] = LastDigits(l + 1, k) BY <3>7
    <3>9. g[a] = LastDigits(l, a) BY <3>2
    <3>10. LastDigits(l + 1, k) = Append(LastDigits(l, k \div 10), k % 10) BY DigitAppended
    <3> HIDE DEF g
    <3> QED BY <2>2, <3>1, <3>8, <3>9, <3>10
  <2> QED BY <2>1, <2>2
<1>4. g = Def(g)
  <2>1. g = [k \in Nat |-> g[k]] OBVIOUS
  <2> HIDE DEF g
  <2> QED BY <1>3, <2>1
<1>5. digits = Def(digits)
  <2> HIDE DEF g, Def
  <2> QED BY <1>4
<1>6. \A n : Digits(n) = digits[n] BY DEF Digits
<1> HIDE DEF digits
<1>7. \A k \in Nat : digits[k] = IF k < 10 THEN <<k>> ELSE Append(digits[k \div 10], k % 10)
  BY <1>5
<1> HIDE DEF Def
<1> QED BY <1>6, <1>7

LEMMA DigitsAreNumbers == \A k \in Nat : Digits(k) \in Seq(Nat)
<1> DEFINE Wrong == {k \in Nat : Digits(k) \notin Seq(Nat)}
<1> SUFFICES ASSUME Wrong # {} PROVE FALSE OBVIOUS
<1>1. PICK k \in Wrong : \A i \in Wrong : k <= i
  <2>1. Wrong \in SUBSET Nat OBVIOUS
  <2> HIDE DEF Wrong
  <2> QED BY <2>1, LeastOf
<1>2. k \in Nat /\ Digits(k) \notin Seq(Nat) BY <1>1
<1>3. CASE k < 10
  <2>1. Digits(k) = <<k>> BY <1>2, <1>3, DigitsOf
  <2>2. <<k>> \in Seq(Nat) BY <1>2
  <2> QED BY <1>2, <2>1, <2>2
<1>4. CASE ~(k < 10)
  <2>1. PICK a \in Nat, r \in Nat : a = k \div 10 /\ r = k % 10 /\ k = 10 * a + r
    <3>1. 10 \in Nat /\ 10 > 0 OBVIOUS
    <3>2. k \div 10 \in Nat /\ k % 10 \in 0..(10 - 1) /\ k = 10 * (k \div 10) + (k % 10)
      BY <1>2, <3>1, DivMod
    <3> QED BY <3>2
  <2>2. ~(k <= a) BY <1>2, <1>4, <2>1
  <2>3. a \notin Wrong
    <3> HIDE DEF Wrong
    <3> QED BY <1>1, <2>2
  <2>4. PICK s \in Seq(Nat) : s = Digits(a) BY <2>1, <2>3
  <2>5. Digits(k) = Append(Digits(k \div 10), k % 10) BY <1>2, <1>4, DigitsOf
  <2>6. Digits(k) = Append(s, r) BY <2>1, <2>4, <2>5
  <2>7. Append(s, r) \in Seq(Nat) OBVIOUS
  <2> QED BY <1>2, <2>6, <2>7
<1> QED BY <1>3, <1>4

LEMMA NumbersRegroup == \A s, t, u \in Seq(Nat) : Cat(Cat(s, t), u) = Cat(s, Cat(t, u))
BY ConcatAssociative DEF Cat

(* A number, and another below a power of ten behind it.                   *)
LEMMA Shifted ==
  \A s, width, n, shifted :
    /\ s \in Nat /\ s >= 1 /\ width \in Nat /\ n \in Nat /\ n < Power(10, width)
    /\ shifted = s * Power(10, width) + n
    => Digits(shifted) = Digits(s) \o LastDigits(width, n)
<1> SUFFICES ASSUME NEW s, NEW width, NEW n, NEW shifted,
                    s \in Nat /\ s >= 1 /\ width \in Nat /\ n \in Nat /\ n < Power(10, width),
                    shifted = s * Power(10, width) + n
             PROVE  Digits(shifted) = Digits(s) \o LastDigits(width, n)
  OBVIOUS
<1> DEFINE Ok(j) == \A m \in Nat : m < Power(10, j) =>
                      Digits(s * Power(10, j) + m) = Digits(s) \o LastDigits(j, m)
           P == {j \in 0..width : Ok(j)}
<1>1. PICK head \in Seq(Nat) : head = Digits(s) BY DigitsAreNumbers
<1>2. 0 \in P
  <2> SUFFICES ASSUME NEW m \in Nat, m < Power(10, 0)
               PROVE  Digits(s * Power(10, 0) + m) = Digits(s) \o LastDigits(0, m)
    OBVIOUS
  <2>1. Power(10, 0) = 1 BY Tens
  <2>2. m = 0 /\ s * 1 + 0 = s BY <2>1
  <2>3. LastDigits(0, m) = <<>>
    <3>1. LastDigits(0, m) \in Seq(Nat) /\ Len(LastDigits(0, m)) = 0 BY DigitSeq
    <3> QED BY <3>1, EmptySeq
  <2>4. head \o <<>> = head BY ConcatEmptySeq
  <2> QED BY <1>1, <2>1, <2>2, <2>3, <2>4
<1>3. ASSUME NEW j \in 0..width, j # width, j \in P PROVE j + 1 \in P
  <2>1. j \in Nat /\ j + 1 \in 0..width /\ Ok(j) BY <1>3
  <2> SUFFICES ASSUME NEW m \in Nat, m < Power(10, j + 1)
               PROVE  Digits(s * Power(10, j + 1) + m) = Digits(s) \o LastDigits(j + 1, m)
    BY <2>1
  <2>2. PICK p \in Nat : p = Power(10, j) /\ p > 0 /\ Power(10, j + 1) = 10 * p BY <2>1, Tens
  <2>3. PICK a \in Nat, r \in Nat : a = m \div 10 /\ r = m % 10 /\ r < 10 /\ m = 10 * a + r
    <3>1. 10 \in Nat /\ 10 > 0 OBVIOUS
    <3>2. m \div 10 \in Nat /\ m % 10 \in 0..(10 - 1) /\ m = 10 * (m \div 10) + (m % 10)
      BY <3>1, DivMod
    <3> QED BY <3>2
  <2>4. a < p BY <2>2, <2>3
  <2>5. PICK x \in Nat : x = s * p /\ x >= 1 /\ s * (10 * p) = 10 * x
    <3>1. PICK q \in Nat : s = q + 1
      <4>1. s - 1 \in Nat /\ s = s - 1 + 1 OBVIOUS
      <4> QED BY <4>1
    <3>2. s * p = q * p + p /\ q * p \in Nat BY <3>1
    <3>3. PICK y \in Nat : y = s * p OBVIOUS
    <3>4. y >= 1
      <4>1. PICK z \in Nat : z = q * p BY <3>2
      <4>2. y = z + p BY <3>2, <3>3, <4>1
      <4> QED BY <2>2, <4>2
    <3>5. s * (10 * p) = 10 * y BY <3>3
    <3> QED BY <3>3, <3>4, <3>5
  <2>6. PICK k \in Nat : k = s * Power(10, j + 1) + m /\ k = 10 * (x + a) + r
    <3>1. s * Power(10, j + 1) = 10 * x BY <2>2, <2>5
    <3>2. 10 * x + m = 10 * (x + a) + r BY <2>3
    <3>3. 10 * x + m \in Nat OBVIOUS
    <3> QED BY <3>1, <3>2, <3>3
  <2>7. k \div 10 = x + a /\ k % 10 = r /\ ~(k < 10)
    <3>1. PICK y \in Nat : y = x + a OBVIOUS
    <3>2. PICK ten \in Nat : ten = 10 OBVIOUS
    <3>3. k = ten * y + r /\ r < ten BY <2>3, <2>6, <3>1, <3>2
    <3>4. k \div ten = y /\ k % ten = r BY <3>3, Quotient
    <3>5. ~(k < 10) BY <2>5, <3>1, <3>2, <3>3
    <3> QED BY <3>1, <3>2, <3>4, <3>5
  <2>8. Digits(k) = Append(Digits(x + a), r) BY <2>7, DigitsOf
  <2>9. PICK tail \in Seq(Nat) : tail = LastDigits(j, a) BY <2>1, DigitSeq
  <2>10. Digits(x + a) = head \o tail BY <1>1, <2>1, <2>2, <2>4, <2>5, <2>9
  <2>11. LastDigits(j + 1, m) = Append(tail, r) BY <2>1, <2>3, <2>9, DigitAppended
  <2>12. Append(head \o tail, r) = head \o Append(tail, r)
    <3>1. head \o tail \in Seq(Nat) BY ConcatProperties
    <3>2. PICK last \in Seq(Nat) : last = <<r>>
      <4>1. <<r>> \in Seq(Nat) OBVIOUS
      <4> QED BY <4>1
    <3>3. Append(head \o tail, r) = (head \o tail) \o last BY <3>1, <3>2, AppendIsConcat
    <3>4. Append(tail, r) = tail \o last BY <3>2, AppendIsConcat
    <3>5. Cat(Cat(head, tail), last) = Cat(head, Cat(tail, last)) BY NumbersRegroup
    <3> QED BY <3>3, <3>4, <3>5 DEF Cat
  <2> QED BY <1>1, <2>6, <2>8, <2>10, <2>11, <2>12
<1>4. 0..width \subseteq P
  <2> HIDE DEF P
  <2> QED BY <1>2, <1>3, Induct
<1>5. width \in P
  <2>1. width \in 0..width OBVIOUS
  <2> HIDE DEF P
  <2> QED BY <1>4, <2>1
<1>6. Ok(width) BY <1>5
<1> QED BY <1>6

LEMMA SameTimestamp ==
  ASSUME NEW seconds \in Nat, seconds >= 1, NEW nanos \in Nat, nanos < Power(10, FractionDigits)
  PROVE  Digits(seconds * Power(10, FractionDigits) + nanos) = Digits(seconds) \o Fraction(nanos)
<1>1. FractionDigits \in Nat BY CodecAssumption
<1>2. Fraction(nanos) = LastDigits(FractionDigits, nanos) BY DEF Fraction, LastDigits
<1>3. PICK shifted : shifted = seconds * Power(10, FractionDigits) + nanos OBVIOUS
<1>4. Digits(shifted) = Digits(seconds) \o LastDigits(FractionDigits, nanos)
  BY <1>1, <1>3, Shifted
<1> QED BY <1>2, <1>3, <1>4

-----------------------------------------------------------------------------
(* What a text becomes.                                                    *)

Special == Controls \union ShortEscapes

Escaped(text) == \A i \in DOMAIN text : text[i] \notin {Raw(byte) : byte \in Special}

LEMMA EscapeIs ==
  ASSUME NEW byte
  PROVE  /\ Escape(byte) \notin {Raw(b) : b \in Special}
         /\ ~NeedsJsonEscape(byte) => Escape(byte) = Raw(byte)
<1>1. \A b, c : [short |-> b] # [raw |-> c]
  <2> TAKE b, c
  <2>1. DOMAIN [short |-> b] = {"short"} /\ DOMAIN [raw |-> c] = {"raw"} OBVIOUS
  <2> QED BY <2>1
<1>2. \A b, c : [unicode |-> b] # [raw |-> c]
  <2> TAKE b, c
  <2>1. DOMAIN [unicode |-> b] = {"unicode"} /\ DOMAIN [raw |-> c] = {"raw"} OBVIOUS
  <2> QED BY <2>1
<1>3. \A b, c : Raw(b) = Raw(c) => b = c BY DEF Raw
<1>4. ASSUME NEW b \in Special PROVE Escape(byte) # Raw(b)
  <2>1. CASE byte \in ShortEscapes BY <1>1, <2>1 DEF Escape, Raw
  <2>2. CASE byte \notin ShortEscapes /\ byte \in Controls BY <1>2, <2>2 DEF Escape, Raw
  <2>3. CASE byte \notin ShortEscapes /\ byte \notin Controls
    <3>1. Escape(byte) = Raw(byte) /\ byte # b BY <2>3 DEF Escape, Special
    <3> QED BY <1>3, <3>1
  <2> QED BY <2>1, <2>2, <2>3
<1> QED BY <1>4 DEF Escape, NeedsJsonEscape

(* The text up to the byte k, each of its bytes escaped.                   *)
EscapedTo(bytes, k) == [i \in 1..k |-> Escape(bytes[i])]

(* Bytes that need no escape may be copied.                                *)
LEMMA CopiedRun ==
  ASSUME NEW S, NEW bytes \in Seq(S), NEW k \in 0..Len(bytes), NEW m \in 0..k,
         \A i \in m + 1..k : ~NeedsJsonEscape(bytes[i])
  PROVE  EscapedTo(bytes, m) \o RawText(SubSeq(bytes, m + 1, k)) = EscapedTo(bytes, k)
<1> DEFINE E == {Escape(b) : b \in S} \union {Raw(b) : b \in S}
           run == SubSeq(bytes, m + 1, k)
           head == EscapedTo(bytes, m)
           tail == RawText(run)
<1>1. k \in Nat /\ m \in Nat /\ k - m \in Nat /\ m <= k /\ k <= Len(bytes) OBVIOUS
<1>2. \A i \in 1..k : bytes[i] \in S OBVIOUS
<1>3. head \in Seq(E) /\ Len(head) = m /\ \A i \in 1..m : head[i] = Escape(bytes[i])
  <2>1. head \in [1..m -> E] BY <1>1, <1>2 DEF EscapedTo
  <2> HIDE DEF E
  <2> QED BY <1>1, <2>1 DEF EscapedTo
<1>4. run \in Seq(S) /\ Len(run) = k - m /\ \A i \in 1..k - m : run[i] = bytes[m + i]
  BY <1>1
<1> HIDE DEF run
<1>5. tail \in Seq(E) /\ Len(tail) = k - m /\ \A i \in 1..k - m : tail[i] = Escape(bytes[m + i])
  <2>1. \A i \in 1..k - m : run[i] \in S /\ m + i \in m + 1..k BY <1>1, <1>4
  <2>2. DOMAIN run = 1..k - m BY <1>1, <1>4
  <2>3. tail = [i \in 1..k - m |-> Raw(run[i])] BY <2>2 DEF RawText
  <2>4. tail \in [1..k - m -> E] BY <2>1, <2>3
  <2>5. \A i \in 1..k - m : Raw(run[i]) = Escape(bytes[m + i]) BY <1>4, <2>1, EscapeIs
  <2> HIDE DEF E, tail
  <2> QED BY <1>1, <2>3, <2>4, <2>5
<1>6. EscapedTo(bytes, k) \in Seq(E) /\ Len(EscapedTo(bytes, k)) = k
  <2>1. EscapedTo(bytes, k) \in [1..k -> E] BY <1>2 DEF EscapedTo
  <2> HIDE DEF E
  <2> QED BY <1>1, <2>1
<1> HIDE DEF E, head, tail
<1>7. head \o tail \in Seq(E) /\ Len(head \o tail) = k
  <2>1. Len(head \o tail) = Len(head) + Len(tail) /\ head \o tail \in Seq(E)
    BY <1>3, <1>5, ConcatProperties
  <2> QED BY <1>1, <1>3, <1>5, <2>1
<1>8. \A i \in 1..k : (head \o tail)[i] = EscapedTo(bytes, k)[i]
  <2> TAKE i \in 1..k
  <2>1. (head \o tail)[i] = IF i <= m THEN head[i] ELSE tail[i - m]
    BY <1>3, <1>5, <1>7, ConcatProperties
  <2>2. EscapedTo(bytes, k)[i] = Escape(bytes[i]) BY DEF EscapedTo
  <2>3. CASE i <= m
    <3>1. i \in 1..m BY <1>1, <2>3
    <3> QED BY <1>3, <2>1, <2>2, <2>3, <3>1
  <2>4. CASE ~(i <= m)
    <3>1. i - m \in 1..k - m /\ m + (i - m) = i BY <1>1, <2>4
    <3> QED BY <1>5, <2>1, <2>2, <2>4, <3>1
  <2> QED BY <2>3, <2>4
<1>9. head \o tail = EscapedTo(bytes, k) BY <1>6, <1>7, <1>8, SeqEqual
<1> QED BY <1>9 DEF head, tail, run

-----------------------------------------------------------------------------
(* The two writers of strings.                                             *)

(* The last of the first k bytes that needs an escape, or 0.               *)
LastEscape(bytes, k, m) ==
  /\ m \in 0..k
  /\ m = 0 \/ NeedsJsonEscape(bytes[m])
  /\ \A i \in m + 1..k : ~NeedsJsonEscape(bytes[i])

LEMMA LastEscapeIs ==
  ASSUME NEW bytes, NEW n \in Nat
  PROVE  /\ \A k \in 0..n : \E m : LastEscape(bytes, k, m)
         /\ \A k \in 0..n : \A m, l :
              LastEscape(bytes, k, m) /\ LastEscape(bytes, k, l) => m = l
<1>1. ASSUME NEW k \in 0..n PROVE \E m : LastEscape(bytes, k, m)
  <2> DEFINE I == {k - i : i \in {j \in 1..k : NeedsJsonEscape(bytes[j])}}
  <2>1. CASE \A i \in 1..k : ~NeedsJsonEscape(bytes[i])
    <3>1. LastEscape(bytes, k, 0) BY <2>1 DEF LastEscape
    <3> QED BY <3>1
  <2>2. ASSUME NEW i \in 1..k, NeedsJsonEscape(bytes[i])
        PROVE  \E m : LastEscape(bytes, k, m)
    <3>1. I \in SUBSET Nat /\ I # {} BY <2>2
    <3>2. PICK d \in I : \A e \in I : d <= e
      <4> HIDE DEF I
      <4> QED BY <3>1, LeastOf
    <3>3. PICK m \in 1..k : NeedsJsonEscape(bytes[m]) /\ d = k - m BY <3>2
    <3>4. \A j \in m + 1..k : ~NeedsJsonEscape(bytes[j])
      <4> SUFFICES ASSUME NEW j \in m + 1..k, NeedsJsonEscape(bytes[j]) PROVE FALSE
        OBVIOUS
      <4>1. k - j \in I OBVIOUS
      <4>2. ~(d <= k - j) BY <3>3
      <4> HIDE DEF I
      <4> QED BY <3>2, <4>1, <4>2
    <3>5. LastEscape(bytes, k, m) BY <3>3, <3>4 DEF LastEscape
    <3> QED BY <3>5
  <2> QED BY <2>1, <2>2
<1>2. ASSUME NEW k \in 0..n, NEW m, NEW l, LastEscape(bytes, k, m), LastEscape(bytes, k, l)
      PROVE  m = l
  <2>1. m \in 0..k /\ l \in 0..k /\ k \in Nat BY <1>2 DEF LastEscape
  <2>2. ~(m < l)
    <3> SUFFICES ASSUME m < l PROVE FALSE OBVIOUS
    <3>1. l \in m + 1..k /\ l # 0 BY <2>1
    <3> QED BY <1>2, <3>1 DEF LastEscape
  <2>3. ~(l < m)
    <3> SUFFICES ASSUME l < m PROVE FALSE OBVIOUS
    <3>1. m \in l + 1..k /\ m # 0 BY <2>1
    <3> QED BY <1>2, <3>1 DEF LastEscape
  <2> QED BY <2>1, <2>2, <2>3
<1> QED BY <1>1, <1>2

(* push_json_string of encode.rs, which copies the runs between escapes,   *)
(* and that of redline-decode, which goes byte by byte, write the same for *)
(* every text.                                                             *)
THEOREM WritersAgree ==
  ASSUME NEW S, NEW bytes \in Seq(S)
  PROVE  JsonString(bytes) = DecodedString(bytes)
<1> DEFINE n == Len(bytes)
           Def(f, i) ==
             IF i = 0 THEN [out |-> <<>>, start |-> 1]
             ELSE IF ~NeedsJsonEscape(bytes[i]) THEN f[i - 1]
             ELSE [out |-> f[i - 1].out
                             \o RawText(SubSeq(bytes, f[i - 1].start, i - 1)) \o <<Escape(bytes[i])>>,
                   start |-> i + 1]
           last == [i \in 0..n |-> CHOOSE m : LastEscape(bytes, i, m)]
           g == [i \in 0..n |-> [out |-> EscapedTo(bytes, last[i]), start |-> last[i] + 1]]
           scanned == CHOOSE f : f = [i \in 0..n |-> Def(f, i)]
<1>1. n \in Nat /\ \A i \in 1..n : bytes[i] \in S OBVIOUS
<1> HIDE DEF n
<1>2. \A i \in 0..n : LastEscape(bytes, i, last[i]) BY <1>1, LastEscapeIs
<1>3. \A i \in 0..n : \A m : LastEscape(bytes, i, m) => m = last[i]
  <2> HIDE DEF last
  <2> QED BY <1>1, <1>2, LastEscapeIs
<1>4. \A i \in 0..n : last[i] \in 0..i BY <1>2 DEF LastEscape
<1> HIDE DEF last
<1>5. \A i \in 0..n : g[i].out = EscapedTo(bytes, last[i]) /\ g[i].start = last[i] + 1
  OBVIOUS
<1>6. \A i \in 0..n : g[i] = Def(g, i)
  <2> TAKE i \in 0..n
  <2>1. CASE i = 0
    <3>1. last[i] = 0 BY <1>4, <2>1
    <3>2. EscapedTo(bytes, 0) = <<>> BY DEF EscapedTo
    <3> QED BY <2>1, <3>1, <3>2
  <2>2. CASE i # 0 /\ ~NeedsJsonEscape(bytes[i])
    <3>1. i - 1 \in 0..n /\ i \in Nat /\ i >= 1 BY <1>1, <2>2
    <3>2. LastEscape(bytes, i, last[i - 1])
      <4>1. LastEscape(bytes, i - 1, last[i - 1]) BY <1>2, <3>1
      <4>2. \A j \in last[i - 1] + 1..i : j \in last[i - 1] + 1..i - 1 \/ j = i
        BY <1>4, <3>1
      <4>3. last[i - 1] \in 0..i BY <1>4, <3>1
      <4> QED BY <2>2, <4>1, <4>2, <4>3 DEF LastEscape
    <3>3. last[i - 1] = last[i] BY <1>3, <3>2
    <3>4. g[i] = g[i - 1] BY <3>1, <3>3
    <3> QED BY <2>2, <3>4
  <2>3. CASE i # 0 /\ NeedsJsonEscape(bytes[i])
    <3> DEFINE m == last[i - 1]
    <3>1. i - 1 \in 0..n /\ i \in Nat /\ i >= 1 BY <1>1, <2>3
    <3>2. last[i] = i
      <4>1. LastEscape(bytes, i, i) BY <2>3, <3>1 DEF LastEscape
      <4> QED BY <1>3, <4>1
    <3>3. m \in 0..i - 1 /\ \A j \in m + 1..i - 1 : ~NeedsJsonEscape(bytes[j])
      BY <1>2, <3>1 DEF LastEscape
    <3>4. EscapedTo(bytes, m) \o RawText(SubSeq(bytes, m + 1, i - 1)) = EscapedTo(bytes, i - 1)
      <4>1. i - 1 \in 0..Len(bytes) BY <3>1 DEF n
      <4> HIDE DEF m
      <4> QED BY <3>3, <4>1, CopiedRun
    <3>5. EscapedTo(bytes, i - 1) \o <<Escape(bytes[i])>> = EscapedTo(bytes, i)
      <4> DEFINE E == {Escape(b) : b \in S}
      <4>1. \A j \in 1..i : bytes[j] \in S BY <1>1
      <4>2. /\ EscapedTo(bytes, i - 1) \in [1..i - 1 -> E]
            /\ EscapedTo(bytes, i) \in [1..i -> E] /\ Escape(bytes[i]) \in E
        BY <3>1, <4>1 DEF EscapedTo
      <4>3. /\ \A j \in 1..i - 1 : EscapedTo(bytes, i - 1)[j] = Escape(bytes[j])
            /\ \A j \in 1..i : EscapedTo(bytes, i)[j] = Escape(bytes[j])
        BY DEF EscapedTo
      <4> HIDE DEF E
      <4> DEFINE head == EscapedTo(bytes, i - 1)
                 whole == EscapedTo(bytes, i)
                 e == Escape(bytes[i])
      <4>4. /\ head \in Seq(E) /\ Len(head) = i - 1 /\ whole \in Seq(E) /\ Len(whole) = i
        BY <3>1, <4>2
      <4>5. \A j \in 1..i - 1 : head[j] = whole[j] BY <4>3
      <4>6. whole[i] = e /\ e \in E BY <3>1, <4>2, <4>3
      <4> HIDE DEF head, whole, e
      <4>7. head \o <<e>> = Append(head, e) BY <4>4, <4>6
      <4>8. Append(head, e) \in Seq(E) /\ Len(Append(head, e)) = i
            /\ \A j \in 1..i : Append(head, e)[j] = whole[j]
        BY <3>1, <4>4, <4>5, <4>6
      <4>9. Append(head, e) = whole BY <4>4, <4>8, SeqEqual
      <4> QED BY <4>7, <4>9 DEF head, whole, e
    <3>6. g[i - 1].out = EscapedTo(bytes, m) /\ g[i - 1].start = m + 1 BY <1>5, <3>1
    <3>7. g[i] = [out |-> EscapedTo(bytes, i), start |-> i + 1] BY <3>2
    <3> HIDE DEF g, m
    <3> QED BY <2>3, <3>4, <3>5, <3>6, <3>7
  <2> QED BY <2>1, <2>2, <2>3
<1>7. g = [i \in 0..n |-> Def(g, i)]
  <2>1. g = [i \in 0..n |-> g[i]] OBVIOUS
  <2> HIDE DEF g, Def
  <2> QED BY <1>6, <2>1
<1>8. scanned = [i \in 0..n |-> Def(scanned, i)]
  <2> HIDE DEF g, Def
  <2> QED BY <1>7
<1>9. \A i \in 0..n : scanned[i] = Def(scanned, i)
  <2> HIDE DEF scanned, Def
  <2> QED BY <1>8
<1> DEFINE end == scanned[n]
<1>10. JsonString(bytes) = end.out \o RawText(SubSeq(bytes, end.start, n))
  BY DEF JsonString, n
<1> HIDE DEF scanned, g
<1>11. \A i \in 0..n : scanned[i] = g[i]
  <2> DEFINE Wrong == {i \in 0..n : scanned[i] # g[i]}
  <2> SUFFICES ASSUME Wrong # {} PROVE FALSE OBVIOUS
  <2>1. Wrong \in SUBSET Nat OBVIOUS
  <2>2. PICK k \in Wrong : \A i \in Wrong : k <= i
    <3> HIDE DEF Wrong
    <3> QED BY <2>1, LeastOf
  <2>3. k \in 0..n /\ scanned[k] # g[k] BY <2>2
  <2>4. CASE k = 0 BY <1>6, <1>9, <2>3, <2>4
  <2>5. CASE k # 0
    <3>1. k - 1 \in 0..n /\ ~(k <= k - 1) BY <1>1, <2>3, <2>5
    <3>2. scanned[k - 1] = g[k - 1] BY <2>2, <3>1
    <3>3. Def(scanned, k) = Def(g, k) BY <2>5, <3>2
    <3> HIDE DEF Def
    <3> QED BY <1>6, <1>9, <2>3, <3>3
  <2> QED BY <2>4, <2>5
<1>12. end.out = EscapedTo(bytes, last[n]) /\ end.start = last[n] + 1
  BY <1>1, <1>5, <1>11
<1>13. EscapedTo(bytes, last[n]) \o RawText(SubSeq(bytes, last[n] + 1, n)) = EscapedTo(bytes, n)
  <2>1. last[n] \in 0..n /\ \A j \in last[n] + 1..n : ~NeedsJsonEscape(bytes[j])
    BY <1>1, <1>2 DEF LastEscape
  <2>2. PICK k \in 0..Len(bytes) : k = n BY <1>1 DEF n
  <2>3. PICK m \in 0..k : m = last[n] BY <2>1, <2>2
  <2>4. \A j \in m + 1..k : ~NeedsJsonEscape(bytes[j]) BY <2>1, <2>2, <2>3
  <2>5. EscapedTo(bytes, m) \o RawText(SubSeq(bytes, m + 1, k)) = EscapedTo(bytes, k)
    BY <2>4, CopiedRun
  <2> QED BY <2>2, <2>3, <2>5
<1>14. DecodedString(bytes) = EscapedTo(bytes, n)
  <2>1. DOMAIN bytes = 1..n BY DEF n
  <2> QED BY <2>1 DEF DecodedString, EscapedTo
<1> QED BY <1>10, <1>12, <1>13, <1>14

LEMMA SameText == \A bytes \in Blob : Text("encode", bytes) = Text("decode", bytes)
BY WritersAgree DEF Blob, Text

-----------------------------------------------------------------------------
(* The line of a decoded event is the line of the record it was written    *)
(* from.                                                                   *)

LEMMA ValuesSame ==
  \A value \in Value : JsonValue("encode", value) = JsonValue("decode", value)
<1> TAKE value \in Value
<1>1. Text("encode", value.bytes) = Text("decode", value.bytes)
  <2>1. value.bytes \in Blob BY DEF Value
  <2> QED BY <2>1, SameText
<1>2. PICK e, d : e = Text("encode", value.bytes) /\ d = Text("decode", value.bytes) OBVIOUS
<1>3. PICK h, b, type : /\ h = HexBytes(value.bytes) /\ b = value.bytes
                        /\ type = JsonType(value.kind)
  OBVIOUS
<1>4. /\ JsonValue("encode", value) = [type |-> type, text |-> CASE type = "string" -> e
                                         [] type = "hex" -> h [] OTHER -> b]
      /\ JsonValue("decode", value) = [type |-> type, text |-> CASE type = "string" -> d
                                         [] type = "hex" -> h [] OTHER -> b]
  BY <1>2, <1>3 DEF JsonValue
<1> QED BY <1>1, <1>2, <1>4

LEMMA FieldsSame ==
  \A fields \in Seq(Field) : JsonFields("encode", fields) = JsonFields("decode", fields)
<1> TAKE fields \in Seq(Field)
<1>1. ASSUME NEW i \in DOMAIN fields
      PROVE  /\ Text("encode", fields[i].name) = Text("decode", fields[i].name)
             /\ JsonValue("encode", fields[i].value) = JsonValue("decode", fields[i].value)
  <2>1. PICK field \in Field : field = fields[i] OBVIOUS
  <2>2. field.name \in Blob /\ field.value \in Value BY DEF Field, String
  <2> QED BY <2>1, <2>2, SameText, ValuesSame
<1> QED BY <1>1 DEF JsonFields

LEMMA SpansSame ==
  \A span \in SpanRecord : JsonSpan("encode", span) = JsonSpan("decode", span)
<1> TAKE span \in SpanRecord
<1>1. span.name \in Blob /\ span.target \in Blob /\ span.fields \in Seq(Field)
  BY DEF SpanRecord, AnySpan, String
<1> QED BY <1>1, SameText, FieldsSame DEF JsonSpan

LEMMA ListsSame ==
  \A spans \in Seq(SpanRecord) : JsonSpans("encode", spans) = JsonSpans("decode", spans)
<1> TAKE spans \in Seq(SpanRecord)
<1>1. \A i \in DOMAIN spans : JsonSpan("encode", spans[i]) = JsonSpan("decode", spans[i])
  <2> TAKE i \in DOMAIN spans
  <2>1. spans[i] \in SpanRecord OBVIOUS
  <2> QED BY <2>1, SpansSame
<1> QED BY <1>1 DEF JsonSpans

(* The lines of NDJSON output, and of redline-decode, but for an empty     *)
(* list of spans, which only the first writes.                             *)
WithoutEmptyList(line) == [line EXCEPT !.spans = @ \ {<<>>}]

LEMMA SpanListSame ==
  ASSUME NEW spans \in Seq(SpanRecord)
  PROVE  {JsonSpans("encode", spans)} \ {<<>>} =
           IF spans = <<>> THEN {} ELSE {JsonSpans("decode", spans)}
<1> DEFINE list == JsonSpans("decode", spans)
<1>1. JsonSpans("encode", spans) = list BY ListsSame
<1>2. DOMAIN list = DOMAIN spans BY DEF JsonSpans
<1>3. list = [i \in DOMAIN spans |-> JsonSpan("decode", spans[i])] BY DEF JsonSpans
<1>4. CASE spans = <<>>
  <2>1. list = <<>> BY <1>3, <1>4
  <2> QED BY <1>1, <1>4, <2>1
<1>5. CASE spans # <<>>
  <2>1. Len(spans) \in Nat \ {0} /\ DOMAIN spans = 1..Len(spans) BY <1>5, EmptySeq
  <2>2. 1 \in DOMAIN list BY <1>2, <2>1
  <2>3. 1 \notin DOMAIN <<>> OBVIOUS
  <2>4. list # <<>> BY <2>2, <2>3
  <2> HIDE DEF list
  <2> QED BY <1>1, <1>5, <2>4 DEF list
<1> QED BY <1>4, <1>5

(* The line that redline-decode writes of a decoded event is the line that *)
(* the library would have written of the record itself, timestamp, escapes *)
(* and context included, except that an empty list of spans is left out.   *)
THEOREM SameLine ==
  ASSUME NEW config, NEW r \in EventRecord, r.seconds >= 1, r.nanos < Power(10, FractionDigits),
         NEW callsite, callsite.level = r.level, callsite.target = r.target, callsite.name = r.name
  PROVE  DecodedLine(callsite, DecodedEvent(config, r)) = WithoutEmptyList(NdjsonRecord(config, r))
<1> DEFINE e == DecodedEvent(config, r)
<1>1. /\ r.seconds \in Nat /\ r.nanos \in Nat /\ r.fields \in Seq(Field)
      /\ WrittenSpan(config, r) \in SUBSET SpanRecord /\ WrittenSpans(config, r) \in Seq(SpanRecord)
  BY EventTypes
<1>2. r.target \in Blob /\ r.name \in Blob BY DEF EventRecord, AnyEvent, String
<1>3. /\ e.seconds = r.seconds /\ e.nanos = r.nanos /\ e.metadata_id = r.metadata_id
      /\ e.fields = r.fields /\ e.current_span = WrittenSpan(config, r)
      /\ e.spans = WrittenSpans(config, r)
  BY DEF DecodedEvent
<1> HIDE DEF e
<1>4. Digits(UnixNanos(e)) = Digits(r.seconds) \o Fraction(r.nanos)
  BY <1>1, <1>3, SameTimestamp DEF UnixNanos
<1>5. /\ Text("encode", r.target) = Text("decode", callsite.target)
      /\ Text("encode", r.name) = Text("decode", callsite.name)
      /\ JsonFields("encode", r.fields) = JsonFields("decode", e.fields)
  BY <1>1, <1>2, <1>3, SameText, FieldsSame
<1>6. (IF config.current_span THEN {JsonSpan("encode", s) : s \in r.current_span} ELSE {})
        = {JsonSpan("decode", s) : s \in e.current_span}
  <2>1. CASE config.current_span
    <3>1. e.current_span = r.current_span /\ r.current_span \subseteq SpanRecord
      BY <1>1, <1>3, <2>1 DEF WrittenSpan
    <3>2. \A s \in r.current_span : JsonSpan("encode", s) = JsonSpan("decode", s)
      BY <3>1, SpansSame
    <3> QED BY <2>1, <3>1, <3>2
  <2>2. CASE ~config.current_span BY <1>3, <2>2 DEF WrittenSpan
  <2> QED BY <2>1, <2>2
<1>7. (IF config.span_list THEN {JsonSpans("encode", r.spans)} ELSE {}) \ {<<>>}
        = IF e.spans = <<>> THEN {} ELSE {JsonSpans("decode", e.spans)}
  <2>1. CASE config.span_list
    <3>1. e.spans = r.spans /\ r.spans \in Seq(SpanRecord) BY <1>1, <1>3, <2>1 DEF WrittenSpans
    <3> QED BY <2>1, <3>1, SpanListSame
  <2>2. CASE ~config.span_list BY <1>3, <2>2 DEF WrittenSpans
  <2> QED BY <2>1, <2>2
<1> DEFINE n == NdjsonRecord(config, r)
           d == DecodedLine(callsite, e)
<1>8. n = [timestamp |-> n.timestamp, level |-> n.level, target |-> n.target, name |-> n.name,
           metadata_id |-> n.metadata_id, fields |-> n.fields, span |-> n.span, spans |-> n.spans]
  BY DEF NdjsonRecord
<1>9. d = [timestamp |-> d.timestamp, level |-> d.level, target |-> d.target, name |-> d.name,
           metadata_id |-> d.metadata_id, fields |-> d.fields, span |-> d.span, spans |-> d.spans]
  BY DEF DecodedLine
<1>10. /\ n.timestamp = Digits(r.seconds) \o Fraction(r.nanos) /\ n.level = r.level
       /\ n.target = Text("encode", r.target) /\ n.name = Text("encode", r.name)
       /\ n.metadata_id = r.metadata_id /\ n.fields = JsonFields("encode", r.fields)
       /\ n.span = IF config.current_span THEN {JsonSpan("encode", s) : s \in r.current_span} ELSE {}
       /\ n.spans = IF config.span_list THEN {JsonSpans("encode", r.spans)} ELSE {}
  BY DEF NdjsonRecord
<1>11. /\ d.timestamp = Digits(UnixNanos(e)) /\ d.level = callsite.level
       /\ d.target = Text("decode", callsite.target) /\ d.name = Text("decode", callsite.name)
       /\ d.metadata_id = e.metadata_id /\ d.fields = JsonFields("decode", e.fields)
       /\ d.span = {JsonSpan("decode", s) : s \in e.current_span}
       /\ d.spans = IF e.spans = <<>> THEN {} ELSE {JsonSpans("decode", e.spans)}
  BY DEF DecodedLine
<1> HIDE DEF n, d
<1>12. /\ d.timestamp = n.timestamp /\ d.level = n.level /\ d.target = n.target /\ d.name = n.name
       /\ d.metadata_id = n.metadata_id /\ d.fields = n.fields /\ d.span = n.span
       /\ d.spans = n.spans \ {<<>>}
  BY <1>3, <1>4, <1>5, <1>6, <1>7, <1>10, <1>11
<1>13. WithoutEmptyList(n) =
         [timestamp |-> n.timestamp, level |-> n.level, target |-> n.target, name |-> n.name,
          metadata_id |-> n.metadata_id, fields |-> n.fields, span |-> n.span,
          spans |-> n.spans \ {<<>>}]
  <2>1. PICK t, l, u, v, m, f, s, w :
          /\ t = n.timestamp /\ l = n.level /\ u = n.target /\ v = n.name /\ m = n.metadata_id
          /\ f = n.fields /\ s = n.span /\ w = n.spans
    OBVIOUS
  <2>2. PICK line : line = [timestamp |-> t, level |-> l, target |-> u, name |-> v,
                            metadata_id |-> m, fields |-> f, span |-> s, spans |-> w]
    OBVIOUS
  <2>3. WithoutEmptyList(line) = [timestamp |-> t, level |-> l, target |-> u, name |-> v,
                                  metadata_id |-> m, fields |-> f, span |-> s, spans |-> w \ {<<>>}]
    <3>1. PICK x : x = w \ {<<>>} OBVIOUS
    <3>2. line.spans = w BY <2>2
    <3>3. WithoutEmptyList(line) = [line EXCEPT !.spans = x] BY <3>1, <3>2 DEF WithoutEmptyList
    <3>4. [line EXCEPT !.spans = x] =
            [timestamp |-> t, level |-> l, target |-> u, name |-> v,
             metadata_id |-> m, fields |-> f, span |-> s, spans |-> x]
      BY <2>2
    <3> QED BY <3>1, <3>3, <3>4
  <2>4. n = line BY <1>8, <2>1, <2>2
  <2> QED BY <2>1, <2>3, <2>4
<1>14. d = WithoutEmptyList(n) BY <1>9, <1>12, <1>13
<1> QED BY <1>14 DEF d, n, e
=============================================================================

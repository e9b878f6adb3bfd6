--------------------------- MODULE DispatchProofs ---------------------------
(***************************************************************************)
(* Theorems about Bytestream.tla and Dispatch.tla: for every base and width *)
(* of integers, every depth of lists and maps, and any resources, requests, *)
(* results and buffer sizes.                                               *)
(*                                                                         *)
(* The first half shows that what is written is read back; the second, with *)
(* an invariant of one request, that a handler sees what its plugin         *)
(* declared and that its result is answered whole.                          *)
(***************************************************************************)
EXTENDS Dispatch, FiniteSetTheorems, SequenceTheorems, WellFoundedInduction, TLAPS

-----------------------------------------------------------------------------
(* Numbers below n, and the powers of Base                                 *)

LEMMA Least ==
    ASSUME NEW S, S \subseteq Nat, S # {}
    PROVE  \E n \in S : \A m \in S : n <= m
<1> DEFINE R == OpToRel(<, Nat)
<1>1. IsWellFoundedOn(R, Nat)
  BY NatLessThanWellFounded
<1>2. PICK x \in S : \A y \in S : ~(<<y, x>> \in R)
  BY <1>1, WFMin, Zenon
<1>3. ASSUME NEW y \in S PROVE x <= y
  <2>1. ~ (y < x)
     BY <1>2 DEF OpToRel
  <2>2. QED BY <2>1
<1>4. QED BY <1>3

LEMMA UpTo ==
    ASSUME NEW n \in Nat, NEW S, 0 \in S,
           \A k \in 0..n : k \in S /\ k < n => k + 1 \in S
    PROVE  \A k \in 0..n : k \in S
<1> DEFINE Out == {k \in 0..n : k \notin S}
<1>1. SUFFICES ASSUME Out # {} PROVE FALSE
  OBVIOUS
<1>2. PICK m \in Out : \A k \in Out : m <= k
  <2>1. Out \subseteq Nat
    OBVIOUS
  <2> HIDE DEF Out
  <2>2. QED BY <1>1, <2>1, Least
<1>3. m # 0 /\ m - 1 \in 0..n /\ m - 1 < n
  BY <1>2
<1>4. m - 1 \in S
  BY <1>2, <1>3
<1>5. m - 1 + 1 \in S
  BY <1>3, <1>4
<1>6. QED BY <1>2, <1>5

LEMMA PowDef == Pow = [n \in 0..Width |-> IF n = 0 THEN 1 ELSE Base * Pow[n - 1]]
<1> DEFINE Is(g, m) == g = [n \in 0..m |-> IF n = 0 THEN 1 ELSE Base * g[n - 1]]
           A == {m \in 0..Width : \E g : Is(g, m)}
<1>1. Width \in Nat
  BY WireAssumption
<1>2. 0 \in A
  <2>1. Is([n \in 0..0 |-> 1], 0)
    OBVIOUS
  <2> HIDE DEF Is
  <2>2. QED BY <2>1, <1>1
<1>3. ASSUME NEW m \in 0..Width, m \in A, m < Width PROVE m + 1 \in A
  <2>1. PICK g : Is(g, m)
    BY <1>3
  <2> DEFINE h == [n \in 0..(m + 1) |-> IF n <= m THEN g[n] ELSE Base * g[m]]
  <2>2. Is(h, m + 1)
    BY <2>1, <1>1
  <2> HIDE DEF Is, h
  <2>3. m + 1 \in 0..Width
    BY <1>1, <1>3
  <2>4. QED BY <2>2, <2>3
<1>4. Width \in A
  <2> HIDE DEF A
  <2>1. \A k \in 0..Width : k \in A
    BY <1>1, <1>2, <1>3, UpTo
  <2>2. QED BY <2>1, <1>1
<1>5. PICK g : Is(g, Width)
  BY <1>4
<1>6. QED BY <1>5 DEF Pow

-----------------------------------------------------------------------------
(* Dividing by the base                                                    *)

LEMMA Multiple ==
    ASSUME NEW m \in Nat, m > 0, NEW q \in Int, q >= 1
    PROVE  m * q >= m
<1>1. m * (q - 1) >= 0
  BY SMT
<1>2. m * q = m * (q - 1) + m
  BY SMT
<1>3. QED BY <1>1, <1>2, SMT

LEMMA DivMod ==
    ASSUME NEW v \in Nat, NEW m \in Nat, m > 0
    PROVE  /\ v \div m \in Nat /\ v % m \in 0..(m - 1)
           /\ v = m * (v \div m) + (v % m)
OBVIOUS

LEMMA DivUnique ==
    ASSUME NEW v \in Nat, NEW m \in Nat, m > 0, NEW q \in Nat, NEW r \in 0..(m - 1),
           v = m * q + r
    PROVE  v \div m = q /\ v % m = r
<1> DEFINE d == v \div m
           s == v % m
<1>1. d \in Nat /\ s \in 0..(m - 1) /\ v = m * d + s
  BY DivMod
<1> HIDE DEF d, s
<1>2. m * (q - d) = s - r
  BY <1>1
<1>3. CASE q > d
  BY <1>1, <1>2, <1>3, Multiple
<1>4. CASE q < d
  <2>1. m * (d - q) = r - s
    BY <1>1
  <2>2. m * (d - q) >= m
    BY <1>1, <1>4, Multiple
  <2>3. QED BY <1>1, <2>1, <2>2
<1>5. q = d /\ s = r
  BY <1>1, <1>2, <1>3, <1>4
<1>6. QED BY <1>5 DEF d, s

LEMMA NextDigit ==
    ASSUME NEW v \in Nat, NEW p \in Nat, p > 0, NEW b \in Nat, b > 0
    PROVE  v % (b * p) = (v % p) + p * ((v \div p) % b)
<1> DEFINE q == v \div p
           r == v % p
           c == q \div b
           d == q % b
<1>1. q \in Nat /\ r \in 0..(p - 1) /\ v = p * q + r
  BY DivMod
<1>2. c \in Nat /\ d \in 0..(b - 1) /\ q = b * c + d
  BY <1>1, DivMod
<1> HIDE DEF q, r, c, d
<1>3. v = (b * p) * c + (p * d + r)
  BY <1>1, <1>2
<1>4. b * p \in Nat /\ b * p > 0
  BY SMT
<1>5. p * d + r \in 0..(b * p - 1)
  <2>1. p * d >= 0
    BY <1>2
  <2>2. b - d >= 1 /\ b - d \in Int
    BY <1>2
  <2>3. p * (b - d) >= p
    BY <2>2, Multiple
  <2>4. p * (b - d) = b * p - p * d
    BY <1>2
  <2>5. p * d \in Int /\ b * p \in Int
    BY <1>2
  <2>6. QED BY <1>1, <2>1, <2>3, <2>4, <2>5
<1>6. v % (b * p) = p * d + r
  BY <1>3, <1>4, <1>5, <1>2, DivUnique
<1>7. QED BY <1>6, <1>1, <1>2 DEF q, r, d

LEMMA ConstantsType == Base \in Nat /\ Base >= 2 /\ Width \in Nat \ {0} /\ Nesting \in Nat
BY WireAssumption

LEMMA PowStep ==
    /\ Pow[0] = 1
    /\ \A n \in 1..Width : Pow[n] = Base * Pow[n - 1]
<1>1. 0 \in 0..Width /\ \A n \in 1..Width : n \in 0..Width /\ n # 0
  BY ConstantsType
<1>2. QED BY <1>1, PowDef

LEMMA PowType == \A n \in 0..Width : Pow[n] \in Nat /\ Pow[n] >= 1
<1> DEFINE S == {n \in 0..Width : Pow[n] \in Nat /\ Pow[n] >= 1}
<1>1. 0 \in S
  BY PowStep, ConstantsType
<1>2. ASSUME NEW n \in 0..Width, n \in S, n < Width PROVE n + 1 \in S
  <2>1. n + 1 \in 1..Width /\ n + 1 \in 0..Width /\ Pow[n + 1] = Base * Pow[n]
    BY <1>2, ConstantsType, PowStep
  <2> DEFINE p == Pow[n]
  <2>2. p \in Nat /\ p >= 1
    BY <1>2
  <2> HIDE DEF p
  <2>3. Base * p \in Nat /\ Base * p >= 1
    <3>1. Base * p \in Nat
      BY <2>2, ConstantsType
    <3>2. Base * p >= Base
      BY <2>2, ConstantsType, Multiple
    <3>3. QED BY <3>1, <3>2, ConstantsType
  <2>4. QED BY <2>1, <2>3 DEF p
<1> HIDE DEF S
<1>3. \A n \in 0..Width : n \in S
  BY <1>1, <1>2, ConstantsType, UpTo
<1>4. QED BY <1>3 DEF S

LEMMA PowGrows == \A n, m \in 0..Width : n < m => 2 * Pow[n] <= Pow[m]
<1> DEFINE S == {m \in 0..Width : \A n \in 0..Width : n < m => 2 * Pow[n] <= Pow[m]}
<1>1. 0 \in S
  BY ConstantsType
<1>2. ASSUME NEW m \in 0..Width, m \in S, m < Width PROVE m + 1 \in S
  <2>1. m + 1 \in 1..Width /\ m + 1 \in 0..Width /\ Pow[m + 1] = Base * Pow[m]
    BY <1>2, ConstantsType, PowStep
  <2> DEFINE p == Pow[m]
  <2>2. p \in Nat
    BY PowType
  <2>3. 2 * p <= Base * p
    <3> HIDE DEF p
    <3>1. (Base - 2) * p >= 0
      BY <2>2, ConstantsType
    <3>2. (Base - 2) * p = Base * p - 2 * p
      BY <2>2, ConstantsType
    <3>3. Base * p \in Int
      BY <2>2, ConstantsType
    <3>4. QED BY <3>1, <3>2, <3>3, <2>2
  <2>4. ASSUME NEW n \in 0..Width, n < m + 1 PROVE 2 * Pow[n] <= Pow[m + 1]
    <3>1. Pow[n] \in Nat /\ Pow[m + 1] \in Nat
      BY PowType, <2>1
    <3>2. CASE n = m
      BY <3>2, <2>1, <2>3
    <3>3. CASE n < m
      <4>1. 2 * Pow[n] <= p
        BY <1>2, <3>3
      <4>2. QED BY <4>1, <3>1, <2>1, <2>2, <2>3
    <3>4. QED BY <3>2, <3>3, <2>4, ConstantsType
  <2>5. QED BY <2>1, <2>4
<1> HIDE DEF S
<1>3. \A m \in 0..Width : m \in S
  BY <1>1, <1>2, ConstantsType, UpTo
<1>4. QED BY <1>3 DEF S

LEMMA HalfType ==
    /\ Pow[Width] \in Nat /\ Half \in Nat /\ Half >= 1
    /\ 2 * Half <= Pow[Width] /\ Pow[Width] <= 2 * Half + 1
    /\ \A n \in 0..Width : n < Width => Pow[n] <= Half
<1>1. Pow[Width] \in Nat /\ Width \in 0..Width /\ 0 \in 0..Width
  BY PowType, ConstantsType
<1>2. Half \in Nat /\ 2 * Half <= Pow[Width] /\ Pow[Width] <= 2 * Half + 1
  BY <1>1 DEF Half
<1>3. ASSUME NEW n \in 0..Width, n < Width PROVE Pow[n] <= Half
  <2>1. 2 * Pow[n] <= Pow[Width] /\ Pow[n] \in Nat
    BY <1>1, <1>3, PowGrows, PowType
  <2>2. QED BY <2>1, <1>1, <1>2
<1>4. Pow[0] <= Half
  BY <1>1, <1>3, ConstantsType
<1>5. QED BY <1>1, <1>2, <1>3, <1>4, PowStep

(* What AsInt64 makes of an unsigned number.                                *)
LEMMA AsInt64Type == \A n \in UInt64s : AsInt64(n) \in Int64s
BY HalfType DEF AsInt64, UInt64s, Int64s

-----------------------------------------------------------------------------
(* Numbers                                                                 *)

LEMMA BytesNeededEnough ==
    ASSUME NEW v \in UInt64s
    PROVE  BytesNeeded(v) \in 1..Width /\ v < Pow[BytesNeeded(v)]
<1> DEFINE S == {n \in 1..Width : v < Pow[n]}
<1>1. Width \in S
  BY HalfType, ConstantsType DEF UInt64s
<1>2. S \subseteq Nat
  BY ConstantsType
<1>3. PICK n \in S : \A m \in S : n <= m
  <2> HIDE DEF S
  <2>1. QED BY <1>1, <1>2, Least
<1>4. n \in 1..Width /\ v < Pow[n]
  BY <1>3
<1>5. ASSUME NEW k \in 1..(n - 1) PROVE v >= Pow[k]
  <2>1. k \in 1..Width /\ ~ (n <= k)
    BY <1>4, ConstantsType
  <2>2. ~ (v < Pow[k])
    BY <1>3, <2>1
  <2>3. Pow[k] \in Nat /\ v \in Nat
    BY PowType, <2>1, ConstantsType DEF UInt64s
  <2>4. QED BY <2>2, <2>3
<1>6. \E m \in 1..Width : v < Pow[m] /\ \A k \in 1..(m - 1) : v >= Pow[k]
  BY <1>4, <1>5
<1>7. QED BY <1>6 DEF BytesNeeded

LEMMA UnsignedDef ==
    ASSUME NEW buf, NEW at, NEW n \in Nat
    PROVE  \E first :
              /\ first = [k \in 0..n |-> IF k = 0 THEN 0
                                         ELSE first[k - 1] + Pow[k - 1] * buf[at + k - 1]]
              /\ Unsigned(buf, at, n) = first[n]
<1> DEFINE Is(g, m) == g = [k \in 0..m |-> IF k = 0 THEN 0
                                           ELSE g[k - 1] + Pow[k - 1] * buf[at + k - 1]]
           A == {m \in 0..n : \E g : Is(g, m)}
<1>1. 0 \in A
  <2>1. Is([k \in 0..0 |-> 0], 0)
    OBVIOUS
  <2> HIDE DEF Is
  <2>2. QED BY <2>1
<1>2. ASSUME NEW m \in 0..n, m \in A, m < n PROVE m + 1 \in A
  <2>1. PICK g : Is(g, m)
    BY <1>2
  <2> DEFINE h == [k \in 0..(m + 1) |-> IF k <= m THEN g[k] ELSE g[m] + Pow[k - 1] * buf[at + k - 1]]
  <2>2. Is(h, m + 1)
    BY <2>1
  <2> HIDE DEF Is, h
  <2>3. m + 1 \in 0..n
    BY <1>2
  <2>4. QED BY <2>2, <2>3
<1>3. PICK g : Is(g, n)
  <2> HIDE DEF A
  <2>1. \A k \in 0..n : k \in A
    BY <1>1, <1>2, UpTo
  <2>2. n \in A
    BY <2>1
  <2>3. QED BY <2>2 DEF A
<1>4. QED BY <1>3 DEF Unsigned

-----------------------------------------------------------------------------
(* The digits of a number, and where bytes occur in a buffer               *)

(* s stands in buf from at on.                                              *)
Occurs(buf, at, s) ==
    at + Len(s) - 1 <= Len(buf) /\ \A i \in 1..Len(s) : buf[at + i - 1] = s[i]

LEMMA OccursParts ==
    ASSUME NEW buf \in Seq(Nat), NEW at \in Nat \ {0}, NEW s \in Seq(Nat), NEW t \in Seq(Nat),
           Occurs(buf, at, s \o t)
    PROVE  /\ Occurs(buf, at, s) /\ Occurs(buf, at + Len(s), t)
           /\ at + Len(s) \in Nat \ {0} /\ Len(s \o t) = Len(s) + Len(t)
<1>1. Len(s) \in Nat /\ Len(t) \in Nat /\ Len(buf) \in Nat /\ Len(s \o t) = Len(s) + Len(t)
  OBVIOUS
<1>2. \A i \in 1..Len(s) : i \in 1..Len(s \o t) /\ (s \o t)[i] = s[i]
  OBVIOUS
<1>3. \A i \in 1..Len(t) : Len(s) + i \in 1..Len(s \o t) /\ (s \o t)[Len(s) + i] = t[i]
  OBVIOUS
<1>4. Occurs(buf, at, s)
  BY <1>1, <1>2 DEF Occurs
<1>5. Occurs(buf, at + Len(s), t)
  <2>1. ASSUME NEW i \in 1..Len(t) PROVE buf[at + Len(s) + i - 1] = t[i]
    <3>1. at + (Len(s) + i) - 1 = at + Len(s) + i - 1
      BY <1>1
    <3>2. buf[at + (Len(s) + i) - 1] = (s \o t)[Len(s) + i]
      BY <1>3 DEF Occurs
    <3>3. QED BY <3>1, <3>2, <1>3
  <2>2. at + Len(s \o t) - 1 <= Len(buf)
    BY DEF Occurs
  <2>3. at + Len(s) + Len(t) - 1 <= Len(buf)
    BY <1>1, <2>2
  <2>4. QED BY <2>1, <2>3 DEF Occurs
<1>6. QED BY <1>1, <1>4, <1>5

LEMMA DigitsType == \A v \in Nat, n \in 0..Width : Digits(v, n) \in Seq(Nat) /\ Len(Digits(v, n)) = n
<1> SUFFICES ASSUME NEW v \in Nat, NEW n \in 0..Width
             PROVE  Digits(v, n) \in Seq(Nat) /\ Len(Digits(v, n)) = n
  OBVIOUS
<1>1. n \in Nat
  BY ConstantsType
<1>2. ASSUME NEW i \in 1..n PROVE (v \div Pow[i - 1]) % Base \in Nat
  <2>1. i - 1 \in 0..Width
    BY <1>1, ConstantsType
  <2>2. Pow[i - 1] \in Nat /\ Pow[i - 1] >= 1
    BY <2>1, PowType
  <2> DEFINE p == Pow[i - 1]
  <2> HIDE DEF p
  <2>3. v \div p \in Nat
    BY <2>2, DivMod DEF p
  <2>4. (v \div p) % Base \in Nat
    BY <2>3, ConstantsType, DivMod
  <2>5. QED BY <2>4 DEF p
<1>3. QED BY <1>1, <1>2 DEF Digits

LEMMA UnsignedOfDigits ==
    ASSUME NEW buf \in Seq(Nat), NEW at \in Nat \ {0}, NEW n \in 0..Width,
           NEW v \in 0..(Pow[n] - 1), Occurs(buf, at, Digits(v, n))
    PROVE  Unsigned(buf, at, n) = v
<1>1. n \in Nat /\ v \in Nat /\ Pow[n] \in Nat
  BY PowType, ConstantsType
<1>2. PICK first :
          /\ first = [k \in 0..n |-> IF k = 0 THEN 0
                                     ELSE first[k - 1] + Pow[k - 1] * buf[at + k - 1]]
          /\ Unsigned(buf, at, n) = first[n]
  BY <1>1, UnsignedDef
<1> DEFINE S == {k \in 0..n : first[k] = v % Pow[k]}
<1>3. 0 \in S
  <2>1. first[0] = 0
    BY <1>1, <1>2
  <2>2. QED BY <1>1, <2>1, PowStep
<1>4. ASSUME NEW k \in 0..n, k \in S, k < n PROVE k + 1 \in S
  <2>1. k \in 0..Width /\ k + 1 \in 1..Width /\ k + 1 \in 1..n /\ k + 1 \in 0..n
    BY <1>1, <1>4, ConstantsType
  <2> DEFINE p == Pow[k]
             d == (v \div p) % Base
  <2>2. p \in Nat /\ p > 0 /\ Pow[k + 1] = Base * p
    BY <2>1, PowType, PowStep
  <2>3. buf[at + (k + 1) - 1] = d
    <3>1. Digits(v, n)[k + 1] = d
      BY <2>1 DEF Digits
    <3>2. k + 1 \in 1..Len(Digits(v, n))
      BY <2>1, <1>1, DigitsType
    <3>3. QED BY <3>1, <3>2 DEF Occurs
  <2>4. first[k + 1] = first[k] + p * d
    <3>1. first[k + 1] = first[k + 1 - 1] + Pow[k + 1 - 1] * buf[at + (k + 1) - 1]
      BY <1>2, <2>1
    <3>2. k + 1 - 1 = k
      BY <2>1
    <3>3. QED BY <3>1, <3>2, <2>3
  <2>5. first[k] = v % p
    BY <1>4
  <2>6. v % (Base * p) = (v % p) + p * d
    <3> HIDE DEF p
    <3>1. QED BY <1>1, <2>2, ConstantsType, NextDigit
  <2> HIDE DEF p, d
  <2>7. first[k + 1] = v % Pow[k + 1]
    BY <2>2, <2>4, <2>5, <2>6
  <2>8. QED BY <2>1, <2>7
<1> HIDE DEF S
<1>5. n \in S
  <2>1. \A k \in 0..n : k \in S
    BY <1>1, <1>3, <1>4, UpTo
  <2>2. QED BY <1>1, <2>1
<1>6. first[n] = v % Pow[n]
  BY <1>5 DEF S
<1>7. v % Pow[n] = v
  <2> DEFINE p == Pow[n]
  <2>1. v = p * 0 + v /\ p \in Nat /\ p > 0
    BY <1>1
  <2> HIDE DEF p
  <2>2. v \in 0..(p - 1)
    BY DEF p
  <2>3. v % p = v
    BY <2>1, <2>2, <1>1, DivUnique
  <2>4. QED BY <2>3 DEF p
<1>8. QED BY <1>2, <1>6, <1>7

LEMMA ReadDigits ==
    ASSUME NEW buf \in Seq(Nat), NEW at \in Nat \ {0}, NEW n \in 1..Width,
           NEW v \in 0..(Pow[n] - 1), Occurs(buf, at, Digits(v, n))
    PROVE  ReadInteger(buf, at, n) = Read(AsInt64(v), at + n)
<1>1. n \in 0..Width
  BY ConstantsType
<1>2. Len(Digits(v, n)) = n
  BY <1>1, DigitsType, PowType
<1>3. at + n - 1 <= Len(buf)
  BY <1>2 DEF Occurs
<1>4. QED BY <1>1, <1>3, UnsignedOfDigits DEF ReadInteger

-----------------------------------------------------------------------------
(* Integers                                                                *)

LEMMA IntegerBytes ==
    ASSUME NEW val \in Int64s
    PROVE  LET v == IF val >= 0 THEN val ELSE -val
               n == BytesNeeded(v)
               tag == IF val >= 0 THEN NumberTag(n) ELSE NegNumberTag(n)
           IN  /\ v \in 0..(Pow[n] - 1) /\ n \in 1..Width
               /\ tag \in Nat /\ Digits(v, n) \in Seq(Nat) /\ Len(Digits(v, n)) = n
               /\ WriteInteger(val) = <<tag>> \o Digits(v, n)
<1> DEFINE v == IF val >= 0 THEN val ELSE -val
           n == BytesNeeded(v)
<1>1. v \in UInt64s /\ v \in Nat
  BY HalfType DEF Int64s, UInt64s
<1>2. n \in 1..Width /\ v < Pow[n]
  <2> HIDE DEF v
  <2>1. QED BY <1>1, BytesNeededEnough
<1>3. n \in 0..Width /\ n \in Nat
  BY <1>2, ConstantsType
<1>4. Pow[n] \in Nat
  <2> HIDE DEF n
  <2>1. QED BY <1>3, PowType
<1>5. v \in 0..(Pow[n] - 1)
  <2> HIDE DEF n, v
  <2>1. QED BY <1>1, <1>2, <1>4
<1>6. Digits(v, n) \in Seq(Nat) /\ Len(Digits(v, n)) = n
  <2> HIDE DEF n, v
  <2>1. QED BY <1>1, <1>3, DigitsType
<1>7. NumberTag(n) \in Nat /\ NegNumberTag(n) \in Nat
  <2> HIDE DEF n, v
  <2>1. QED BY <1>3, ConstantsType DEF NumberTag, NegNumberTag
<1>8. WriteInteger(val) = <<IF val >= 0 THEN NumberTag(n) ELSE NegNumberTag(n)>> \o Digits(v, n)
  BY DEF WriteInteger
<1> HIDE DEF n
<1>9. QED BY <1>2, <1>5, <1>6, <1>7, <1>8 DEF n

LEMMA WriteIntegerType ==
    \A val \in Int64s : WriteInteger(val) \in Seq(Nat) /\ Len(WriteInteger(val)) >= 1
<1> SUFFICES ASSUME NEW val \in Int64s
             PROVE  WriteInteger(val) \in Seq(Nat) /\ Len(WriteInteger(val)) >= 1
  OBVIOUS
<1>1. PICK tag \in Nat, s \in Seq(Nat) : WriteInteger(val) = <<tag>> \o s
  BY IntegerBytes
<1>2. QED BY <1>1

LEMMA ConcatType ==
    \A s, t \in Seq(Nat) : s \o t \in Seq(Nat) /\ Len(s \o t) = Len(s) + Len(t)
OBVIOUS

(* A tag and what follows it.                                               *)
LEMMA TagFirst ==
    ASSUME NEW buf \in Seq(Nat), NEW at \in Nat \ {0}, NEW tag \in Nat, NEW s \in Seq(Nat),
           Occurs(buf, at, <<tag>> \o s)
    PROVE  /\ at <= Len(buf) /\ buf[at] = tag
           /\ at + 1 \in Nat \ {0} /\ Occurs(buf, at + 1, s) /\ Len(<<tag>> \o s) = 1 + Len(s)
           /\ <<tag>> \o s \in Seq(Nat)
<1>1. <<tag>> \in Seq(Nat) /\ Len(<<tag>>) = 1 /\ <<tag>>[1] = tag
  OBVIOUS
<1>2. /\ Occurs(buf, at, <<tag>>) /\ Occurs(buf, at + 1, s)
      /\ Len(<<tag>> \o s) = 1 + Len(s)
  <2> DEFINE t == <<tag>>
  <2>1. t \in Seq(Nat) /\ Len(t) = 1
    BY <1>1
  <2>2. Occurs(buf, at, t \o s)
    OBVIOUS
  <2> HIDE DEF t
  <2>3. Occurs(buf, at, t) /\ Occurs(buf, at + Len(t), s)
    BY <2>1, <2>2, OccursParts, Zenon
  <2>4. Occurs(buf, at + 1, s)
    BY <2>1, <2>3, Zenon
  <2>5. Len(t \o s) = 1 + Len(s)
    BY <2>1, ConcatType
  <2>6. QED BY <2>3, <2>4, <2>5 DEF t
<1>3. at + 1 - 1 <= Len(buf) /\ buf[at + 1 - 1] = tag
  BY <1>1, <1>2 DEF Occurs
<1>4. at + 1 - 1 = at
  OBVIOUS
<1>5. QED BY <1>1, <1>2, <1>3, <1>4

LEMMA NegatedBack ==
    ASSUME NEW n \in 1..Width, NEW v \in 0..(Pow[n] - 1), -v \in Int64s, v > 0
    PROVE  Negated(n, AsInt64(v)) = -v
<1>1. Pow[n] \in Nat /\ n \in 0..Width /\ v \in Nat
  BY PowType, ConstantsType
<1>2. CASE n < Width
  <2>1. v < Half
    BY <1>1, <1>2, HalfType
  <2>2. AsInt64(v) = v
    BY <2>1, <1>1, HalfType DEF AsInt64
  <2>3. QED BY <1>2, <2>2 DEF Negated
<1>3. CASE n = Width
  <2> DEFINE p == Pow[Width]
  <2>1. p \in Nat /\ v < p /\ v <= p - Half /\ p > 0
    BY <1>1, <1>3, HalfType DEF Int64s
  <2> HIDE DEF p
  <2>2. CASE v < Half
    <3>1. AsInt64(v) = v
      BY <2>2, <1>1, HalfType DEF AsInt64
    <3>2. (p - v) % p = p - v
      <4>1. p - v \in 0..(p - 1) /\ p - v \in Nat /\ p - v = p * 0 + (p - v)
        BY <2>1, <1>1
      <4>2. QED BY <4>1, <2>1, DivUnique
    <3>3. p - v >= Half /\ p - v \in Int
      BY <2>1, <1>1, HalfType
    <3>4. AsInt64(p - v) = -v
      BY <3>3, <2>1, <1>1 DEF AsInt64, p
    <3>5. QED BY <1>3, <3>1, <3>2, <3>4, ConstantsType DEF Negated, p
  <2>3. CASE v >= Half
    <3>1. AsInt64(v) = v - p
      BY <2>3, <1>1, HalfType DEF AsInt64, p
    <3>2. (p - (v - p)) % p = p - v
      <4>1. p - v \in 0..(p - 1)  /\ p - (v - p) \in Nat /\ p - (v - p) = p * 1 + (p - v)
        BY <2>1, <2>3, <1>1, HalfType
      <4>2. QED BY <4>1, <2>1, DivUnique
    <3>3. p - v >= Half /\ p - v \in Int
      BY <2>1, <1>1, HalfType
    <3>4. AsInt64(p - v) = -v
      BY <3>3, <2>1, <1>1 DEF AsInt64, p
    <3>5. QED BY <1>3, <3>1, <3>2, <3>4, ConstantsType DEF Negated, p
  <2>4. QED BY <2>2, <2>3, <1>1, HalfType
<1>4. QED BY <1>2, <1>3, ConstantsType

(* The tags of an integer are not those of anything else.                   *)
LEMMA StringTagsApart ==
    \A tag \in StringTag(1)..StringTag(Width) :
        /\ tag # 0 /\ tag \notin NumberTag(1)..NumberTag(Width)
        /\ tag \notin NegNumberTag(1)..NegNumberTag(Width)
        /\ tag # BooleanTag /\ tag # VectorTag /\ tag # MapTag
BY ConstantsType DEF StringTag, NumberTag, NegNumberTag, BooleanTag, VectorTag, MapTag

LEMMA NumberTagsApart ==
    /\ \A tag \in NumberTag(1)..NumberTag(Width) :
           /\ tag # 0 /\ tag \notin StringTag(1)..StringTag(Width)
           /\ tag \notin NegNumberTag(1)..NegNumberTag(Width)
           /\ tag # BooleanTag /\ tag # VectorTag /\ tag # MapTag
    /\ \A tag \in NegNumberTag(1)..NegNumberTag(Width) :
           /\ tag # 0 /\ tag \notin StringTag(1)..StringTag(Width)
           /\ tag \notin NumberTag(1)..NumberTag(Width)
           /\ tag # BooleanTag /\ tag # VectorTag /\ tag # MapTag
BY ConstantsType DEF StringTag, NumberTag, NegNumberTag, BooleanTag, VectorTag, MapTag

LEMMA StringTagRead ==
    ASSUME NEW read, NEW buf \in Seq(Nat), NEW at \in Nat \ {0}, at <= Len(buf),
           buf[at] \in StringTag(1)..StringTag(Width)
    PROVE  Deserialize(read, buf, at) =
               IF ReadString(buf, at).ok
               THEN Read(Text(ReadString(buf, at).value), ReadString(buf, at).next)
               ELSE Unreadable
BY StringTagsApart DEF Deserialize

LEMMA NumberTagRead ==
    ASSUME NEW read, NEW buf \in Seq(Nat), NEW at \in Nat \ {0}, at <= Len(buf),
           NEW tag, tag = buf[at], tag \in NumberTag(1)..NumberTag(Width),
           NEW v, NEW next, ReadInteger(buf, at + 1, tag - Width) = Read(v, next)
    PROVE  Deserialize(read, buf, at) = Read(Int64(v), next)
<1> DEFINE n == tag - Width
           r == ReadInteger(buf, at + 1, n)
<1>1. Deserialize(read, buf, at) = IF r.ok THEN Read(Int64(r.value), r.next) ELSE Unreadable
  BY NumberTagsApart DEF Deserialize
<1> HIDE DEF r, n
<1>2. r.ok = TRUE /\ r.value = v /\ r.next = next
  BY DEF Read, r, n
<1>3. QED BY <1>1, <1>2

LEMMA NegNumberTagRead ==
    ASSUME NEW read, NEW buf \in Seq(Nat), NEW at \in Nat \ {0}, at <= Len(buf),
           NEW tag, tag = buf[at], tag \in NegNumberTag(1)..NegNumberTag(Width),
           NEW v, NEW next, ReadInteger(buf, at + 1, tag - 2 * Width) = Read(v, next)
    PROVE  Deserialize(read, buf, at) = Read(Int64(Negated(tag - 2 * Width, v)), next)
<1> DEFINE n == tag - 2 * Width
           r == ReadInteger(buf, at + 1, n)
<1>1. Deserialize(read, buf, at) =
          IF r.ok THEN Read(Int64(Negated(n, r.value)), r.next) ELSE Unreadable
  BY NumberTagsApart DEF Deserialize
<1>2. r.ok = TRUE /\ r.value = v /\ r.next = next
  <2> HIDE DEF n
  <2>1. r = Read(v, next)
    BY DEF n
  <2> HIDE DEF r
  <2>2. QED BY <2>1 DEF Read
<1> HIDE DEF r, n
<1>3. Deserialize(read, buf, at) = Read(Int64(Negated(n, v)), next)
  BY <1>1, <1>2
<1>4. QED BY <1>3 DEF n

LEMMA OtherTagsApart ==
    /\ BooleanTag # VectorTag /\ VectorTag # MapTag /\ MapTag # BooleanTag
    /\ \A tag \in {BooleanTag, VectorTag, MapTag} :
           /\ tag # 0 /\ tag \notin StringTag(1)..StringTag(Width)
           /\ tag \notin NumberTag(1)..NumberTag(Width)
           /\ tag \notin NegNumberTag(1)..NegNumberTag(Width)
BY ConstantsType DEF StringTag, NumberTag, NegNumberTag, BooleanTag, VectorTag, MapTag

LEMMA OtherTagRead ==
    ASSUME NEW read, NEW buf \in Seq(Nat), NEW at \in Nat \ {0}, at <= Len(buf)
    PROVE  /\ buf[at] = BooleanTag
                => Deserialize(read, buf, at) =
                       IF at < Len(buf) THEN Read(Bool(buf[at + 1] = 1), at + 2) ELSE Unreadable
           /\ buf[at] = VectorTag => Deserialize(read, buf, at) = ReadVector(read, buf, at + 1)
           /\ buf[at] = MapTag => Deserialize(read, buf, at) = ReadMap(read, buf, at + 1)
BY OtherTagsApart DEF Deserialize

LEMMA IntegerReadBack ==
    ASSUME NEW read, NEW buf \in Seq(Nat), NEW at \in Nat \ {0}, NEW val \in Int64s,
           Occurs(buf, at, WriteInteger(val))
    PROVE  Deserialize(read, buf, at) = Read(Int64(val), at + Len(WriteInteger(val)))
<1> DEFINE v == IF val >= 0 THEN val ELSE -val
           n == BytesNeeded(v)
           tag == IF val >= 0 THEN NumberTag(n) ELSE NegNumberTag(n)
<1>1. /\ v \in 0..(Pow[n] - 1) /\ n \in 1..Width
      /\ tag \in Nat /\ Digits(v, n) \in Seq(Nat) /\ Len(Digits(v, n)) = n
      /\ WriteInteger(val) = <<tag>> \o Digits(v, n)
  BY IntegerBytes
<1>t. val >= 0 \/ val < 0
  BY HalfType DEF Int64s
<1>v. /\ val >= 0 => v = val /\ tag = NumberTag(n)
      /\ val < 0 => v = -val /\ tag = NegNumberTag(n)
  BY HalfType DEF Int64s
<1> HIDE DEF v, n, tag
<1>2. /\ at <= Len(buf) /\ buf[at] = tag /\ at + 1 \in Nat \ {0}
      /\ Occurs(buf, at + 1, Digits(v, n)) /\ Len(WriteInteger(val)) = 1 + n
  BY <1>1, TagFirst
<1>3. ReadInteger(buf, at + 1, n) = Read(AsInt64(v), at + 1 + n)
  BY <1>1, <1>2, ReadDigits
<1>4. at + 1 + n = at + Len(WriteInteger(val))
  <2>1. n \in Nat
    BY <1>1, ConstantsType
  <2>2. QED BY <1>2, <2>1
<1>5. CASE val >= 0
  <2>1. tag \in NumberTag(1)..NumberTag(Width) /\ tag - Width = n
    BY <1>5, <1>v, <1>1, ConstantsType DEF NumberTag
  <2>2. AsInt64(v) = val
    BY <1>5, <1>v, HalfType DEF AsInt64, Int64s
  <2>3. ReadInteger(buf, at + 1, tag - Width) = Read(val, at + 1 + n)
    BY <1>3, <2>1, <2>2
  <2>4. Deserialize(read, buf, at) = Read(Int64(val), at + 1 + n)
    BY <1>2, <2>1, <2>3, NumberTagRead
  <2>5. QED BY <2>4, <1>4
<1>6. CASE val < 0
  <2>1. tag \in NegNumberTag(1)..NegNumberTag(Width) /\ tag - 2 * Width = n
    BY <1>6, <1>v, <1>1, ConstantsType DEF NegNumberTag
  <2>2. Negated(n, AsInt64(v)) = val
    <3>1. v = -val /\ -v = val /\ v > 0
      BY <1>6, <1>v, HalfType DEF Int64s
    <3>2. -v \in Int64s
      BY <3>1
    <3>3. QED BY <1>1, <3>1, <3>2, NegatedBack
  <2>3. ReadInteger(buf, at + 1, tag - 2 * Width) = Read(AsInt64(v), at + 1 + n)
    BY <1>3, <2>1
  <2>4. Deserialize(read, buf, at) = Read(Int64(Negated(tag - 2 * Width, AsInt64(v))), at + 1 + n)
    BY <1>2, <2>1, <2>3, NegNumberTagRead
  <2>5. Negated(tag - 2 * Width, AsInt64(v)) = val
    BY <2>1, <2>2
  <2>6. QED BY <2>4, <2>5, <1>4
<1>7. QED BY <1>t, <1>5, <1>6

-----------------------------------------------------------------------------
(* Strings                                                                 *)

LEMMA CutOut ==
    ASSUME NEW buf \in Seq(Nat), NEW at \in Nat \ {0}, NEW s \in Seq(Nat), Occurs(buf, at, s)
    PROVE  SubSeq(buf, at, at + Len(s) - 1) = s
<1> DEFINE last == at + Len(s) - 1
           cut == SubSeq(buf, at, last)
<1>1. Len(s) \in Nat /\ last \in Nat /\ last <= Len(buf) /\ last - at + 1 = Len(s)
  BY DEF Occurs
<1>2. cut = [i \in 1..Len(s) |-> buf[at + i - 1]]
  <2>1. cut = [i \in 1..(last - at + 1) |-> buf[at + i - 1]]
    BY <1>1 DEF SubSeq
  <2> HIDE DEF last, cut
  <2>2. QED BY <1>1, <2>1
<1>3. s = [i \in 1..Len(s) |-> s[i]]
  OBVIOUS
<1>4. \A i \in 1..Len(s) : buf[at + i - 1] = s[i]
  BY DEF Occurs
<1> HIDE DEF cut
<1>5. cut = s
  BY <1>2, <1>3, <1>4
<1>6. QED BY <1>5 DEF cut

LEMMA StringBytes ==
    ASSUME NEW s \in Strings
    PROVE  LET n == BytesNeeded(Len(s)) IN
           /\ s \in Seq(Nat) /\ Len(s) \in 0..(Pow[n] - 1) /\ Len(s) \in 0..(Half - 1)
           /\ n \in 1..Width /\ n \in Nat
           /\ StringTag(n) \in Nat /\ Digits(Len(s), n) \in Seq(Nat) /\ Len(Digits(Len(s), n)) = n
           /\ WriteString(s) = <<StringTag(n)>> \o Digits(Len(s), n) \o s
<1> DEFINE n == BytesNeeded(Len(s))
<1>1. s \in Seq(Nat) /\ Len(s) \in Nat /\ Len(s) < Half
  <2>1. s \in Seq(0..(Base - 1)) /\ Len(s) < Half
    BY DEF Strings
  <2>2. 0..(Base - 1) \subseteq Nat
    BY ConstantsType
  <2>3. s \in Seq(Nat)
    BY <2>1, <2>2, SeqMonotonic
  <2>4. QED BY <2>1, <2>3
<1>2. Len(s) \in UInt64s
  BY <1>1, HalfType DEF UInt64s
<1>3. n \in 1..Width /\ Len(s) < Pow[n]
  BY <1>2, BytesNeededEnough
<1> HIDE DEF n
<1>4. n \in 0..Width /\ n \in Nat
  BY <1>3, ConstantsType
<1>5. Pow[n] \in Nat
  BY <1>4, PowType
<1>6. Digits(Len(s), n) \in Seq(Nat) /\ Len(Digits(Len(s), n)) = n
  BY <1>1, <1>4, DigitsType
<1>7. StringTag(n) \in Nat
  BY <1>4 DEF StringTag
<1>8. WriteString(s) = <<StringTag(n)>> \o Digits(Len(s), n) \o s
  BY DEF WriteString, n
<1>9. Len(s) \in 0..(Pow[n] - 1) /\ Len(s) \in 0..(Half - 1)
  BY <1>1, <1>3, <1>5, HalfType
<1>10. QED BY <1>1, <1>3, <1>4, <1>6, <1>7, <1>8, <1>9 DEF n

LEMMA WriteStringType ==
    \A s \in Strings : WriteString(s) \in Seq(Nat) /\ Len(WriteString(s)) >= 1
<1> SUFFICES ASSUME NEW s \in Strings
             PROVE  WriteString(s) \in Seq(Nat) /\ Len(WriteString(s)) >= 1
  OBVIOUS
<1>1. PICK tag \in Nat, t \in Seq(Nat) : WriteString(s) = <<tag>> \o t \o s /\ s \in Seq(Nat)
  BY StringBytes
<1>2. QED BY <1>1

LEMMA Associates == \A r, s, t \in Seq(Nat) : (r \o s) \o t = r \o (s \o t)
<1> SUFFICES ASSUME NEW r \in Seq(Nat), NEW s \in Seq(Nat), NEW t \in Seq(Nat)
             PROVE  (r \o s) \o t = r \o (s \o t)
  OBVIOUS
<1>1. QED BY ConcatAssociative

LEMMA StringReadBack ==
    ASSUME NEW buf \in Seq(Nat), NEW at \in Nat \ {0}, NEW s \in Strings,
           Occurs(buf, at, WriteString(s))
    PROVE  /\ ReadString(buf, at) = Read(s, at + Len(WriteString(s)))
           /\ \A read : Deserialize(read, buf, at) = Read(Text(s), at + Len(WriteString(s)))
<1> DEFINE n == BytesNeeded(Len(s))
           d == Digits(Len(s), n)
           tag == StringTag(n)
<1>1. /\ s \in Seq(Nat) /\ Len(s) \in 0..(Pow[n] - 1) /\ Len(s) \in 0..(Half - 1)
      /\ n \in 1..Width /\ n \in Nat
      /\ tag \in Nat /\ d \in Seq(Nat) /\ Len(d) = n
      /\ WriteString(s) = <<tag>> \o d \o s
  BY StringBytes
<1>g. tag = n
  BY DEF StringTag
<1>d. d = Digits(Len(s), n)
  OBVIOUS
<1> HIDE DEF n, d, tag
<1>2. WriteString(s) = <<tag>> \o (d \o s) /\ d \o s \in Seq(Nat) /\ Len(d \o s) = n + Len(s)
  <2>1. <<tag>> \in Seq(Nat)
    BY <1>1
  <2>2. QED BY <1>1, <2>1, Associates, ConcatType
<1>3. /\ at <= Len(buf) /\ buf[at] = tag /\ at + 1 \in Nat \ {0}
      /\ Occurs(buf, at + 1, d \o s) /\ Len(WriteString(s)) = 1 + (n + Len(s))
  <2> DEFINE rest == d \o s
  <2>1. rest \in Seq(Nat) /\ Occurs(buf, at, <<tag>> \o rest) /\ Len(rest) = n + Len(s)
    BY <1>2
  <2> HIDE DEF rest
  <2>2. /\ at <= Len(buf) /\ buf[at] = tag /\ at + 1 \in Nat \ {0}
        /\ Occurs(buf, at + 1, rest) /\ Len(<<tag>> \o rest) = 1 + Len(rest)
    <3>1. tag \in Nat
      BY <1>1
    <3>2. rest \in Seq(Nat)
      BY <2>1
    <3>3. Occurs(buf, at, <<tag>> \o rest)
      BY <2>1
    <3>4. QED BY ONLY buf \in Seq(Nat), at \in Nat \ {0}, <3>1, <3>2, <3>3, TagFirst
  <2>3. QED BY <1>2, <2>1, <2>2 DEF rest
<1>4. /\ Occurs(buf, at + 1, d) /\ Occurs(buf, at + 1 + n, s)
      /\ at + 1 + n \in Nat \ {0}
  BY <1>1, <1>3, OccursParts
<1>5. ReadInteger(buf, at + 1, n) = Read(AsInt64(Len(s)), at + 1 + n)
  BY <1>1, <1>3, <1>4, <1>d, ReadDigits
<1>6. AsInt64(Len(s)) = Len(s)
  BY <1>1, HalfType DEF AsInt64
<1>7. SubSeq(buf, at + 1 + n, at + 1 + n + Len(s) - 1) = s
  BY <1>1, <1>4, CutOut
<1>8. at + 1 + n + Len(s) - 1 <= Len(buf) /\ at + 1 + n + Len(s) = at + Len(WriteString(s))
  <2>1. at + 1 + n + Len(s) - 1 <= Len(buf)
    BY <1>4 DEF Occurs
  <2> DEFINE l == Len(s)
             w == Len(WriteString(s))
  <2>2. l \in Nat /\ w = 1 + (n + l)
    BY <1>1, <1>3
  <2> HIDE DEF l, w
  <2>3. at + 1 + n + l = at + w
    BY <1>1, <2>2
  <2>4. QED BY <2>1, <2>3 DEF l, w
<1>9. buf[at] \in StringTag(1)..StringTag(Width) /\ ~(at > Len(buf))
  BY <1>1, <1>3, <1>g, ConstantsType DEF StringTag
<1>10. ReadString(buf, at) = Read(s, at + Len(WriteString(s)))
  <2> DEFINE size == ReadInteger(buf, at + 1, buf[at])
  <2>1. size = Read(Len(s), at + 1 + n)
    BY <1>3, <1>5, <1>6, <1>g
  <2> HIDE DEF size
  <2>2. size.ok = TRUE /\ size.value = Len(s) /\ size.next = at + 1 + n
    BY <2>1 DEF Read
  <2>3. ReadString(buf, at) =
            IF size.ok /\ size.value >= 0 /\ size.next + size.value - 1 <= Len(buf)
            THEN Read(SubSeq(buf, size.next, size.next + size.value - 1), size.next + size.value)
            ELSE Unreadable
    BY <1>9, Zenon DEF ReadString, size
  <2>4. Len(s) >= 0
    BY <1>1
  <2>5. QED BY <2>2, <2>3, <2>4, <1>7, <1>8
<1>11. ASSUME NEW read
       PROVE  Deserialize(read, buf, at) = Read(Text(s), at + Len(WriteString(s)))
  <2> DEFINE r == ReadString(buf, at)
  <2>1. Deserialize(read, buf, at) = IF r.ok THEN Read(Text(r.value), r.next) ELSE Unreadable
    BY <1>3, <1>9, StringTagRead
  <2>2. r.ok = TRUE /\ r.value = s /\ r.next = at + Len(WriteString(s))
    <3> HIDE DEF r
    <3>1. QED BY <1>10 DEF Read, r
  <2> HIDE DEF r
  <2>3. QED BY <2>1, <2>2
<1>12. QED BY <1>10, <1>11

LEMMA LengthReadBack ==
    ASSUME NEW buf \in Seq(Nat), NEW at \in Nat \ {0}, NEW size \in 0..(Half - 1),
           Occurs(buf, at, WriteInteger(size))
    PROVE  ReadLen(buf, at) = Read(size, at + Len(WriteInteger(size)))
<1> DEFINE n == BytesNeeded(size)
           tag == NumberTag(n)
<1>1. size \in Int64s /\ size >= 0 /\ size \in Nat
  BY HalfType DEF Int64s
<1>2. /\ size \in 0..(Pow[n] - 1) /\ n \in 1..Width
      /\ tag \in Nat /\ Digits(size, n) \in Seq(Nat) /\ Len(Digits(size, n)) = n
      /\ WriteInteger(size) = <<tag>> \o Digits(size, n)
  BY <1>1, IntegerBytes
<1>g. tag = Width + n
  BY DEF NumberTag
<1> HIDE DEF n, tag
<1>3. n \in Nat
  BY <1>2, ConstantsType
<1>4. /\ at <= Len(buf) /\ buf[at] = tag /\ at + 1 \in Nat \ {0}
      /\ Occurs(buf, at + 1, Digits(size, n)) /\ Len(WriteInteger(size)) = 1 + n
  BY <1>2, TagFirst
<1>5. ReadInteger(buf, at + 1, n) = Read(AsInt64(size), at + 1 + n)
  BY <1>2, <1>4, ReadDigits
<1>6. AsInt64(size) = size
  BY <1>1, HalfType DEF AsInt64
<1>7. tag - Width = n /\ buf[at] \in NumberTag(1)..NumberTag(Width)
  BY <1>g, <1>2, <1>3, <1>4, ConstantsType DEF NumberTag
<1>8. ReadLen(buf, at) = ReadInteger(buf, at + 1, n)
  BY <1>4, <1>7 DEF ReadLen
<1>9. QED BY <1>3, <1>4, <1>5, <1>6, <1>8

-----------------------------------------------------------------------------
(* Sequences of parts, and reading one thing after another                 *)

LEMMA FlattenDef ==
    ASSUME NEW parts \in Seq(Seq(Nat)), NEW n \in Nat, n = Len(parts)
    PROVE  \E upto : /\ upto = [k \in 0..n |-> IF k = 0 THEN <<>> ELSE upto[k - 1] \o parts[k]]
                     /\ FlattenSeq(parts) = upto[n]
<1>1. CASE n = 0
  <2> DEFINE upto == [k \in 0..0 |-> <<>>]
  <2>1. upto = [k \in 0..n |-> IF k = 0 THEN <<>> ELSE upto[k - 1] \o parts[k]]
    BY <1>1
  <2>2. parts = <<>>
    BY <1>1, EmptySeq
  <2>3. FlattenSeq(parts) = upto[n]
    BY <1>1, <2>2 DEF FlattenSeq
  <2> HIDE DEF upto
  <2>4. QED BY <2>1, <2>3
<1>2. CASE n > 0
  <2> DEFINE Step(s, i) == s \o parts[i]
             Is(g, m) == g = [i \in 1..m |-> IF i = 1 THEN parts[i] ELSE Step(g[i - 1], i)]
             A == {m \in 0..n : \E g : Is(g, m)}
  <2>1. 0 \in A
    <3>1. Is(<<>>, 0)
      OBVIOUS
    <3> HIDE DEF Is
    <3>2. QED BY <3>1
  <2>2. ASSUME NEW m \in 0..n, m \in A, m < n PROVE m + 1 \in A
    <3>1. PICK g : Is(g, m)
      BY <2>2
    <3> HIDE DEF Step
    <3> DEFINE h == [i \in 1..(m + 1) |-> IF i <= m THEN g[i]
                                          ELSE IF i = 1 THEN parts[i] ELSE Step(g[i - 1], i)]
    <3>2. Is(h, m + 1)
      BY <3>1
    <3> HIDE DEF Is, h
    <3>3. m + 1 \in 0..n
      BY <2>2
    <3>4. QED BY <3>2, <3>3
  <2>3. PICK g : Is(g, n)
    <3> HIDE DEF A
    <3>1. \A k \in 0..n : k \in A
      BY <2>1, <2>2, UpTo
    <3>2. n \in A
      BY <3>1
    <3>3. QED BY <3>2 DEF A
  <2> DEFINE flatten == CHOOSE flatten :
                 flatten = [i \in 1..Len(parts) |-> IF i = 1 THEN parts[i] ELSE flatten[i - 1] \o parts[i]]
  <2>4. Is(flatten, n)
    BY <2>3
  <2>5. FlattenSeq(parts) = flatten[Len(parts)]
    <3>1. Len(parts) # 0
      BY <1>2
    <3>2. QED BY <3>1, Zenon DEF FlattenSeq
  <2> HIDE DEF flatten
  <2> DEFINE upto == [k \in 0..n |-> IF k = 0 THEN <<>> ELSE flatten[k]]
  <2>6. upto = [k \in 0..n |-> IF k = 0 THEN <<>> ELSE upto[k - 1] \o parts[k]]
    <3>1. ASSUME NEW k \in 0..n, k # 0 PROVE upto[k] = upto[k - 1] \o parts[k]
      <4>1. CASE k = 1
        <5>1. flatten[1] = parts[1]
          BY <2>4, <1>2
        <5>2. parts[1] \in Seq(Nat)
          BY <1>2
        <5>3. parts[1] = <<>> \o parts[1]
          BY <5>2
        <5>4. upto[k] = parts[1] /\ upto[k - 1] = <<>>
          BY <4>1, <5>1, <1>2
        <5>5. QED BY <4>1, <5>3, <5>4
      <4>2. CASE k # 1
        <5>1. k \in 1..n /\ k - 1 \in 0..n /\ k - 1 # 0
          BY <3>1, <4>2
        <5>2. flatten[k] = flatten[k - 1] \o parts[k]
          BY <2>4, <4>2, <5>1
        <5>3. upto[k] = flatten[k] /\ upto[k - 1] = flatten[k - 1]
          BY <5>1
        <5> HIDE DEF upto
        <5>4. QED BY <5>2, <5>3
      <4>3. QED BY <4>1, <4>2
    <3>2. QED BY <3>1
  <2>7. upto[n] = FlattenSeq(parts)
    BY <1>2, <2>5
  <2> HIDE DEF upto
  <2>8. QED BY <2>6, <2>7
<1>3. n = 0 \/ n > 0
  OBVIOUS
<1>4. QED BY <1>1, <1>2, <1>3, Zenon

(* What stands at the places of the parts of a concatenation.               *)
LEMMA FlattenParts ==
    ASSUME NEW parts \in Seq(Seq(Nat)), NEW n \in Nat, n = Len(parts)
    PROVE  \E upto \in [0..n -> Seq(Nat)] :
              /\ upto[0] = <<>> /\ upto[n] = FlattenSeq(parts)
              /\ \A k \in 0..(n - 1) : upto[k + 1] = upto[k] \o parts[k + 1]
<1> DEFINE Step(s, k) == s \o parts[k]
<1>1. PICK upto : /\ upto = [k \in 0..n |-> IF k = 0 THEN <<>> ELSE Step(upto[k - 1], k)]
                  /\ FlattenSeq(parts) = upto[n]
  <2>1. \E upto : /\ upto = [k \in 0..n |-> IF k = 0 THEN <<>> ELSE upto[k - 1] \o parts[k]]
                  /\ FlattenSeq(parts) = upto[n]
    BY FlattenDef
  <2>2. QED BY <2>1, Zenon
<1> HIDE DEF Step
<1>2. upto[0] = <<>>
  BY <1>1
<1>3. ASSUME NEW k \in 0..(n - 1) PROVE upto[k + 1] = Step(upto[k], k + 1)
  <2>1. k + 1 \in 0..n /\ k + 1 # 0 /\ k + 1 - 1 = k
    OBVIOUS
  <2>2. QED BY <1>1, <2>1
<1> DEFINE S == {k \in 0..n : upto[k] \in Seq(Nat)}
<1>4. 0 \in S
  <2>1. <<>> \in Seq(Nat)
    BY EmptySeq
  <2>2. upto[0] \in Seq(Nat)
    BY <1>2, <2>1, Zenon
  <2>3. QED BY <2>2
<1>5. ASSUME NEW k \in 0..n, k \in S, k < n PROVE k + 1 \in S
  <2>1. k \in 0..(n - 1) /\ k + 1 \in 0..n /\ k + 1 \in 1..n
    BY <1>5
  <2>2. parts[k + 1] \in Seq(Nat)
    BY <2>1
  <2>3. upto[k] \in Seq(Nat)
    BY <1>5
  <2>4. upto[k + 1] \in Seq(Nat)
    BY <1>3, <2>1, <2>2, <2>3, ConcatType DEF Step
  <2>5. QED BY <2>1, <2>4
<1> HIDE DEF S
<1>6. \A k \in 0..n : k \in S
  BY <1>4, <1>5, UpTo
<1>7. upto \in [0..n -> Seq(Nat)]
  <2>1. \A k \in 0..n : upto[k] \in Seq(Nat)
    BY <1>6 DEF S
  <2>2. QED BY <1>1, <2>1
<1>8. QED BY <1>1, <1>2, <1>3, <1>7 DEF Step

LEMMA FlattenType == \A parts \in Seq(Seq(Nat)) : FlattenSeq(parts) \in Seq(Nat)
<1> SUFFICES ASSUME NEW parts \in Seq(Seq(Nat)) PROVE FlattenSeq(parts) \in Seq(Nat)
  OBVIOUS
<1> DEFINE n == Len(parts)
<1>1. n \in Nat /\ n \in 0..n
  OBVIOUS
<1> HIDE DEF n
<1>2. PICK upto \in [0..n -> Seq(Nat)] : upto[n] = FlattenSeq(parts)
  BY <1>1, FlattenParts DEF n
<1>3. QED BY <1>1, <1>2

(* One round of ReadMany.                                                  *)
OneMore(read, before) ==
    IF before.ok /\ read[before.next].ok
    THEN Read(Append(before.value, read[before.next].value), read[before.next].next)
    ELSE Unreadable

LEMMA ReadManyDef ==
    ASSUME NEW read, NEW at, NEW n \in Nat
    PROVE  \E first :
              /\ first = [k \in 0..n |-> IF k = 0 THEN Read(<<>>, at)
                                         ELSE OneMore(read, first[k - 1])]
              /\ ReadMany(read, at, n) = first[n]
<1> DEFINE Is(g, m) == g = [k \in 0..m |-> IF k = 0 THEN Read(<<>>, at) ELSE OneMore(read, g[k - 1])]
           A == {m \in 0..n : \E g : Is(g, m)}
<1>1. 0 \in A
  <2>1. Is([k \in 0..0 |-> Read(<<>>, at)], 0)
    OBVIOUS
  <2> HIDE DEF Is
  <2>2. QED BY <2>1
<1>2. ASSUME NEW m \in 0..n, m \in A, m < n PROVE m + 1 \in A
  <2>1. PICK g : Is(g, m)
    BY <1>2
  <2> DEFINE h == [k \in 0..(m + 1) |-> IF k <= m THEN g[k] ELSE OneMore(read, g[k - 1])]
  <2>2. Is(h, m + 1)
    BY <2>1
  <2> HIDE DEF Is, h
  <2>3. m + 1 \in 0..n
    BY <1>2
  <2>4. QED BY <2>2, <2>3
<1>3. PICK g : Is(g, n)
  <2> HIDE DEF A
  <2>1. \A k \in 0..n : k \in A
    BY <1>1, <1>2, UpTo
  <2>2. n \in A
    BY <2>1
  <2>3. QED BY <2>2 DEF A
<1>4. QED BY <1>3, Zenon DEF ReadMany, OneMore

LEMMA AppendOne ==
    ASSUME NEW k \in Nat, NEW values
    PROVE  Append([i \in 1..k |-> values[i]], values[k + 1]) = [i \in 1..(k + 1) |-> values[i]]
<1> DEFINE V == {values[i] : i \in 1..(k + 1)}
           v == [i \in 1..k |-> values[i]]
<1>1. \A i \in 1..k : values[i] \in V
  OBVIOUS
<1>2. v \in Seq(V) /\ Len(v) = k /\ values[k + 1] \in V
  <2> HIDE DEF V
  <2>1. v \in Seq(V) /\ Len(v) = k
    BY <1>1
  <2>2. values[k + 1] \in V
    BY DEF V
  <2>3. QED BY <2>1, <2>2
<1> DEFINE w == values[k + 1]
           a == Append(v, w)
<1>3. a \in Seq(V) /\ Len(a) = k + 1 /\ \A i \in 1..(k + 1) : a[i] = IF i = k + 1 THEN w ELSE v[i]
  <2> HIDE DEF v, V, w
  <2>1. w \in V
    BY <1>2 DEF w
  <2>2. QED BY <1>2, <2>1
<1> HIDE DEF a
<1>4. a = [i \in 1..(k + 1) |-> values[i]]
  <2>1. a = [i \in 1..(k + 1) |-> a[i]]
    <3> HIDE DEF V
    <3>1. QED BY <1>3
  <2>2. \A i \in 1..(k + 1) : a[i] = values[i]
    <3> HIDE DEF V
    <3>1. \A i \in 1..k : v[i] = values[i]
      OBVIOUS
    <3> HIDE DEF v, w
    <3>2. QED BY <1>3, <3>1 DEF w
  <2>3. QED BY <2>1, <2>2
<1>5. QED BY <1>4 DEF a

IsList(values, n) == values = [i \in 1..n |-> values[i]]

(* Each part is read as its value, wherever it stands.                      *)
ReadsEach(read, buf, parts, values, n) ==
    \A i \in 1..n : \A pos \in Nat \ {0} :
        Occurs(buf, pos, parts[i]) => read[pos] = Read(values[i], pos + Len(parts[i]))

(* If every part is read as its value, wherever it stands, then all of them  *)
(* are, one after another.                                                 *)
LEMMA ManyReadBack ==
    ASSUME NEW buf \in Seq(Nat), NEW at \in Nat \ {0}, NEW parts \in Seq(Seq(Nat)),
           NEW n \in Nat, Len(parts) = n, NEW values, IsList(values, n), NEW read,
           Occurs(buf, at, FlattenSeq(parts)), ReadsEach(read, buf, parts, values, n)
    PROVE  ReadMany(read, at, n) = Read(values, at + Len(FlattenSeq(parts)))
<1>1. PICK first : /\ first = [k \in 0..n |-> IF k = 0 THEN Read(<<>>, at)
                                              ELSE OneMore(read, first[k - 1])]
                   /\ ReadMany(read, at, n) = first[n]
  BY ONLY n \in Nat, ReadManyDef
<1>s. first[0] = Read(<<>>, at) /\ \A k \in 0..(n - 1) : first[k + 1] = OneMore(read, first[k])
  <2>1. first[0] = Read(<<>>, at)
    BY <1>1
  <2>2. ASSUME NEW k \in 0..(n - 1) PROVE first[k + 1] = OneMore(read, first[k])
    <3>1. k + 1 \in 0..n /\ k + 1 # 0 /\ k + 1 - 1 = k
      OBVIOUS
    <3>2. QED BY <1>1, <3>1
  <2>3. QED BY <2>1, <2>2
<1>p. \A i \in 1..n : parts[i] \in Seq(Nat)
  BY ElementOfSeq
<1>2. PICK upto \in [0..n -> Seq(Nat)] :
          /\ upto[0] = <<>> /\ upto[n] = FlattenSeq(parts)
          /\ \A k \in 0..(n - 1) : upto[k + 1] = upto[k] \o parts[k + 1]
  BY FlattenParts
<1> DEFINE P == {j \in 0..n : Occurs(buf, at, upto[n - j])}
<1>3. 0 \in P
  <2>1. n - 0 = n
    OBVIOUS
  <2>2. QED BY <1>2, <2>1
<1>4. ASSUME NEW j \in 0..n, j \in P, j < n PROVE j + 1 \in P
  <2> DEFINE k == n - (j + 1)
  <2>1. k \in 0..(n - 1) /\ k + 1 = n - j /\ k + 1 \in 1..n /\ j + 1 \in 0..n /\ k \in 0..n
    BY <1>4
  <2> HIDE DEF k
  <2>2. upto[n - j] = upto[k] \o parts[k + 1]
    BY <1>2, <2>1
  <2>3. upto[k] \in Seq(Nat) /\ parts[k + 1] \in Seq(Nat)
    BY <1>2, <1>p, <2>1
  <2>4. Occurs(buf, at, upto[k] \o parts[k + 1])
    BY <1>4, <2>2
  <2>5. Occurs(buf, at, upto[k])
    BY <2>3, <2>4, OccursParts
  <2>6. QED BY <2>1, <2>5 DEF k
<1> HIDE DEF P
<1>5. \A k \in 0..n : Occurs(buf, at, upto[k])
  <2>1. \A j \in 0..n : j \in P
    BY <1>3, <1>4, UpTo
  <2>2. ASSUME NEW k \in 0..n PROVE Occurs(buf, at, upto[k])
    <3>1. n - k \in 0..n /\ n - (n - k) = k
      OBVIOUS
    <3>2. n - k \in P
      BY <2>1, <3>1
    <3>3. QED BY <3>1, <3>2 DEF P
  <2>3. QED BY <2>2
<1> DEFINE Done(k) == Read([i \in 1..k |-> values[i]], at + Len(upto[k]))
           S == {k \in 0..n : first[k] = Done(k)}
<1>6. 0 \in S
  <2>1. first[0] = Read(<<>>, at)
    BY <1>s
  <2>2. [i \in 1..0 |-> values[i]] = <<>>
    OBVIOUS
  <2>3. at + Len(upto[0]) = at
    BY <1>2
  <2>4. QED BY <2>1, <2>2, <2>3
<1>7. ASSUME NEW k \in 0..n, k \in S, k < n PROVE k + 1 \in S
  <2>1. k \in 0..(n - 1) /\ k + 1 \in 1..n /\ k + 1 \in 0..n /\ k + 1 # 0 /\ k + 1 - 1 = k
    BY <1>7
  <2> DEFINE v == [i \in 1..k |-> values[i]]
             next == at + Len(upto[k])
  <2>2. first[k] = Read(v, next)
    BY <1>7
  <2>3. upto[k] \in Seq(Nat) /\ parts[k + 1] \in Seq(Nat) /\ upto[k + 1] = upto[k] \o parts[k + 1]
    BY <1>2, <1>p, <2>1
  <2>4. Occurs(buf, at, upto[k] \o parts[k + 1])
    BY <1>5, <2>1, <2>3
  <2>5. /\ Occurs(buf, next, parts[k + 1]) /\ next \in Nat \ {0}
        /\ next + Len(parts[k + 1]) = at + Len(upto[k + 1])
    <3>1. /\ Occurs(buf, at + Len(upto[k]), parts[k + 1]) /\ at + Len(upto[k]) \in Nat \ {0}
          /\ Len(upto[k] \o parts[k + 1]) = Len(upto[k]) + Len(parts[k + 1])
      BY <2>3, <2>4, OccursParts
    <3> DEFINE x == Len(upto[k])
               y == Len(parts[k + 1])
               z == Len(upto[k + 1])
    <3>2. x \in Nat /\ y \in Nat /\ z = x + y
      BY <3>1, <2>3
    <3>3. (at + x) + y = at + z
      <4> HIDE DEF x, y, z
      <4>1. QED BY <3>2
    <3>4. QED BY <3>1, <3>3
  <2>6. read[next] = Read(values[k + 1], at + Len(upto[k + 1]))
    BY <2>1, <2>5 DEF ReadsEach
  <2>7. Append(v, values[k + 1]) = [i \in 1..(k + 1) |-> values[i]]
    BY AppendOne
  <2> HIDE DEF v, next
  <2>8. OneMore(read, first[k]) = Read(Append(v, values[k + 1]), at + Len(upto[k + 1]))
    <3> DEFINE b == first[k]
               r == read[next]
    <3>1. b.ok = TRUE /\ b.value = v /\ b.next = next
      BY <2>2 DEF Read
    <3>2. r.ok = TRUE /\ r.value = values[k + 1] /\ r.next = at + Len(upto[k + 1])
      BY <2>6 DEF Read
    <3>3. read[b.next] = r
      BY <3>1
    <3>4. OneMore(read, b) = IF b.ok /\ read[b.next].ok
                    THEN Read(Append(b.value, read[b.next].value), read[b.next].next)
                    ELSE Unreadable
      BY DEF OneMore
    <3> HIDE DEF b, r
    <3>5. OneMore(read, b) = Read(Append(v, values[k + 1]), at + Len(upto[k + 1]))
      BY <3>1, <3>2, <3>3, <3>4
    <3>6. QED BY <3>5 DEF b
  <2>9. first[k + 1] = OneMore(read, first[k])
    BY <1>s, <2>1
  <2>10. first[k + 1] = Done(k + 1)
    BY <2>7, <2>8, <2>9
  <2>11. QED BY <2>1, <2>10
<1> HIDE DEF S
<1>8. first[n] = Done(n)
  <2>1. \A k \in 0..n : k \in S
    BY <1>6, <1>7, UpTo
  <2>2. n \in S
    BY <2>1
  <2>3. QED BY <2>2 DEF S
<1>9. QED BY <1>1, <1>2, <1>8 DEF IsList

-----------------------------------------------------------------------------
(* The parameters of each level                                            *)

LEMMA ParamsDef == Params = [d \in 0..Nesting |-> IF d = 0 THEN Flat ELSE Flat \cup Nested(Params[d - 1])]
<1> DEFINE Up(items) == Flat \cup Nested(items)
           Is(g, m) == g = [d \in 0..m |-> IF d = 0 THEN Flat ELSE Up(g[d - 1])]
           A == {m \in 0..Nesting : \E g : Is(g, m)}
<1>n. Nesting \in Nat
  BY ConstantsType
<1> HIDE DEF Up
<1>1. 0 \in A
  <2>1. Is([d \in 0..0 |-> Flat], 0)
    OBVIOUS
  <2> HIDE DEF Is
  <2>2. QED BY <2>1, <1>n
<1>2. ASSUME NEW m \in 0..Nesting, m \in A, m < Nesting PROVE m + 1 \in A
  <2>1. PICK g : Is(g, m)
    BY <1>2
  <2> DEFINE h == [d \in 0..(m + 1) |-> IF d <= m THEN g[d] ELSE Up(g[d - 1])]
  <2>2. Is(h, m + 1)
    BY <2>1, <1>n
  <2> HIDE DEF Is, h
  <2>3. m + 1 \in 0..Nesting
    BY <1>2, <1>n
  <2>4. QED BY <2>2, <2>3
<1>3. PICK g : Is(g, Nesting)
  <2> HIDE DEF A
  <2>1. \A k \in 0..Nesting : k \in A
    BY <1>n, <1>1, <1>2, UpTo
  <2>2. Nesting \in A
    BY <2>1, <1>n
  <2>3. QED BY <2>2 DEF A
<1>4. QED BY <1>3, Zenon DEF Params, Up

LEMMA ParamsStep ==
    /\ Params[0] = Flat
    /\ \A d \in 0..(Nesting - 1) : Params[d + 1] = Flat \cup Nested(Params[d])
<1>1. 0 \in 0..Nesting /\ \A d \in 0..(Nesting - 1) : d + 1 \in 0..Nesting /\ d + 1 # 0 /\ d + 1 - 1 = d
  BY ConstantsType
<1>2. Params[0] = Flat
  BY <1>1, ParamsDef
<1>3. ASSUME NEW d \in 0..(Nesting - 1) PROVE Params[d + 1] = Flat \cup Nested(Params[d])
  <2> DEFINE Up(items) == Flat \cup Nested(items)
             e == d + 1
  <2>1. Params = [n \in 0..Nesting |-> IF n = 0 THEN Flat ELSE Up(Params[n - 1])]
    BY ParamsDef, Zenon
  <2>2. e \in 0..Nesting /\ e # 0 /\ e - 1 = d
    BY <1>1
  <2> HIDE DEF Up, e
  <2>3. Params[e] = Up(Params[d])
    BY <2>1, <2>2
  <2>4. QED BY <2>3 DEF Up, e
<1>4. QED BY <1>2, <1>3

LEMMA NestedGrows == ASSUME NEW P, NEW Q, P \subseteq Q PROVE Nested(P) \subseteq Nested(Q)
<1>1. \A list \in Seq(P) : list \in Seq(Q)
  BY SeqMonotonic
<1>2. [Names -> P \cup {None}] \subseteq [Names -> Q \cup {None}]
  OBVIOUS
<1>3. QED BY <1>1, <1>2 DEF Nested

LEMMA ParamsGrow == \A d \in 0..(Nesting - 1) : Params[d] \subseteq Params[d + 1]
<1> DEFINE S == {d \in 0..Nesting : d < Nesting => Params[d] \subseteq Params[d + 1]}
<1>1. 0 \in S
  BY ParamsStep, ConstantsType
<1>2. ASSUME NEW d \in 0..Nesting, d \in S, d < Nesting PROVE d + 1 \in S
  <2>1. d \in 0..(Nesting - 1) /\ d + 1 \in 0..Nesting
    BY <1>2, ConstantsType
  <2>2. ASSUME d + 1 < Nesting PROVE Params[d + 1] \subseteq Params[d + 1 + 1]
    <3>1. d + 1 \in 0..(Nesting - 1)
      BY <2>1, <2>2, ConstantsType
    <3>2. Params[d] \subseteq Params[d + 1]
      BY <1>2
    <3>3. Nested(Params[d]) \subseteq Nested(Params[d + 1])
      BY <3>2, NestedGrows
    <3>4. QED BY <2>1, <3>1, <3>3, ParamsStep
  <2>3. QED BY <2>1, <2>2
<1> HIDE DEF S
<1>3. \A d \in 0..Nesting : d \in S
  BY <1>1, <1>2, ConstantsType, UpTo
<1>4. ASSUME NEW d \in 0..(Nesting - 1) PROVE Params[d] \subseteq Params[d + 1]
  <2>1. d \in 0..Nesting /\ d < Nesting
    BY ConstantsType
  <2>2. QED BY <1>3, <2>1 DEF S
<1>5. QED BY <1>4

LEMMA ParamsWithin == \A d, e \in 0..Nesting : d <= e => Params[d] \subseteq Params[e]
<1> DEFINE S == {e \in 0..Nesting : \A d \in 0..Nesting : d <= e => Params[d] \subseteq Params[e]}
<1>1. 0 \in S
  BY ConstantsType
<1>2. ASSUME NEW e \in 0..Nesting, e \in S, e < Nesting PROVE e + 1 \in S
  <2>1. e \in 0..(Nesting - 1) /\ e + 1 \in 0..Nesting
    BY <1>2, ConstantsType
  <2>2. Params[e] \subseteq Params[e + 1]
    BY <2>1, ParamsGrow
  <2>3. ASSUME NEW d \in 0..Nesting, d <= e + 1 PROVE Params[d] \subseteq Params[e + 1]
    <3>1. d <= e \/ d = e + 1
      BY <2>3, ConstantsType
    <3>2. QED BY <3>1, <1>2, <2>2
  <2>4. QED BY <2>1, <2>3
<1> HIDE DEF S
<1>3. \A e \in 0..Nesting : e \in S
  BY <1>1, <1>2, ConstantsType, UpTo
<1>4. QED BY <1>3 DEF S

LEMMA FlatKinds ==
    ASSUME NEW p \in Flat
    PROVE  \/ p.type = "string" /\ p.value \in Strings /\ p = Text(p.value)
           \/ p.type = "int64" /\ p.value \in Int64s /\ p = Int64(p.value)
           \/ p.type = "uint64" /\ p.value \in UInt64s /\ p = UInt64(p.value)
           \/ p.type = "bool" /\ p.value \in BOOLEAN /\ p = Bool(p.value)
BY DEF Flat, Text, Int64, UInt64, Bool

LEMMA NestedKinds ==
    ASSUME NEW P, NEW p \in Nested(P)
    PROVE  \/ /\ p.type = "list" /\ p.value \in Seq(P) /\ Len(p.value) < Half
              /\ p = List(p.value)
           \/ /\ p.type = "map" /\ p.value \in [Names -> P \cup {None}]
              /\ p = [type |-> "map", value |-> p.value]
BY DEF Nested, List

LEMMA FlatIn == \A d \in 0..Nesting : Flat \subseteq Params[d]
BY ParamsDef

LEMMA WriterDef ==
    Writer = [d \in 0..Nesting |->
                 [p \in Params[d] |-> Serialize(IF d = 0 THEN <<>> ELSE Writer[d - 1], p)]]
<1> DEFINE Level(d, inside) == [p \in Params[d] |-> Serialize(inside, p)]
           Is(g, m) == g = [d \in 0..m |-> Level(d, IF d = 0 THEN <<>> ELSE g[d - 1])]
           A == {m \in 0..Nesting : \E g : Is(g, m)}
<1>n. Nesting \in Nat
  BY ConstantsType
<1> HIDE DEF Level
<1>1. 0 \in A
  <2>1. Is([d \in 0..0 |-> Level(d, <<>>)], 0)
    OBVIOUS
  <2> HIDE DEF Is
  <2>2. QED BY <2>1, <1>n
<1>2. ASSUME NEW m \in 0..Nesting, m \in A, m < Nesting PROVE m + 1 \in A
  <2>1. PICK g : Is(g, m)
    BY <1>2
  <2> DEFINE h == [d \in 0..(m + 1) |-> IF d <= m THEN g[d] ELSE Level(d, g[d - 1])]
  <2>2. Is(h, m + 1)
    BY <2>1, <1>n
  <2> HIDE DEF Is, h
  <2>3. m + 1 \in 0..Nesting
    BY <1>2, <1>n
  <2>4. QED BY <2>2, <2>3
<1>3. PICK g : Is(g, Nesting)
  <2> HIDE DEF A
  <2>1. \A k \in 0..Nesting : k \in A
    BY <1>n, <1>1, <1>2, UpTo
  <2>2. Nesting \in A
    BY <2>1, <1>n
  <2>3. QED BY <2>2 DEF A
<1>4. QED BY <1>3, Zenon DEF Writer, Level

-----------------------------------------------------------------------------
(* What is written of them                                                 *)

(* SetToSeq names every element of a finite set once.                       *)
LEMMA SetToSeqNames ==
    ASSUME NEW S, IsFiniteSet(S)
    PROVE  /\ Cardinality(S) \in Nat /\ SetToSeq(S) \in Seq(S)
           /\ Len(SetToSeq(S)) = Cardinality(S) /\ DOMAIN SetToSeq(S) = 1..Cardinality(S)
           /\ \A i, j \in 1..Cardinality(S) : SetToSeq(S)[i] = SetToSeq(S)[j] => i = j
           /\ {SetToSeq(S)[i] : i \in 1..Cardinality(S)} = S
<1> DEFINE n == Cardinality(S)
           s == SetToSeq(S)
<1>1. n \in Nat /\ ExistsBijection(1..n, S)
  BY FS_CardinalityType
<1>2. \E f \in [1..n -> S] : IsInjective(f)
  BY <1>1 DEF ExistsBijection, Bijection, Injection
<1>3. s \in [1..n -> S] /\ IsInjective(s)
  BY <1>2 DEF SetToSeq
<1> HIDE DEF s
<1>4. s \in Seq(S) /\ Len(s) = n /\ DOMAIN s = 1..n
  BY <1>1, <1>3
<1>5. \A i, j \in 1..n : s[i] = s[j] => i = j
  BY <1>3 DEF IsInjective
<1>6. IsFiniteSet(1..n) /\ Cardinality(1..n) = n
  BY <1>1, FS_Interval
<1>7. s \in Injection(1..n, S)
  BY <1>3 DEF Injection
<1>8. s \in Surjection(1..n, S)
  <2> HIDE DEF n
  <2>1. Cardinality(1..n) = Cardinality(S) <=> s \in Surjection(1..n, S)
    BY <1>7, FS_Injection
  <2>2. QED BY <1>6, <2>1 DEF n
<1>9. {s[i] : i \in 1..n} = S
  BY <1>3, <1>8 DEF Surjection
<1>10. QED BY <1>1, <1>4, <1>5, <1>9 DEF s

LEMMA WriterStep ==
    /\ \A p \in Flat : Writer[0][p] = Serialize(<<>>, p)
    /\ \A d \in 0..(Nesting - 1) : \A p \in Params[d + 1] : Writer[d + 1][p] = Serialize(Writer[d], p)
<1> DEFINE Level(d, inside) == [p \in Params[d] |-> Serialize(inside, p)]
<1>1. Writer = [d \in 0..Nesting |-> Level(d, IF d = 0 THEN <<>> ELSE Writer[d - 1])]
  BY WriterDef, Zenon
<1>2. Nesting \in Nat /\ 0 \in 0..Nesting
  BY ConstantsType
<1> HIDE DEF Level
<1>3. Writer[0] = Level(0, <<>>)
  BY <1>1, <1>2
<1>4. ASSUME NEW d \in 0..(Nesting - 1) PROVE Writer[d + 1] = Level(d + 1, Writer[d])
  <2> DEFINE e == d + 1
  <2>1. e \in 0..Nesting /\ e # 0 /\ e - 1 = d
    BY <1>2
  <2> HIDE DEF e
  <2>2. Writer[e] = Level(e, Writer[d])
    BY <1>1, <2>1
  <2>3. QED BY <2>2 DEF e
<1>5. QED BY <1>3, <1>4, ParamsStep DEF Level

LEMMA FlatWritten ==
    ASSUME NEW write, NEW p \in Flat
    PROVE  /\ p.type = "string" => Serialize(write, p) = WriteString(p.value)
           /\ p.type = "int64" => Serialize(write, p) = WriteInteger(p.value)
           /\ p.type = "uint64" => Serialize(write, p) = WriteInteger(AsInt64(p.value))
           /\ p.type = "bool" => Serialize(write, p) = <<BooleanTag, IF p.value THEN 1 ELSE 0>>
BY DEF Serialize

LEMMA FlatType == \A write : \A p \in Flat : Serialize(write, p) \in Seq(Nat)
<1> SUFFICES ASSUME NEW write, NEW p \in Flat PROVE Serialize(write, p) \in Seq(Nat)
  OBVIOUS
<1>1. CASE p.type = "string" /\ p.value \in Strings
  BY <1>1, FlatWritten, WriteStringType
<1>2. CASE p.type = "int64" /\ p.value \in Int64s
  BY <1>2, FlatWritten, WriteIntegerType
<1>3. CASE p.type = "uint64" /\ p.value \in UInt64s
  BY <1>3, FlatWritten, WriteIntegerType, AsInt64Type
<1>4. CASE p.type = "bool" /\ p.value \in BOOLEAN
  <2>1. BooleanTag \in Nat
    BY ConstantsType DEF BooleanTag
  <2> DEFINE b == IF p.value THEN 1 ELSE 0
  <2>2. b \in Nat
    BY <1>4
  <2>3. Serialize(write, p) = <<BooleanTag, b>>
    BY <1>4, FlatWritten
  <2> HIDE DEF b
  <2>4. QED BY <2>1, <2>2, <2>3
<1>5. \/ p.type = "string" /\ p.value \in Strings
      \/ p.type = "int64" /\ p.value \in Int64s
      \/ p.type = "uint64" /\ p.value \in UInt64s
      \/ p.type = "bool" /\ p.value \in BOOLEAN
  BY FlatKinds, Zenon
<1>6. QED BY <1>1, <1>2, <1>3, <1>4, <1>5, Zenon

(* What a list and a map have in common: a tag, how many they are, and they. *)
Counted(tag, n, parts) == <<tag>> \o WriteInteger(n) \o FlattenSeq(parts)

ListParts(write, items) == [i \in 1..Len(items) |-> write[items[i]]]

MapParts(write, m) ==
    LET keys == SetToSeq(Keys(m)) IN
    [i \in 1..Len(keys) |-> WriteString(keys[i]) \o write[m[keys[i]]]]

LEMMA CountType == \A n \in 0..(Half - 1) : n \in Int64s
BY HalfType DEF Int64s

LEMMA CountedType ==
    ASSUME NEW tag \in Nat, NEW n \in 0..(Half - 1), NEW parts \in Seq(Seq(Nat))
    PROVE  Counted(tag, n, parts) \in Seq(Nat)
<1>1. WriteInteger(n) \in Seq(Nat) /\ FlattenSeq(parts) \in Seq(Nat)
  BY CountType, WriteIntegerType, FlattenType
<1>2. <<tag>> \in Seq(Nat)
  OBVIOUS
<1>3. QED BY <1>1, <1>2, ConcatType DEF Counted

LEMMA CountedRead ==
    ASSUME NEW tag \in Nat, NEW n \in 0..(Half - 1), NEW parts \in Seq(Seq(Nat)),
           NEW buf \in Seq(Nat), NEW at \in Nat \ {0}, Occurs(buf, at, Counted(tag, n, parts))
    PROVE  /\ at <= Len(buf) /\ buf[at] = tag
           /\ \E next \in Nat \ {0} :
                 /\ ReadLen(buf, at + 1) = Read(n, next)
                 /\ Occurs(buf, next, FlattenSeq(parts))
                 /\ next + Len(FlattenSeq(parts)) = at + Len(Counted(tag, n, parts))
<1> DEFINE w == WriteInteger(n)
           f == FlattenSeq(parts)
           rest == w \o f
<1>1. w \in Seq(Nat) /\ f \in Seq(Nat)
  BY CountType, WriteIntegerType, FlattenType
<1>i. Occurs(buf, at + 1, w) /\ at + 1 \in Nat \ {0} => ReadLen(buf, at + 1) = Read(n, at + 1 + Len(w))
  BY LengthReadBack
<1>c. Counted(tag, n, parts) = <<tag>> \o w \o f
  BY DEF Counted
<1> HIDE DEF w, f
<1>2. Counted(tag, n, parts) = <<tag>> \o rest /\ rest \in Seq(Nat) /\ Len(rest) = Len(w) + Len(f)
  <2>1. <<tag>> \in Seq(Nat)
    OBVIOUS
  <2>2. QED BY <1>1, <1>c, <2>1, Associates, ConcatType
<1>3. /\ at <= Len(buf) /\ buf[at] = tag /\ at + 1 \in Nat \ {0}
      /\ Occurs(buf, at + 1, rest) /\ Len(<<tag>> \o rest) = 1 + Len(rest)
  <2> HIDE DEF rest
  <2>1. Occurs(buf, at, <<tag>> \o rest)
    BY <1>2
  <2>2. rest \in Seq(Nat)
    BY <1>2
  <2>3. QED
    BY ONLY buf \in Seq(Nat), at \in Nat \ {0}, tag \in Nat, <2>1, <2>2, TagFirst
<1> DEFINE next == at + 1 + Len(w)
<1>4. Occurs(buf, at + 1, w) /\ Occurs(buf, next, f) /\ next \in Nat \ {0}
  BY <1>1, <1>3, OccursParts
<1>5. ReadLen(buf, at + 1) = Read(n, next)
  BY <1>i, <1>3, <1>4
<1>6. next + Len(f) = at + Len(Counted(tag, n, parts))
  <2> DEFINE x == Len(w)
             y == Len(f)
             z == Len(Counted(tag, n, parts))
  <2>1. x \in Nat /\ y \in Nat
    BY <1>1
  <2>2. z = 1 + (x + y)
    BY <1>2, <1>3
  <2> HIDE DEF x, y, z
  <2>3. (at + 1 + x) + y = at + z
    BY <2>1, <2>2
  <2>4. QED BY <2>3 DEF x, y, z
<1>7. QED BY <1>3, <1>4, <1>5, <1>6 DEF f

LEMMA MapKeys ==
    ASSUME NEW P, NEW m \in [Names -> P \cup {None}]
    PROVE  /\ IsFiniteSet(Keys(m)) /\ Cardinality(Keys(m)) \in 0..(Half - 1)
           /\ Keys(m) \subseteq Names /\ Keys(m) \subseteq Strings
           /\ \A k \in Keys(m) : m[k] \in P
<1>1. Keys(m) \subseteq Names /\ \A k \in Keys(m) : m[k] \in P
  BY DEF Keys
<1>2. IsFiniteSet(Names) /\ Cardinality(Names) < Half /\ Names \subseteq Strings
  BY WireAssumption
<1>3. IsFiniteSet(Keys(m)) /\ Cardinality(Keys(m)) <= Cardinality(Names)
  BY <1>1, <1>2, FS_Subset
<1>4. Cardinality(Keys(m)) \in Nat /\ Cardinality(Names) \in Nat
  BY <1>2, <1>3, FS_CardinalityType
<1>5. QED BY <1>1, <1>2, <1>3, <1>4, HalfType

LEMMA ListWritten ==
    ASSUME NEW P, NEW write \in [P -> Seq(Nat)], NEW items \in Seq(P), Len(items) < Half
    PROVE  /\ ListParts(write, items) \in Seq(Seq(Nat))
           /\ Len(ListParts(write, items)) = Len(items) /\ Len(items) \in 0..(Half - 1)
           /\ Serialize(write, List(items)) =
                  Counted(VectorTag, Len(items), ListParts(write, items))
<1>1. Len(items) \in Nat /\ DOMAIN items = 1..Len(items)
  OBVIOUS
<1>2. \A i \in 1..Len(items) : write[items[i]] \in Seq(Nat)
  BY ElementOfSeq
<1>3. ListParts(write, items) \in Seq(Seq(Nat)) /\ Len(ListParts(write, items)) = Len(items)
  <2> DEFINE n == Len(items)
             e(i) == write[items[i]]
  <2>1. n \in Nat /\ \A i \in 1..n : e(i) \in Seq(Nat)
    BY <1>1, <1>2
  <2>2. ListParts(write, items) = [i \in 1..n |-> e(i)]
    BY DEF ListParts
  <2> HIDE DEF n, e
  <2>3. [i \in 1..n |-> e(i)] \in Seq(Seq(Nat)) /\ Len([i \in 1..n |-> e(i)]) = n
    BY <2>1
  <2>4. QED BY <2>2, <2>3 DEF n
<1>4. Serialize(write, List(items)) =
          <<VectorTag>> \o WriteInteger(Len(items)) \o FlattenSeq(ListParts(write, items))
  BY <1>1 DEF Serialize, List, ListParts
<1>5. QED BY <1>1, <1>3, <1>4, HalfType DEF Counted

LEMMA MapWritten ==
    ASSUME NEW P, NEW write \in [P -> Seq(Nat)], NEW m \in [Names -> P \cup {None}],
           NEW p, p = [type |-> "map", value |-> m]
    PROVE  /\ MapParts(write, m) \in Seq(Seq(Nat))
           /\ Len(MapParts(write, m)) = Cardinality(Keys(m))
           /\ Serialize(write, p) = Counted(MapTag, Cardinality(Keys(m)), MapParts(write, m))
<1> DEFINE keys == SetToSeq(Keys(m))
           n == Cardinality(Keys(m))
<1>1. n \in Nat /\ keys \in Seq(Keys(m)) /\ Len(keys) = n /\ DOMAIN keys = 1..n
  BY MapKeys, SetToSeqNames
<1>2. \A i \in 1..n : keys[i] \in Keys(m)
  <2> HIDE DEF keys, n
  <2>1. QED BY <1>1
<1>3. \A i \in 1..n : WriteString(keys[i]) \o write[m[keys[i]]] \in Seq(Nat)
  <2> HIDE DEF keys, n
  <2>1. ASSUME NEW i \in 1..n PROVE WriteString(keys[i]) \o write[m[keys[i]]] \in Seq(Nat)
    <3>1. keys[i] \in Strings /\ m[keys[i]] \in P
      BY <1>2, MapKeys
    <3>2. WriteString(keys[i]) \in Seq(Nat) /\ write[m[keys[i]]] \in Seq(Nat)
      BY <3>1, WriteStringType
    <3>3. QED BY <3>2, ConcatType
  <2>2. QED BY <2>1
<1>4. MapParts(write, m) = [i \in 1..n |-> WriteString(keys[i]) \o write[m[keys[i]]]]
  BY <1>1 DEF MapParts
<1>5. MapParts(write, m) \in Seq(Seq(Nat)) /\ Len(MapParts(write, m)) = n
  <2> DEFINE e(i) == WriteString(keys[i]) \o write[m[keys[i]]]
  <2>1. \A i \in 1..n : e(i) \in Seq(Nat)
    BY <1>3
  <2>2. MapParts(write, m) = [i \in 1..n |-> e(i)]
    BY <1>4
  <2> HIDE DEF n, e
  <2>3. [i \in 1..n |-> e(i)] \in Seq(Seq(Nat)) /\ Len([i \in 1..n |-> e(i)]) = n
    BY <1>1, <2>1
  <2>4. QED BY <2>2, <2>3
<1>6. Serialize(write, p) =
          <<MapTag>> \o WriteInteger(Len(keys))
              \o FlattenSeq([i \in DOMAIN keys |-> WriteString(keys[i]) \o write[m[keys[i]]]])
  BY DEF Serialize
<1>7. QED
  <2> HIDE DEF keys
  <2>1. QED BY <1>1, <1>4, <1>5, <1>6 DEF Counted

-----------------------------------------------------------------------------
(* The writer and the reader of each level                                 *)

LEMMA TagsType == VectorTag \in Nat /\ MapTag \in Nat /\ BooleanTag \in Nat /\ VectorTag # MapTag
BY ConstantsType DEF VectorTag, MapTag, BooleanTag

LEMMA WriterType == \A d \in 0..Nesting : Writer[d] \in [Params[d] -> Seq(Nat)]
<1> DEFINE S == {d \in 0..Nesting : Writer[d] \in [Params[d] -> Seq(Nat)]}
<1>n. Nesting \in Nat
  BY ConstantsType
<1>f. \A d \in 0..Nesting : Writer[d] = [p \in Params[d] |-> Writer[d][p]]
  <2> DEFINE Level(d, inside) == [p \in Params[d] |-> Serialize(inside, p)]
  <2>1. Writer = [d \in 0..Nesting |-> Level(d, IF d = 0 THEN <<>> ELSE Writer[d - 1])]
    BY WriterDef, Zenon
  <2>2. \A d, inside : Level(d, inside) = [p \in Params[d] |-> Level(d, inside)[p]]
    OBVIOUS
  <2> HIDE DEF Level
  <2>3. QED BY <2>1, <2>2
<1>1. 0 \in S
  <2>1. \A p \in Params[0] : Writer[0][p] \in Seq(Nat)
    BY ParamsStep, WriterStep, FlatType
  <2>2. 0 \in 0..Nesting
    BY <1>n
  <2>3. Writer[0] \in [Params[0] -> Seq(Nat)]
    BY <2>1, <2>2, <1>f
  <2>4. QED BY <2>2, <2>3
<1>2. ASSUME NEW d \in 0..Nesting, d \in S, d < Nesting PROVE d + 1 \in S
  <2> DEFINE e == d + 1
  <2>1. d \in 0..(Nesting - 1) /\ e \in 0..Nesting
    BY <1>2, <1>n
  <2>2. Writer[d] \in [Params[d] -> Seq(Nat)]
    BY <1>2
  <2>3. Params[e] = Flat \cup Nested(Params[d])
    BY <2>1, ParamsStep
  <2>4. \A p \in Params[e] : Writer[e][p] = Serialize(Writer[d], p)
    BY <2>1, WriterStep
  <2> HIDE DEF e
  <2>5. ASSUME NEW p \in Params[e] PROVE Serialize(Writer[d], p) \in Seq(Nat)
    <3>1. CASE p \in Flat
      BY <3>1, FlatType
    <3>2. CASE p \in Nested(Params[d])
      <4>1. ASSUME p.type = "list", p.value \in Seq(Params[d]), Len(p.value) < Half,
                   p = List(p.value)
            PROVE  Serialize(Writer[d], p) \in Seq(Nat)
        <5> DEFINE items == p.value
        <5> HIDE DEF items
        <5>1. items \in Seq(Params[d]) /\ Len(items) < Half /\ p = List(items)
          BY <4>1 DEF items
        <5>2. QED BY <5>1, <2>2, ListWritten, CountedType, TagsType
      <4>2. ASSUME p.type = "map", p.value \in [Names -> Params[d] \cup {None}],
                   p = [type |-> "map", value |-> p.value]
            PROVE  Serialize(Writer[d], p) \in Seq(Nat)
        <5> DEFINE m == p.value
        <5> HIDE DEF m
        <5>1. m \in [Names -> Params[d] \cup {None}] /\ p = [type |-> "map", value |-> m]
          BY <4>2 DEF m
        <5> DEFINE n == Cardinality(Keys(m))
                   parts == MapParts(Writer[d], m)
        <5>2. n \in 0..(Half - 1)
          BY <5>1, MapKeys
        <5>3. parts \in Seq(Seq(Nat)) /\ Serialize(Writer[d], p) = Counted(MapTag, n, parts)
          BY <5>1, <2>2, MapWritten
        <5> HIDE DEF n, parts
        <5>4. QED BY <5>2, <5>3, CountedType, TagsType
      <4>3. \/ /\ p.type = "list" /\ p.value \in Seq(Params[d]) /\ Len(p.value) < Half
               /\ p = List(p.value)
            \/ /\ p.type = "map" /\ p.value \in [Names -> Params[d] \cup {None}]
               /\ p = [type |-> "map", value |-> p.value]
        BY ONLY <3>2, NestedKinds
      <4>4. QED BY <4>1, <4>2, <4>3, Zenon
    <3>3. QED BY <2>3, <3>1, <3>2
  <2>6. Writer[e] \in [Params[e] -> Seq(Nat)]
    BY <2>1, <2>4, <2>5, <1>f
  <2>7. QED BY <2>1, <2>6 DEF e
<1> HIDE DEF S
<1>3. \A d \in 0..Nesting : d \in S
  BY <1>n, <1>1, <1>2, UpTo
<1>4. QED BY <1>3 DEF S

(* The levels of the reader of a buffer.                                    *)
Levels(buf) ==
    CHOOSE level : level = [d \in 0..(Nesting + 1) |->
        [at \in Nat |-> IF d = 0 THEN Unreadable ELSE Deserialize(level[d - 1], buf, at)]]

LEMMA ReaderDef ==
    ASSUME NEW buf
    PROVE  /\ Reader(buf) = Levels(buf)[Nesting + 1]
           /\ Levels(buf) = [d \in 0..(Nesting + 1) |->
                  [at \in Nat |-> IF d = 0 THEN Unreadable
                                  ELSE Deserialize(Levels(buf)[d - 1], buf, at)]]
<1> DEFINE Down(d, inside) ==
               [at \in Nat |-> IF d = 0 THEN Unreadable ELSE Deserialize(inside, buf, at)]
           Is(g, m) == g = [d \in 0..m |-> Down(d, g[d - 1])]
           n == Nesting + 1
           A == {m \in 0..n : \E g : Is(g, m)}
<1>n. n \in Nat
  BY ConstantsType
<1> HIDE DEF n
<1>1. 0 \in A
  <2>1. Is([d \in 0..0 |-> Down(0, <<>>)], 0)
    OBVIOUS
  <2> HIDE DEF Is
  <2>2. QED BY <2>1, <1>n
<1>2. ASSUME NEW m \in 0..n, m \in A, m < n PROVE m + 1 \in A
  <2>1. PICK g : Is(g, m)
    BY <1>2
  <2>z. \A i, j : Down(0, i) = Down(0, j)
    OBVIOUS
  <2> HIDE DEF Down
  <2> DEFINE h == [d \in 0..(m + 1) |-> IF d <= m THEN g[d] ELSE Down(d, g[d - 1])]
  <2>2. Is(h, m + 1)
    <3>1. \A d \in 0..(m + 1) : h[d] = Down(d, h[d - 1])
      <4>1. ASSUME NEW d \in 0..(m + 1) PROVE h[d] = Down(d, h[d - 1])
        <5>1. CASE d = 0
          <6>1. g[0] = Down(0, g[0 - 1]) /\ h[0] = g[0]
            BY <2>1, <1>n
          <6>2. Down(0, g[0 - 1]) = Down(0, h[0 - 1])
            BY <2>z
          <6> HIDE DEF h
          <6>3. QED BY <5>1, <6>1, <6>2
        <5>2. CASE d # 0 /\ d <= m
          BY <5>2, <2>1, <1>n
        <5>3. CASE d = m + 1
          BY <5>3, <1>n
        <5>4. QED BY <5>1, <5>2, <5>3
      <4>2. QED BY <4>1
    <3>2. QED BY <3>1
  <2> HIDE DEF Is, h
  <2>3. m + 1 \in 0..n
    BY <1>2, <1>n
  <2>4. QED BY <2>2, <2>3
<1>3. PICK g : Is(g, n)
  <2> HIDE DEF A
  <2>1. \A k \in 0..n : k \in A
    BY <1>n, <1>1, <1>2, UpTo
  <2>2. n \in A
    BY <2>1, <1>n
  <2>3. QED BY <2>2 DEF A
<1>4. QED BY <1>3, Zenon DEF Reader, Levels, n

LEMMA ReaderStep ==
    ASSUME NEW buf, NEW d \in 0..Nesting
    PROVE  \A at \in Nat : Levels(buf)[d + 1][at] = Deserialize(Levels(buf)[d], buf, at)
<1> DEFINE Down(k, inside) ==
               [at \in Nat |-> IF k = 0 THEN Unreadable ELSE Deserialize(inside, buf, at)]
           e == d + 1
<1>1. Levels(buf) = [k \in 0..(Nesting + 1) |-> Down(k, Levels(buf)[k - 1])]
  BY ReaderDef, Zenon
<1>2. e \in 0..(Nesting + 1) /\ e - 1 = d /\ e # 0
  BY ConstantsType
<1> HIDE DEF Down, e
<1>3. Levels(buf)[e] = Down(e, Levels(buf)[d])
  BY <1>1, <1>2
<1>4. \A at \in Nat : Levels(buf)[e][at] = Deserialize(Levels(buf)[d], buf, at)
  BY <1>2, <1>3 DEF Down
<1>5. QED BY <1>4 DEF e

-----------------------------------------------------------------------------
(* Normal parameters                                                       *)

LEMMA NormalizerDef ==
    Normalizer = [d \in 0..Nesting |->
                     [p \in Params[d] |-> Normalize(IF d = 0 THEN <<>> ELSE Normalizer[d - 1], p)]]
<1> DEFINE Level(d, inside) == [p \in Params[d] |-> Normalize(inside, p)]
           Is(g, m) == g = [d \in 0..m |-> Level(d, IF d = 0 THEN <<>> ELSE g[d - 1])]
           A == {m \in 0..Nesting : \E g : Is(g, m)}
<1>n. Nesting \in Nat
  BY ConstantsType
<1> HIDE DEF Level
<1>1. 0 \in A
  <2>1. Is([d \in 0..0 |-> Level(d, <<>>)], 0)
    OBVIOUS
  <2> HIDE DEF Is
  <2>2. QED BY <2>1, <1>n
<1>2. ASSUME NEW m \in 0..Nesting, m \in A, m < Nesting PROVE m + 1 \in A
  <2>1. PICK g : Is(g, m)
    BY <1>2
  <2> DEFINE h == [d \in 0..(m + 1) |-> IF d <= m THEN g[d] ELSE Level(d, g[d - 1])]
  <2>2. Is(h, m + 1)
    BY <2>1, <1>n
  <2> HIDE DEF Is, h
  <2>3. m + 1 \in 0..Nesting
    BY <1>2, <1>n
  <2>4. QED BY <2>2, <2>3
<1>3. PICK g : Is(g, Nesting)
  <2> HIDE DEF A
  <2>1. \A k \in 0..Nesting : k \in A
    BY <1>n, <1>1, <1>2, UpTo
  <2>2. Nesting \in A
    BY <2>1, <1>n
  <2>3. QED BY <2>2 DEF A
<1>4. QED BY <1>3, Zenon DEF Normalizer, Level

LEMMA NormalizerStep ==
    /\ Normalizer[0] = [p \in Params[0] |-> Normalize(<<>>, p)]
    /\ \A d \in 0..(Nesting - 1) :
           Normalizer[d + 1] = [p \in Params[d + 1] |-> Normalize(Normalizer[d], p)]
<1> DEFINE Level(d, inside) == [p \in Params[d] |-> Normalize(inside, p)]
<1>1. Normalizer = [d \in 0..Nesting |-> Level(d, IF d = 0 THEN <<>> ELSE Normalizer[d - 1])]
  BY NormalizerDef, Zenon
<1>2. Nesting \in Nat /\ 0 \in 0..Nesting
  BY ConstantsType
<1> HIDE DEF Level
<1>3. Normalizer[0] = Level(0, <<>>)
  BY <1>1, <1>2
<1>4. ASSUME NEW d \in 0..(Nesting - 1) PROVE Normalizer[d + 1] = Level(d + 1, Normalizer[d])
  <2> DEFINE e == d + 1
  <2>1. e \in 0..Nesting /\ e # 0 /\ e - 1 = d
    BY <1>2
  <2> HIDE DEF e
  <2>2. Normalizer[e] = Level(e, Normalizer[d])
    BY <1>1, <2>1
  <2>3. QED BY <2>2 DEF e
<1>5. QED BY <1>3, <1>4 DEF Level

LEMMA FlatNormal ==
    ASSUME NEW inside, NEW p \in Flat
    PROVE  Normalize(inside, p) = IF p.type = "uint64" THEN Int64(AsInt64(p.value)) ELSE p
<1>1. p.type \in {"string", "int64", "uint64", "bool"}
  BY DEF Flat
<1>2. QED BY <1>1 DEF Normalize

LEMMA FlatNormalType == \A inside : \A p \in Flat : Normalize(inside, p) \in Flat
<1> SUFFICES ASSUME NEW inside, NEW p \in Flat PROVE Normalize(inside, p) \in Flat
  OBVIOUS
<1>1. CASE p.type = "uint64"
  <2>1. p.value \in UInt64s
    BY <1>1 DEF Flat
  <2>2. AsInt64(p.value) \in Int64s
    BY <2>1, AsInt64Type
  <2>3. Int64(AsInt64(p.value)) \in Flat
    BY <2>2 DEF Flat, Int64
  <2>4. QED BY <1>1, <2>3, FlatNormal
<1>2. CASE p.type # "uint64"
  BY <1>2, FlatNormal
<1>3. QED BY <1>1, <1>2

LEMMA ListNormal ==
    ASSUME NEW inside, NEW items
    PROVE  Normalize(inside, List(items)) = List([i \in DOMAIN items |-> inside[items[i]]])
BY DEF Normalize, List

LEMMA MapNormal ==
    ASSUME NEW inside, NEW m, NEW p, p = [type |-> "map", value |-> m]
    PROVE  Normalize(inside, p) = Map([k \in Keys(m) |-> inside[m[k]]])
BY DEF Normalize

LEMMA NoneOut == \A d \in 0..Nesting : None \notin Params[d]
<1>1. None \notin Flat /\ \A P : None \notin Nested(P)
  <2>1. None.type = "none"
    BY DEF None
  <2>2. \A p \in Flat : p.type \in {"string", "int64", "uint64", "bool"}
    BY DEF Flat
  <2>3. \A P : \A p \in Nested(P) : p.type \in {"list", "map"}
    BY DEF Nested
  <2>4. QED BY <2>1, <2>2, <2>3
<1> DEFINE Up(items) == Flat \cup Nested(items)
<1>2. Params = [n \in 0..Nesting |-> IF n = 0 THEN Flat ELSE Up(Params[n - 1])]
  BY ParamsDef, Zenon
<1>3. \A P : None \notin Up(P)
  BY <1>1
<1> HIDE DEF Up
<1>4. QED BY <1>1, <1>2, <1>3

(* A map made of entries.                                                   *)
LEMMA MapOf ==
    ASSUME NEW P, None \notin P, NEW D \in SUBSET Names, NEW f \in [D -> P]
    PROVE  /\ Map(f) \in Nested(P) /\ Map(f).type = "map"
           /\ Map(f).value \in [Names -> P \cup {None}]
           /\ Map(f) = [type |-> "map", value |-> Map(f).value]
           /\ Keys(Map(f).value) = D /\ \A k \in D : Map(f).value[k] = f[k]
<1>1. Map(f) = [type |-> "map", value |-> [k \in Names |-> IF k \in D THEN f[k] ELSE None]]
  BY DEF Map
<1> DEFINE m == [k \in Names |-> IF k \in D THEN f[k] ELSE None]
<1>2. m \in [Names -> P \cup {None}] /\ \A k \in D : m[k] = f[k]
  OBVIOUS
<1>3. Keys(m) = D
  BY DEF Keys
<1> HIDE DEF m
<1>4. [type |-> "map", value |-> m] \in Nested(P)
  BY <1>2 DEF Nested
<1>5. QED BY <1>1, <1>2, <1>3, <1>4 DEF m

(* Inside lists and maps.                                                   *)
LEMMA NormalizeNested ==
    ASSUME NEW P, NEW Q, None \notin P, None \notin Q, NEW inside \in [P -> Q],
           NEW p \in Nested(P)
    PROVE  Normalize(inside, p) \in Nested(Q)
<1>1. ASSUME p.value \in Seq(P), Len(p.value) < Half, p = List(p.value)
      PROVE  Normalize(inside, p) \in Nested(Q)
  <2> DEFINE items == p.value
             n == Len(items)
             made == [i \in DOMAIN items |-> inside[items[i]]]
  <2> HIDE DEF items
  <2>1. items \in Seq(P) /\ Len(items) < Half /\ p = List(items)
    BY <1>1 DEF items
  <2>2. DOMAIN items = 1..n /\ n \in Nat /\ \A i \in 1..n : inside[items[i]] \in Q
    BY <2>1, ElementOfSeq
  <2>3. made = [i \in 1..n |-> inside[items[i]]]
    BY <2>2
  <2>4. made \in Seq(Q) /\ Len(made) = n
    <3> DEFINE e(i) == inside[items[i]]
    <3>1. made = [i \in 1..n |-> e(i)] /\ \A i \in 1..n : e(i) \in Q
      BY <2>2, <2>3
    <3> HIDE DEF made, n, e
    <3>2. QED BY <3>1, <2>2
  <2>5. List(made) \in Nested(Q)
    <3> HIDE DEF made
    <3>1. Len(made) < Half
      BY <2>1, <2>4
    <3>2. QED BY <3>1, <2>4 DEF Nested, List
  <2>6. QED BY <2>1, <2>5, ListNormal
<1>2. ASSUME p.value \in [Names -> P \cup {None}], p = [type |-> "map", value |-> p.value]
      PROVE  Normalize(inside, p) \in Nested(Q)
  <2> DEFINE m == p.value
             f == [k \in Keys(m) |-> inside[m[k]]]
  <2> HIDE DEF m
  <2>1. m \in [Names -> P \cup {None}] /\ p = [type |-> "map", value |-> m]
    BY <1>2 DEF m
  <2>2. Keys(m) \in SUBSET Names /\ f \in [Keys(m) -> Q]
    BY <2>1, MapKeys
  <2>3. Normalize(inside, p) = Map(f)
    BY <2>1, MapNormal
  <2> HIDE DEF f
  <2>4. QED BY <2>2, <2>3, MapOf
<1>3. \/ p.value \in Seq(P) /\ Len(p.value) < Half /\ p = List(p.value)
      \/ p.value \in [Names -> P \cup {None}] /\ p = [type |-> "map", value |-> p.value]
  BY ONLY p \in Nested(P), NestedKinds
<1>4. QED BY <1>1, <1>2, <1>3, Zenon

LEMMA SameInside ==
    ASSUME NEW P, NEW f, NEW g, \A p \in P : f[p] = g[p], NEW p \in Nested(P)
    PROVE  Normalize(f, p) = Normalize(g, p)
<1>1. ASSUME p.value \in Seq(P), p = List(p.value)
      PROVE  Normalize(f, p) = Normalize(g, p)
  <2> DEFINE items == p.value
  <2> HIDE DEF items
  <2>1. items \in Seq(P) /\ p = List(items)
    BY <1>1 DEF items
  <2>2. \A i \in DOMAIN items : items[i] \in P
    BY <2>1
  <2> DEFINE a == [i \in DOMAIN items |-> f[items[i]]]
             b == [i \in DOMAIN items |-> g[items[i]]]
  <2>3. a = b
    BY <2>2
  <2>4. Normalize(f, p) = List(a) /\ Normalize(g, p) = List(b)
    BY <2>1, ListNormal
  <2> HIDE DEF a, b
  <2>5. QED BY <2>3, <2>4
<1>2. ASSUME p.value \in [Names -> P \cup {None}], p = [type |-> "map", value |-> p.value]
      PROVE  Normalize(f, p) = Normalize(g, p)
  <2> DEFINE m == p.value
  <2> HIDE DEF m
  <2>1. m \in [Names -> P \cup {None}] /\ p = [type |-> "map", value |-> m]
    BY <1>2 DEF m
  <2>2. \A k \in Keys(m) : m[k] \in P
    BY <2>1, MapKeys
  <2> DEFINE a == [k \in Keys(m) |-> f[m[k]]]
             b == [k \in Keys(m) |-> g[m[k]]]
  <2>3. a = b
    BY <2>2
  <2>4. Normalize(f, p) = Map(a) /\ Normalize(g, p) = Map(b)
    BY <2>1, MapNormal
  <2> HIDE DEF a, b
  <2>5. QED BY <2>3, <2>4
<1>3. \/ p.value \in Seq(P) /\ p = List(p.value)
      \/ p.value \in [Names -> P \cup {None}] /\ p = [type |-> "map", value |-> p.value]
  BY ONLY p \in Nested(P), NestedKinds
<1>4. QED BY <1>1, <1>2, <1>3, Zenon

LEMMA NormalTwice ==
    ASSUME NEW P, None \notin P, NEW f \in [P -> P], \A p \in P : f[f[p]] = f[p], NEW p \in Nested(P)
    PROVE  Normalize(f, Normalize(f, p)) = Normalize(f, p)
<1>1. ASSUME p.value \in Seq(P), p = List(p.value)
      PROVE  Normalize(f, Normalize(f, p)) = Normalize(f, p)
  <2> DEFINE items == p.value
             made == [i \in DOMAIN items |-> f[items[i]]]
  <2> HIDE DEF items
  <2>1. items \in Seq(P) /\ p = List(items)
    BY <1>1 DEF items
  <2>2. \A i \in DOMAIN items : items[i] \in P
    BY <2>1
  <2>3. [i \in DOMAIN made |-> f[made[i]]] = made
    BY <2>2
  <2>4. Normalize(f, p) = List(made)
    BY <2>1, ListNormal
  <2> HIDE DEF made
  <2>5. Normalize(f, List(made)) = List(made)
    BY <2>3, ListNormal
  <2>6. QED BY <2>4, <2>5
<1>2. ASSUME p.value \in [Names -> P \cup {None}], p = [type |-> "map", value |-> p.value]
      PROVE  Normalize(f, Normalize(f, p)) = Normalize(f, p)
  <2> DEFINE m == p.value
             D == Keys(m)
             g == [k \in D |-> f[m[k]]]
  <2> HIDE DEF m
  <2>1. m \in [Names -> P \cup {None}] /\ p = [type |-> "map", value |-> m]
    BY <1>2 DEF m
  <2>2. D \in SUBSET Names /\ g \in [D -> P] /\ \A k \in D : f[g[k]] = g[k]
    BY <2>1, MapKeys
  <2>3. Normalize(f, p) = Map(g)
    BY <2>1, MapNormal
  <2> HIDE DEF g, D
  <2> DEFINE o == Map(g).value
  <2>4. Map(g) = [type |-> "map", value |-> o] /\ Keys(o) = D /\ \A k \in D : o[k] = g[k]
    BY ONLY <2>2, None \notin P, MapOf
  <2> HIDE DEF o
  <2>5. Normalize(f, Map(g)) = Map([k \in Keys(o) |-> f[o[k]]])
    BY <2>4, MapNormal
  <2>6. [k \in Keys(o) |-> f[o[k]]] = [k \in D |-> g[k]]
    BY <2>2, <2>4
  <2>7. [k \in D |-> g[k]] = g
    BY <2>2
  <2>8. QED BY <2>3, <2>5, <2>6, <2>7
<1>3. \/ p.value \in Seq(P) /\ p = List(p.value)
      \/ p.value \in [Names -> P \cup {None}] /\ p = [type |-> "map", value |-> p.value]
  BY ONLY p \in Nested(P), NestedKinds
<1>4. QED BY <1>1, <1>2, <1>3, Zenon

(* Levels 0..n of something that holds for level 0, and for the next level. *)
LEMMA NormalizerType ==
    \A d \in 0..Nesting : /\ Normalizer[d] \in [Params[d] -> Params[d]]
                          /\ \A p \in Params[d] : Normalizer[d][Normalizer[d][p]] = Normalizer[d][p]
<1> DEFINE Good(d) == /\ Normalizer[d] \in [Params[d] -> Params[d]]
                      /\ \A p \in Params[d] : Normalizer[d][Normalizer[d][p]] = Normalizer[d][p]
           S == {d \in 0..Nesting : Good(d)}
<1>n. Nesting \in Nat
  BY ConstantsType
<1>f. ASSUME NEW inside, NEW p \in Flat
      PROVE  Normalize(inside, Normalize(inside, p)) = Normalize(inside, p)
  <2>1. CASE p.type = "uint64"
    <3> DEFINE q == Int64(AsInt64(p.value))
    <3>1. Normalize(inside, p) = q /\ q \in Flat
      BY <2>1, FlatNormal, FlatNormalType
    <3>2. q.type # "uint64"
      BY DEF Int64
    <3> HIDE DEF q
    <3>3. QED BY <3>1, <3>2, FlatNormal
  <2>2. CASE p.type # "uint64"
    BY <2>2, FlatNormal
  <2>3. QED BY <2>1, <2>2
<1>1. 0 \in S
  <2>1. 0 \in 0..Nesting /\ Normalizer[0] = [p \in Flat |-> Normalize(<<>>, p)] /\ Params[0] = Flat
    BY <1>n, NormalizerStep, ParamsStep
  <2>2. Normalizer[0] \in [Params[0] -> Params[0]]
    BY <2>1, FlatNormalType
  <2>3. \A p \in Params[0] : Normalizer[0][Normalizer[0][p]] = Normalizer[0][p]
    BY <2>1, <1>f, FlatNormalType
  <2>4. QED BY <2>1, <2>2, <2>3
<1>2. ASSUME NEW d \in 0..Nesting, d \in S, d < Nesting PROVE d + 1 \in S
  <2> DEFINE e == d + 1
             f == Normalizer[d]
             P == Params[d]
  <2>1. d \in 0..(Nesting - 1) /\ e \in 0..Nesting
    BY <1>2, <1>n
  <2>2. f \in [P -> P] /\ \A p \in P : f[f[p]] = f[p]
    BY <1>2
  <2>3. Normalizer[e] = [p \in Params[e] |-> Normalize(f, p)] /\ Params[e] = Flat \cup Nested(P)
    BY <2>1, NormalizerStep, ParamsStep
  <2>4. None \notin P
    BY NoneOut
  <2> HIDE DEF f, P
  <2>5. \A p \in Nested(P) : Normalize(f, p) \in Nested(P)
    BY <2>2, <2>4, NormalizeNested
  <2>6. \A p \in Nested(P) : Normalize(f, Normalize(f, p)) = Normalize(f, p)
    BY <2>2, <2>4, NormalTwice
  <2>7. \A p \in Params[e] : Normalize(f, p) \in Params[e]
    BY <2>3, <2>5, FlatNormalType
  <2>8. \A p \in Params[e] : Normalize(f, Normalize(f, p)) = Normalize(f, p)
    BY <2>3, <2>6, <1>f
  <2> HIDE DEF e
  <2>9. Good(e)
    BY <2>3, <2>7, <2>8
  <2> HIDE DEF Good
  <2>10. QED BY <2>1, <2>9 DEF e
<1> HIDE DEF S, Good
<1>3. \A d \in 0..Nesting : d \in S
  BY <1>n, <1>1, <1>2, UpTo
<1>4. QED BY <1>3 DEF S, Good

LEMMA NormalizerSame ==
    \A d \in 0..(Nesting - 1) : \A p \in Params[d] : Normalizer[d + 1][p] = Normalizer[d][p]
<1> DEFINE S == {d \in 0..Nesting :
                     d < Nesting => \A p \in Params[d] : Normalizer[d + 1][p] = Normalizer[d][p]}
<1>n. Nesting \in Nat
  BY ConstantsType
<1>1. 0 \in S
  <2>1. 0 \in 0..Nesting /\ Normalizer[0] = [p \in Flat |-> Normalize(<<>>, p)] /\ Params[0] = Flat
    BY <1>n, NormalizerStep, ParamsStep
  <2>2. ASSUME 0 < Nesting, NEW p \in Flat PROVE Normalizer[0 + 1][p] = Normalizer[0][p]
    <3>1. 0 \in 0..(Nesting - 1)
      BY <2>2, <1>n
    <3>2. p \in Params[0 + 1] /\ Normalizer[0 + 1] = [q \in Params[0 + 1] |-> Normalize(Normalizer[0], q)]
      BY <3>1, NormalizerStep, ParamsStep
    <3>3. QED BY <2>1, <3>2, FlatNormal
  <2>3. QED BY <2>1, <2>2
<1>2. ASSUME NEW d \in 0..Nesting, d \in S, d < Nesting PROVE d + 1 \in S
  <2> DEFINE e == d + 1
  <2>1. d \in 0..(Nesting - 1) /\ e \in 0..Nesting
    BY <1>2, <1>n
  <2>2. Normalizer[e] = [p \in Params[e] |-> Normalize(Normalizer[d], p)]
        /\ Params[e] = Flat \cup Nested(Params[d])
    BY <2>1, NormalizerStep, ParamsStep
  <2>3. \A p \in Params[d] : Normalizer[e][p] = Normalizer[d][p]
    BY <1>2
  <2> HIDE DEF e
  <2>4. ASSUME e < Nesting, NEW p \in Params[e] PROVE Normalizer[e + 1][p] = Normalizer[e][p]
    <3>1. e \in 0..(Nesting - 1)
      BY <2>1, <2>4, <1>n
    <3>2. p \in Params[e + 1]
      BY <3>1, ParamsGrow
    <3>3. Normalizer[e + 1][p] = Normalize(Normalizer[e], p)
      BY <3>1, <3>2, NormalizerStep
    <3>4. Normalizer[e][p] = Normalize(Normalizer[d], p)
      BY <2>2
    <3>5. CASE p \in Flat
      BY <3>3, <3>4, <3>5, FlatNormal
    <3>6. CASE p \in Nested(Params[d])
      BY <3>3, <3>4, <3>6, <2>3, SameInside
    <3>7. QED BY <2>2, <3>5, <3>6
  <2>5. e \in S
    BY <2>1, <2>4
  <2>6. QED BY <2>5 DEF e
<1> HIDE DEF S
<1>3. \A d \in 0..Nesting : d \in S
  BY <1>n, <1>1, <1>2, UpTo
<1>4. ASSUME NEW d \in 0..(Nesting - 1), NEW p \in Params[d]
      PROVE  Normalizer[d + 1][p] = Normalizer[d][p]
  <2>1. d \in S /\ d < Nesting
    BY <1>n, <1>3
  <2>2. QED BY <2>1 DEF S
<1>5. QED BY <1>4

-----------------------------------------------------------------------------
(* What is written is read back                                            *)

LEMMA BoolReadBack ==
    ASSUME NEW buf \in Seq(Nat), NEW at \in Nat \ {0}, NEW read, NEW b \in BOOLEAN,
           NEW digit, digit = IF b THEN 1 ELSE 0, Occurs(buf, at, <<BooleanTag, digit>>)
    PROVE  Deserialize(read, buf, at) = Read(Bool(b), at + 2)
<1> DEFINE s == <<BooleanTag, digit>>
<1>1. Len(s) = 2 /\ s[1] = BooleanTag /\ s[2] = digit
  OBVIOUS
<1> HIDE DEF s
<1>2. at + Len(s) - 1 <= Len(buf) /\ \A i \in 1..Len(s) : buf[at + i - 1] = s[i]
  BY DEF Occurs, s
<1>3. buf[at + 1 - 1] = BooleanTag /\ buf[at + 2 - 1] = digit /\ at + 1 <= Len(buf)
  BY <1>1, <1>2
<1>4. at + 1 - 1 = at /\ at + 2 - 1 = at + 1
  OBVIOUS
<1>5. buf[at] = BooleanTag /\ buf[at + 1] = digit /\ at <= Len(buf) /\ at < Len(buf)
  BY <1>3, <1>4
<1>6. Deserialize(read, buf, at) = Read(Bool(buf[at + 1] = 1), at + 2)
  BY <1>5, OtherTagRead
<1>7. (buf[at + 1] = 1) = b
  BY <1>5
<1>8. QED BY <1>6, <1>7

LEMMA FlatReadBack ==
    ASSUME NEW buf \in Seq(Nat), NEW at \in Nat \ {0}, NEW write, NEW read, NEW inside,
           NEW p \in Flat, NEW s, s = Serialize(write, p), Occurs(buf, at, s)
    PROVE  Deserialize(read, buf, at) = Read(Normalize(inside, p), at + Len(s))
<1>1. ASSUME p.type = "string", p.value \in Strings, p = Text(p.value)
      PROVE  Deserialize(read, buf, at) = Read(Normalize(inside, p), at + Len(s))
  <2>1. s = WriteString(p.value)
    BY <1>1, FlatWritten
  <2>2. Normalize(inside, p) = Text(p.value)
    BY <1>1, FlatNormal
  <2>3. QED BY <2>1, <2>2, <1>1, StringReadBack
<1>2. ASSUME p.type = "int64", p.value \in Int64s, p = Int64(p.value)
      PROVE  Deserialize(read, buf, at) = Read(Normalize(inside, p), at + Len(s))
  <2>1. s = WriteInteger(p.value)
    BY <1>2, FlatWritten
  <2>2. Normalize(inside, p) = Int64(p.value)
    BY <1>2, FlatNormal
  <2>3. QED BY <2>1, <2>2, <1>2, IntegerReadBack
<1>3. ASSUME p.type = "uint64", p.value \in UInt64s
      PROVE  Deserialize(read, buf, at) = Read(Normalize(inside, p), at + Len(s))
  <2>1. s = WriteInteger(AsInt64(p.value))
    BY <1>3, FlatWritten
  <2>2. Normalize(inside, p) = Int64(AsInt64(p.value))
    BY <1>3, FlatNormal
  <2>3. QED BY <2>1, <2>2, <1>3, IntegerReadBack, AsInt64Type
<1>4. ASSUME p.type = "bool", p.value \in BOOLEAN, p = Bool(p.value)
      PROVE  Deserialize(read, buf, at) = Read(Normalize(inside, p), at + Len(s))
  <2> DEFINE digit == IF p.value THEN 1 ELSE 0
             b == p.value
  <2>1. s = <<BooleanTag, digit>>
    BY <1>4, FlatWritten
  <2>2. Normalize(inside, p) = Bool(b)
    BY <1>4, FlatNormal
  <2>3. b \in BOOLEAN /\ digit = IF b THEN 1 ELSE 0
    BY <1>4
  <2> HIDE DEF b, digit
  <2>4. Len(s) = 2
    BY <2>1
  <2>5. Deserialize(read, buf, at) = Read(Bool(b), at + 2)
    BY <2>1, <2>3, BoolReadBack
  <2>6. QED BY <2>2, <2>4, <2>5
<1>5. \/ p.type = "string" /\ p.value \in Strings /\ p = Text(p.value)
      \/ p.type = "int64" /\ p.value \in Int64s /\ p = Int64(p.value)
      \/ p.type = "uint64" /\ p.value \in UInt64s
      \/ p.type = "bool" /\ p.value \in BOOLEAN /\ p = Bool(p.value)
  BY FlatKinds, Zenon
<1>6. QED BY <1>1, <1>2, <1>3, <1>4, <1>5, Zenon

LEMMA EntryRead ==
    ASSUME NEW buf \in Seq(Nat), NEW at \in Nat \ {0}, NEW read, NEW key \in Strings,
           NEW w \in Seq(Nat), NEW v, Occurs(buf, at, WriteString(key) \o w),
           \A pos \in Nat \ {0} : Occurs(buf, pos, w) => read[pos] = Read(v, pos + Len(w))
    PROVE  ReadEntry(read, buf, at) =
               Read([key |-> key, item |-> v], at + Len(WriteString(key) \o w))
<1> DEFINE s == WriteString(key)
           next == at + Len(s)
<1>1. s \in Seq(Nat)
  BY WriteStringType
<1>2. /\ Occurs(buf, at, s) /\ Occurs(buf, next, w) /\ next \in Nat \ {0}
      /\ Len(s \o w) = Len(s) + Len(w)
  <2> HIDE DEF s
  <2>1. Occurs(buf, at, s \o w)
    BY DEF s
  <2>2. QED BY <1>1, <2>1, OccursParts
<1>3. ReadString(buf, at) = Read(key, next)
  BY <1>2, StringReadBack
<1>4. read[next] = Read(v, next + Len(w))
  BY <1>2
<1>5. next + Len(w) = at + Len(s \o w)
  <2> DEFINE x == Len(s)
             y == Len(w)
             z == Len(s \o w)
  <2>1. x \in Nat /\ y \in Nat /\ z = x + y
    BY <1>1, <1>2
  <2> HIDE DEF x, y, z
  <2>2. (at + x) + y = at + z
    BY <2>1
  <2>3. QED BY <2>2 DEF x, y, z
<1> DEFINE k == ReadString(buf, at)
           i == read[k.next]
<1> HIDE DEF s, next
<1>6. k.ok = TRUE /\ k.value = key /\ k.next = next
  BY <1>3 DEF Read
<1>7. i.ok = TRUE /\ i.value = v /\ i.next = next + Len(w)
  <2>1. i = Read(v, next + Len(w))
    BY <1>4, <1>6
  <2> HIDE DEF i
  <2>2. QED BY <2>1 DEF Read
<1>8. ReadEntry(read, buf, at) =
          IF k.ok /\ i.ok THEN Read([key |-> k.value, item |-> i.value], i.next) ELSE Unreadable
  BY DEF ReadEntry
<1> HIDE DEF k, i
<1>9. QED BY <1>5, <1>6, <1>7, <1>8 DEF s

(* The entries are those of v, each under a key of its own.                 *)
EntriesOf(entries, v, n) ==
    /\ DOMAIN entries = 1..n /\ n \in Nat
    /\ \A i \in 1..n : entries[i].key \in DOMAIN v /\ entries[i].item = v[entries[i].key]
    /\ \A i, j \in 1..n : entries[i].key = entries[j].key => i = j
    /\ {entries[i].key : i \in 1..n} = DOMAIN v
    /\ v = [k \in DOMAIN v |-> v[k]]

LEMMA EmplacedAll ==
    ASSUME NEW entries, NEW v, NEW n, EntriesOf(entries, v, n)
    PROVE  Emplaced(entries) = v
<1> DEFINE S == DOMAIN v
           keys == [i \in 1..n |-> entries[i].key]
<1> USE DEF EntriesOf
<1>1. DOMAIN entries = 1..n /\ \A i \in 1..n : entries[i].key = keys[i] /\ entries[i].item = v[keys[i]]
  OBVIOUS
<1>d. /\ \A i \in 1..n : keys[i] \in S
      /\ \A i, j \in 1..n : keys[i] = keys[j] => i = j
      /\ {keys[i] : i \in 1..n} = S /\ n \in Nat
  <2>1. \A i \in 1..n : keys[i] = entries[i].key
    OBVIOUS
  <2>2. {keys[i] : i \in 1..n} = {entries[i].key : i \in 1..n}
    OBVIOUS
  <2> HIDE DEF keys
  <2>3. QED BY <2>1, <2>2
<1>v. v = [k \in S |-> v[k]]
  OBVIOUS
<1> HIDE DEF EntriesOf, S, keys
<1>2. {entries[i].key : i \in DOMAIN entries} = S
  BY <1>1, <1>d
<1>3. ASSUME NEW k \in S
      PROVE  entries[CHOOSE i \in DOMAIN entries :
                         /\ entries[i].key = k
                         /\ \A j \in 1..(i - 1) : entries[j].key # k].item = v[k]
  <2> DEFINE First(i) == entries[i].key = k /\ \A j \in 1..(i - 1) : entries[j].key # k
  <2>1. PICK i \in 1..n : keys[i] = k
    BY <1>d
  <2>2. \A j \in 1..(i - 1) : entries[j].key # k
    <3>1. ASSUME NEW j \in 1..(i - 1) PROVE entries[j].key # k
      <4>1. j \in 1..n /\ j # i
        BY <2>1, <1>d
      <4>2. keys[j] # keys[i]
        BY <4>1, <1>d
      <4>3. QED BY <4>1, <4>2, <1>1, <2>1
    <3>2. QED BY <3>1
  <2>3. First(i) /\ i \in DOMAIN entries
    BY <1>1, <2>1, <2>2
  <2>4. \A c \in DOMAIN entries : First(c) => entries[c].item = v[k]
    BY <1>1
  <2> DEFINE c == CHOOSE c \in DOMAIN entries : First(c)
  <2> HIDE DEF First
  <2>5. c \in DOMAIN entries /\ First(c)
    BY <2>3
  <2>6. entries[c].item = v[k]
    BY <2>4, <2>5
  <2>7. QED BY <2>6 DEF First
<1> DEFINE item(k) == entries[CHOOSE i \in DOMAIN entries :
                                  /\ entries[i].key = k
                                  /\ \A j \in 1..(i - 1) : entries[j].key # k].item
<1>4. \A k \in S : item(k) = v[k]
  BY <1>3
<1>5. Emplaced(entries) = [k \in {entries[i].key : i \in DOMAIN entries} |-> item(k)]
  BY DEF Emplaced
<1> HIDE DEF item
<1>6. Emplaced(entries) = [k \in S |-> item(k)]
  BY <1>2, <1>5
<1>7. QED BY <1>4, <1>6, <1>v

(* What "write" writes of an item of P, "read" reads as what "inside" says. *)
Inverts(read, buf, write, inside, P) ==
    /\ write \in [P -> Seq(Nat)]
    /\ \A q \in P : \A pos \in Nat \ {0} :
           Occurs(buf, pos, write[q]) => read[pos] = Read(inside[q], pos + Len(write[q]))

LEMMA ListReadBack ==
    ASSUME NEW P, NEW write, NEW inside, NEW read, NEW buf \in Seq(Nat),
           Inverts(read, buf, write, inside, P),
           NEW at \in Nat \ {0}, NEW items \in Seq(P), Len(items) < Half,
           NEW s, s = Serialize(write, List(items)), Occurs(buf, at, s)
    PROVE  Deserialize(read, buf, at) = Read(Normalize(inside, List(items)), at + Len(s))
<1>0. write \in [P -> Seq(Nat)]
  BY DEF Inverts
<1> DEFINE parts == ListParts(write, items)
           n == Len(items)
           f == FlattenSeq(parts)
           values == [i \in DOMAIN items |-> inside[items[i]]]
<1>1. parts \in Seq(Seq(Nat)) /\ s = Counted(VectorTag, n, parts)
  BY <1>0, ListWritten
<1>s. n \in 0..(Half - 1)
  BY <1>0, ListWritten
<1>p. Len(parts) = n
  BY <1>0, ListWritten
<1>2. DOMAIN items = 1..n /\ n \in Nat
  OBVIOUS
<1>3. \A i \in 1..n : items[i] \in P /\ parts[i] = write[items[i]] /\ values[i] = inside[items[i]]
  BY <1>2, ElementOfSeq DEF ListParts
<1>z. IsList(values, n)
  BY <1>2 DEF IsList
<1>l. Normalize(inside, List(items)) = List(values)
  BY ListNormal
<1> HIDE DEF parts, values, n
<1>4. /\ at <= Len(buf) /\ buf[at] = VectorTag
      /\ \E next \in Nat \ {0} : /\ ReadLen(buf, at + 1) = Read(n, next)
                                 /\ Occurs(buf, next, f)
                                 /\ next + Len(f) = at + Len(s)
  <2> DEFINE tag == VectorTag
  <2>1. tag \in Nat
    BY TagsType
  <2>o. Occurs(buf, at, Counted(tag, n, parts))
    BY <1>1
  <2>s. parts \in Seq(Seq(Nat))
    BY <1>1
  <2>t. s = Counted(tag, n, parts)
    BY <1>1
  <2> HIDE DEF tag
  <2>2. /\ at <= Len(buf) /\ buf[at] = tag
        /\ \E next \in Nat \ {0} : /\ ReadLen(buf, at + 1) = Read(n, next)
                                   /\ Occurs(buf, next, FlattenSeq(parts))
                                   /\ next + Len(FlattenSeq(parts)) = at + Len(Counted(tag, n, parts))
    BY ONLY <1>s, <2>1, <2>o, <2>s, buf \in Seq(Nat), at \in Nat \ {0}, CountedRead
  <2>3. QED BY <2>t, <2>2 DEF tag
<1>5. PICK next \in Nat \ {0} : /\ ReadLen(buf, at + 1) = Read(n, next)
                                /\ Occurs(buf, next, f)
                                /\ next + Len(f) = at + Len(s)
  BY <1>4
<1>6. ReadsEach(read, buf, parts, values, n)
  <2>1. ASSUME NEW i \in 1..n, NEW pos \in Nat \ {0}, Occurs(buf, pos, parts[i])
        PROVE  read[pos] = Read(values[i], pos + Len(parts[i]))
    <3> DEFINE q == items[i]
    <3>1. q \in P /\ parts[i] = write[q] /\ values[i] = inside[q]
      BY <1>3
    <3> HIDE DEF q
    <3>2. Occurs(buf, pos, write[q])
      BY <2>1, <3>1
    <3>3. read[pos] = Read(inside[q], pos + Len(write[q]))
      BY <3>1, <3>2 DEF Inverts
    <3>4. QED BY <3>1, <3>3
  <2>2. QED BY <2>1 DEF ReadsEach
<1>g. parts \in Seq(Seq(Nat))
  BY <1>1
<1>h. n \in Nat
  BY <1>2
<1>k. next \in Nat \ {0}
  OBVIOUS
<1>o. Occurs(buf, next, FlattenSeq(parts))
  BY <1>5
<1>7. ReadMany(read, next, n) = Read(values, next + Len(f))
  BY ONLY <1>g, <1>h, <1>k, <1>p, <1>o, <1>6, <1>z, buf \in Seq(Nat), ManyReadBack
<1> HIDE DEF f
<1> DEFINE size == ReadLen(buf, at + 1)
           many == ReadMany(read, size.next, size.value)
<1>8. size.ok = TRUE /\ size.value = n /\ size.next = next
  BY <1>5 DEF Read
<1>9. many.ok = TRUE /\ many.value = values /\ many.next = at + Len(s)
  <2>1. many = Read(values, at + Len(s))
    BY <1>5, <1>7, <1>8
  <2> HIDE DEF many
  <2>2. QED BY <2>1 DEF Read
<1>10. ReadVector(read, buf, at + 1) =
           IF size.ok /\ size.value >= 0 /\ many.ok THEN Read(List(many.value), many.next)
           ELSE Unreadable
  BY DEF ReadVector
<1> HIDE DEF size, many
<1>11. ReadVector(read, buf, at + 1) = Read(List(values), at + Len(s))
  BY <1>2, <1>8, <1>9, <1>10
<1>12. Deserialize(read, buf, at) = ReadVector(read, buf, at + 1)
  BY <1>4, OtherTagRead
<1>13. QED BY <1>l, <1>11, <1>12

LEMMA MapReadBack ==
    ASSUME NEW P, NEW write, NEW inside, NEW read, NEW buf \in Seq(Nat),
           Inverts(read, buf, write, inside, P),
           NEW at \in Nat \ {0}, NEW m \in [Names -> P \cup {None}],
           NEW p, p = [type |-> "map", value |-> m],
           NEW s, s = Serialize(write, p), Occurs(buf, at, s)
    PROVE  Deserialize(read, buf, at) = Read(Normalize(inside, p), at + Len(s))
<1>0. write \in [P -> Seq(Nat)]
  BY DEF Inverts
<1> DEFINE D == Keys(m)
           keys == SetToSeq(D)
           parts == MapParts(write, m)
           n == Cardinality(D)
           f == FlattenSeq(parts)
           v == [k \in D |-> inside[m[k]]]
           values == [i \in 1..n |-> [key |-> keys[i], item |-> v[keys[i]]]]
           entry == [next \in Nat |-> ReadEntry(read, buf, next)]
<1>1. parts \in Seq(Seq(Nat)) /\ s = Counted(MapTag, n, parts)
  BY <1>0, MapWritten
<1>p. Len(parts) = n
  BY <1>0, MapWritten
<1>s. n \in 0..(Half - 1)
  BY ONLY m \in [Names -> P \cup {None}], MapKeys
<1>2. n \in 0..(Half - 1) /\ n \in Nat /\ \A k \in D : k \in Strings /\ m[k] \in P
  <2>1. n \in 0..(Half - 1) /\ \A k \in D : k \in Strings /\ m[k] \in P
    BY ONLY m \in [Names -> P \cup {None}], MapKeys
  <2> HIDE DEF n
  <2>2. n \in Nat
    BY <2>1, HalfType
  <2>3. QED BY <2>1, <2>2
<1>3. /\ Len(keys) = n
      /\ \A i, j \in 1..n : keys[i] = keys[j] => i = j
      /\ {keys[i] : i \in 1..n} = D
  BY MapKeys, SetToSeqNames
<1>4. \A i \in 1..n : keys[i] \in D
  BY <1>3
<1>5. \A i \in 1..n : parts[i] = WriteString(keys[i]) \o write[m[keys[i]]]
  BY <1>3 DEF MapParts
<1>l. Normalize(inside, p) = Map(v)
  BY MapNormal
<1>i. \A k \in D : v[k] = inside[m[k]]
  OBVIOUS
<1>v. \A i \in 1..n : values[i] = [key |-> keys[i], item |-> v[keys[i]]]
  OBVIOUS
<1>z. IsList(values, n)
  BY DEF IsList
<1>e. Emplaced(values) = v
  <2>1. /\ DOMAIN values = 1..n /\ DOMAIN v = D
        /\ \A i \in 1..n : values[i].key = keys[i] /\ values[i].item = v[keys[i]]
    OBVIOUS
  <2>2. v = [k \in D |-> v[k]]
    OBVIOUS
  <2> HIDE DEF values, v, keys, D, n
  <2>3. {values[i].key : i \in 1..n} = D
    BY <1>3, <2>1
  <2>4. EntriesOf(values, v, n)
    <3>1. \A i, j \in 1..n : values[i].key = values[j].key => i = j
      BY <1>3, <2>1
    <3>2. \A i \in 1..n : values[i].key \in DOMAIN v /\ values[i].item = v[values[i].key]
      BY <1>4, <2>1
    <3>3. v = [k \in DOMAIN v |-> v[k]]
      BY <2>1, <2>2, Zenon
    <3>4. QED BY <1>2, <2>1, <2>3, <3>1, <3>2, <3>3, Zenon DEF EntriesOf
  <2>5. QED BY <2>4, EmplacedAll
<1>n. \A next \in Nat : entry[next] = ReadEntry(read, buf, next)
  OBVIOUS
<1>m. ReadMap(read, buf, at + 1) =
          LET size == ReadLen(buf, at + 1)
              entries == ReadMany(entry, size.next, size.value)
          IN  IF size.ok /\ size.value >= 0 /\ entries.ok
              THEN Read(Map(Emplaced(entries.value)), entries.next)
              ELSE Unreadable
  BY DEF ReadMap
<1> HIDE DEF parts, v, values, keys, D, n, entry
<1>6. /\ at <= Len(buf) /\ buf[at] = MapTag
      /\ \E next \in Nat \ {0} : /\ ReadLen(buf, at + 1) = Read(n, next)
                                 /\ Occurs(buf, next, f)
                                 /\ next + Len(f) = at + Len(s)
  <2> DEFINE tag == MapTag
  <2>1. tag \in Nat
    BY TagsType
  <2>o. Occurs(buf, at, Counted(tag, n, parts))
    BY <1>1
  <2>s. parts \in Seq(Seq(Nat))
    BY <1>1
  <2>t. s = Counted(tag, n, parts)
    BY <1>1
  <2> HIDE DEF tag
  <2>2. /\ at <= Len(buf) /\ buf[at] = tag
        /\ \E next \in Nat \ {0} : /\ ReadLen(buf, at + 1) = Read(n, next)
                                   /\ Occurs(buf, next, FlattenSeq(parts))
                                   /\ next + Len(FlattenSeq(parts)) = at + Len(Counted(tag, n, parts))
    BY ONLY <1>s, <2>1, <2>o, <2>s, buf \in Seq(Nat), at \in Nat \ {0}, CountedRead
  <2>3. QED BY <2>t, <2>2 DEF tag
<1>7. PICK next \in Nat \ {0} : /\ ReadLen(buf, at + 1) = Read(n, next)
                                /\ Occurs(buf, next, f)
                                /\ next + Len(f) = at + Len(s)
  BY <1>6
<1>8. ASSUME NEW i \in 1..n, NEW pos \in Nat \ {0}, Occurs(buf, pos, parts[i])
      PROVE  entry[pos] = Read(values[i], pos + Len(parts[i]))
  <2> DEFINE k == keys[i]
             w == write[m[k]]
  <2>1. k \in Strings /\ m[k] \in P /\ k \in D
    BY <1>2, <1>4
  <2>2. w \in Seq(Nat) /\ parts[i] = WriteString(k) \o w
    BY <2>1, <1>0, <1>5
  <2>3. \A x \in Nat \ {0} : Occurs(buf, x, w) => read[x] = Read(v[k], x + Len(w))
    BY <2>1, <1>i DEF Inverts
  <2>4. values[i] = [key |-> k, item |-> v[k]]
    BY <1>v
  <2> HIDE DEF w, k
  <2>5. ReadEntry(read, buf, pos) = Read([key |-> k, item |-> v[k]], pos + Len(WriteString(k) \o w))
    <3>1. Occurs(buf, pos, WriteString(k) \o w)
      BY <1>8, <2>2
    <3>2. w \in Seq(Nat)
      BY <2>2
    <3>4. k \in Strings
      BY <2>1
    <3> DEFINE y == v[k]
    <3>5. \A x \in Nat \ {0} : Occurs(buf, x, w) => read[x] = Read(y, x + Len(w))
      BY <2>3
    <3> HIDE DEF y
    <3>3. ReadEntry(read, buf, pos) = Read([key |-> k, item |-> y], pos + Len(WriteString(k) \o w))
      BY ONLY <3>1, <3>2, <3>4, <3>5, buf \in Seq(Nat), pos \in Nat \ {0}, EntryRead
    <3>6. QED BY <3>3 DEF y
  <2>6. QED BY <1>n, <2>2, <2>4, <2>5
<1>g. parts \in Seq(Seq(Nat))
  BY <1>1
<1>h. n \in Nat
  BY <1>2
<1>k. next \in Nat \ {0}
  OBVIOUS
<1>o. Occurs(buf, next, FlattenSeq(parts))
  BY <1>7
<1>r. ReadsEach(entry, buf, parts, values, n)
  BY <1>8 DEF ReadsEach
<1>9. ReadMany(entry, next, n) = Read(values, next + Len(f))
  BY ONLY <1>g, <1>h, <1>k, <1>p, <1>o, <1>r, <1>z, buf \in Seq(Nat), ManyReadBack
<1> HIDE DEF f
<1> DEFINE size == ReadLen(buf, at + 1)
           many == ReadMany(entry, size.next, size.value)
<1>10. size.ok = TRUE /\ size.value = n /\ size.next = next
  BY <1>7 DEF Read
<1>11. many.ok = TRUE /\ many.value = values /\ many.next = at + Len(s)
  <2>1. many = Read(values, at + Len(s))
    BY <1>7, <1>9, <1>10
  <2> HIDE DEF many
  <2>2. QED BY <2>1 DEF Read
<1>12. ReadMap(read, buf, at + 1) =
           IF size.ok /\ size.value >= 0 /\ many.ok THEN Read(Map(Emplaced(many.value)), many.next)
           ELSE Unreadable
  BY <1>m
<1> HIDE DEF size, many
<1>13. ReadMap(read, buf, at + 1) = Read(Map(v), at + Len(s))
  BY <1>2, <1>10, <1>11, <1>12, <1>e
<1>14. Deserialize(read, buf, at) = ReadMap(read, buf, at + 1)
  BY <1>6, OtherTagRead
<1>15. QED BY <1>l, <1>13, <1>14

LEMMA NestedReadBack ==
    ASSUME NEW P, NEW write, NEW inside, NEW read, NEW buf \in Seq(Nat),
           Inverts(read, buf, write, inside, P),
           NEW at \in Nat \ {0}, NEW p \in Nested(P),
           NEW s, s = Serialize(write, p), Occurs(buf, at, s)
    PROVE  Deserialize(read, buf, at) = Read(Normalize(inside, p), at + Len(s))
<1>1. ASSUME p.value \in Seq(P), Len(p.value) < Half, p = List(p.value)
      PROVE  Deserialize(read, buf, at) = Read(Normalize(inside, p), at + Len(s))
  <2> DEFINE items == p.value
  <2> HIDE DEF items
  <2>1. items \in Seq(P) /\ Len(items) < Half /\ p = List(items)
    BY <1>1 DEF items
  <2>2. s = Serialize(write, List(items))
    BY <2>1
  <2>3. Deserialize(read, buf, at) = Read(Normalize(inside, List(items)), at + Len(s))
    BY ONLY <2>1, <2>2, buf \in Seq(Nat), at \in Nat \ {0},
            Occurs(buf, at, s), ListReadBack,
            Inverts(read, buf, write, inside, P)
  <2>4. QED BY <2>1, <2>3
<1>2. ASSUME p.value \in [Names -> P \cup {None}], p = [type |-> "map", value |-> p.value]
      PROVE  Deserialize(read, buf, at) = Read(Normalize(inside, p), at + Len(s))
  <2> DEFINE m == p.value
  <2> HIDE DEF m
  <2>1. m \in [Names -> P \cup {None}] /\ p = [type |-> "map", value |-> m]
    BY <1>2 DEF m
  <2>2. QED
    BY ONLY <2>1, buf \in Seq(Nat), at \in Nat \ {0},
            s = Serialize(write, p), Occurs(buf, at, s), MapReadBack,
            Inverts(read, buf, write, inside, P)
<1>3. \/ p.value \in Seq(P) /\ Len(p.value) < Half /\ p = List(p.value)
      \/ p.value \in [Names -> P \cup {None}] /\ p = [type |-> "map", value |-> p.value]
  BY ONLY p \in Nested(P), NestedKinds
<1>4. QED BY <1>1, <1>2, <1>3, Zenon

(* Everything that is written is read back, wherever it stands, as its normal *)
(* form.                                                                   *)
LEMMA ReadBack ==
    ASSUME NEW buf \in Seq(Nat)
    PROVE  \A d \in 0..Nesting :
               Inverts(Levels(buf)[d + 1], buf, Writer[d], Normalizer[d], Params[d])
<1> DEFINE S == {d \in 0..Nesting :
                     Inverts(Levels(buf)[d + 1], buf, Writer[d], Normalizer[d], Params[d])}
<1>n. Nesting \in Nat /\ 0 \in 0..Nesting
  BY ConstantsType
<1>1. 0 \in S
  <2> DEFINE read == Levels(buf)[0 + 1]
  <2>1. Writer[0] \in [Flat -> Seq(Nat)] /\ Params[0] = Flat
    BY <1>n, WriterType, ParamsStep
  <2>2. ASSUME NEW q \in Flat, NEW pos \in Nat \ {0}, Occurs(buf, pos, Writer[0][q])
        PROVE  read[pos] = Read(Normalizer[0][q], pos + Len(Writer[0][q]))
    <3>1. Writer[0][q] = Serialize(<<>>, q) /\ Normalizer[0][q] = Normalize(<<>>, q)
      BY <2>1, WriterStep, NormalizerStep
    <3>2. read[pos] = Deserialize(Levels(buf)[0], buf, pos)
      BY <1>n, ReaderStep
    <3> DEFINE s == Serialize(<<>>, q)
               v == Normalize(<<>>, q)
    <3>3. Occurs(buf, pos, s)
      BY <2>2, <3>1
    <3> HIDE DEF read
    <3>4. Deserialize(Levels(buf)[0], buf, pos) = Read(v, pos + Len(s))
      BY <3>3, FlatReadBack
    <3>5. QED BY <3>1, <3>2, <3>4
  <2> HIDE DEF read
  <2>3. Inverts(read, buf, Writer[0], Normalizer[0], Params[0])
    BY <2>1, <2>2 DEF Inverts
  <2>4. QED BY <2>3, <1>n DEF read
<1>2. ASSUME NEW d \in 0..Nesting, d \in S, d < Nesting PROVE d + 1 \in S
  <2> DEFINE e == d + 1
             read == Levels(buf)[e]
             next == Levels(buf)[e + 1]
             P == Params[d]
             write == Writer[d]
             inside == Normalizer[d]
  <2>1. d \in 0..(Nesting - 1) /\ e \in 0..Nesting
    BY <1>2, <1>n
  <2>2. Inverts(read, buf, write, inside, P)
    BY <1>2
  <2>3. /\ Params[e] = Flat \cup Nested(P)
        /\ \A p \in Params[e] : Writer[e][p] = Serialize(write, p)
        /\ \A p \in Params[e] : Normalizer[e][p] = Normalize(inside, p)
    BY <2>1, ParamsStep, WriterStep, NormalizerStep
  <2>4. Writer[e] \in [Params[e] -> Seq(Nat)]
    BY <2>1, WriterType
  <2>5. \A pos \in Nat : next[pos] = Deserialize(read, buf, pos)
    BY <2>1, ReaderStep
  <2> HIDE DEF e, read, next, P, write, inside
  <2>6. ASSUME NEW p \in Params[e], NEW pos \in Nat \ {0}, Occurs(buf, pos, Writer[e][p])
        PROVE  next[pos] = Read(Normalizer[e][p], pos + Len(Writer[e][p]))
    <3> DEFINE s == Serialize(write, p)
               v == Normalize(inside, p)
    <3>1. Writer[e][p] = s /\ Normalizer[e][p] = v /\ next[pos] = Deserialize(read, buf, pos)
      BY <2>3, <2>5
    <3>2. Occurs(buf, pos, s)
      BY <2>6, <3>1
    <3>3. Deserialize(read, buf, pos) = Read(v, pos + Len(s))
      <4>1. CASE p \in Flat
        BY <3>2, <4>1, FlatReadBack
      <4>2. CASE p \in Nested(P)
        BY <3>2, <4>2, <2>2, NestedReadBack
      <4>3. QED BY <2>3, <4>1, <4>2
    <3>4. QED BY <3>1, <3>3
  <2>7. Inverts(next, buf, Writer[e], Normalizer[e], Params[e])
    BY <2>4, <2>6 DEF Inverts
  <2>8. QED BY <2>1, <2>7 DEF e, next
<1> HIDE DEF S
<1>3. \A d \in 0..Nesting : d \in S
  BY <1>n, <1>1, <1>2, UpTo
<1>4. QED BY <1>3 DEF S

Parameters == Params[Nesting]

(* The bytes of a parameter, and nothing after them, are read as its normal  *)
(* form.                                                                   *)
LEMMA PayloadReadBack ==
    ASSUME NEW p \in Parameters
    PROVE  Bytes(p) \in Seq(Nat) /\ Reader(Bytes(p))[1] = Read(Normal(p), 1 + Len(Bytes(p)))
<1> DEFINE buf == Bytes(p)
<1>1. Nesting \in 0..Nesting
  BY ConstantsType
<1>2. buf \in Seq(Nat) /\ buf = Writer[Nesting][p]
  BY <1>1, WriterType DEF Bytes, Parameters
<1>3. Occurs(buf, 1, buf)
  BY <1>2 DEF Occurs
<1>4. Inverts(Levels(buf)[Nesting + 1], buf, Writer[Nesting], Normalizer[Nesting], Params[Nesting])
  BY <1>1, <1>2, ReadBack
<1>5. Reader(buf) = Levels(buf)[Nesting + 1]
  BY ReaderDef
<1>6. Levels(buf)[Nesting + 1][1] = Read(Normalizer[Nesting][p], 1 + Len(Writer[Nesting][p]))
  BY <1>2, <1>3, <1>4 DEF Inverts, Parameters
<1>7. QED BY <1>2, <1>5, <1>6 DEF Normal

-----------------------------------------------------------------------------
(* Store and Load                                                          *)

(* What store() makes of a parameter that fits.                             *)
Packed(p) == <<WireVersion, Len(Bytes(p)), Crc(Bytes(p))>> \o Bytes(p)

LEMMA ConcatParts ==
    ASSUME NEW V, NEW s \in Seq(V), NEW t \in Seq(V)
    PROVE  /\ s \o t \in Seq(V) /\ Len(s \o t) = Len(s) + Len(t)
           /\ \A i \in 1..Len(s) : (s \o t)[i] = s[i]
           /\ \A i \in 1..Len(t) : (s \o t)[Len(s) + i] = t[i]
OBVIOUS

LEMMA PackedParts ==
    ASSUME NEW p \in Parameters
    PROVE  LET b == Packed(p)
               n == Len(Bytes(p))
           IN  /\ n \in Nat /\ Len(b) = HeaderSize + n /\ b # NoBytes
               /\ b[1] = WireVersion /\ b[2] = n /\ b[3] = Crc(Bytes(p))
               /\ SubSeq(b, HeaderSize + 1, HeaderSize + n) = Bytes(p)
<1> DEFINE s == Bytes(p)
           n == Len(s)
           h == <<WireVersion, n, Crc(s)>>
           b == Packed(p)
           V == Nat \cup {s}
<1>1. s \in Seq(Nat) /\ n \in Nat
  <2>1. s \in Seq(Nat)
    BY PayloadReadBack
  <2>2. QED BY <2>1
<1>2. s \in Seq(V)
  <2> HIDE DEF s
  <2>1. QED BY <1>1, SeqMonotonic
<1>3. Crc(s) = s
  BY DEF Crc
<1>b. b = h \o s
  BY DEF Packed
<1>c. h = <<2, n, s>>
  BY <1>3 DEF WireVersion
<1> HIDE DEF s, n, b, h
<1>4. h \in Seq(V) /\ Len(h) = 3 /\ h[1] = 2 /\ h[2] = n /\ h[3] = s
  <2>1. 2 \in V /\ n \in V /\ s \in V
    BY <1>1
  <2>2. <<2, n, s>> \in Seq(V)
    <3> HIDE DEF V
    <3>1. QED BY <2>1
  <2>3. QED BY <1>c, <2>2
<1> HIDE DEF V
<1>n. Len(s) = n /\ Len(s) \in Nat
  BY <1>1 DEF n
<1>p. /\ h \o s \in Seq(V) /\ Len(h \o s) = Len(h) + Len(s)
      /\ \A i \in 1..Len(h) : (h \o s)[i] = h[i]
      /\ \A i \in 1..Len(s) : (h \o s)[Len(h) + i] = s[i]
  <2>1. h \in Seq(V)
    BY <1>4
  <2>2. QED BY ONLY <2>1, <1>2, ConcatParts
<1>5. b \in Seq(V) /\ Len(b) = 3 + Len(s)
  BY <1>p, <1>4, <1>b
<1>6. /\ \A i \in 1..3 : b[i] = h[i]
      /\ \A i \in 1..Len(s) : b[3 + i] = s[i]
  BY <1>p, <1>4, <1>b
<1>7. SubSeq(b, HeaderSize + 1, HeaderSize + n) = s
  <2> DEFINE cut == SubSeq(b, 4, 3 + n)
  <2>1. cut = [i \in 1..(3 + n - 4 + 1) |-> b[4 + i - 1]]
    BY <1>1 DEF SubSeq
  <2>2. 3 + n - 4 + 1 = n /\ \A i \in 1..n : 4 + i - 1 = 3 + i
    BY <1>1
  <2>3. cut = [i \in 1..n |-> b[4 + i - 1]]
    BY <2>1, <2>2
  <2>4. \A i \in 1..n : b[4 + i - 1] = s[i]
    BY <2>2, <1>6, <1>n
  <2>5. s = [i \in 1..n |-> s[i]]
    BY <1>1, <1>n
  <2> HIDE DEF cut
  <2>6. cut = s
    BY <2>3, <2>4, <2>5
  <2>7. HeaderSize + 1 = 4 /\ HeaderSize + n = 3 + n
    BY DEF HeaderSize
  <2>8. QED BY <2>6, <2>7 DEF cut
<1>8. b # NoBytes
  BY <1>5, <1>n DEF NoBytes
<1>9. b[1] = WireVersion /\ b[2] = n /\ b[3] = Crc(s)
  BY <1>3, <1>4, <1>6 DEF WireVersion
<1>10. Len(b) = HeaderSize + n
  BY <1>5, <1>n DEF HeaderSize
<1>11. QED BY <1>1, <1>7, <1>8, <1>9, <1>10 DEF s, n, b

LEMMA PackedLoads ==
    ASSUME NEW p \in Parameters
    PROVE  Load(Packed(p)) = Read(Normal(p), 1 + Len(Bytes(p)))
<1> DEFINE b == Packed(p)
           s == Bytes(p)
           n == Len(s)
           result == Reader(s)[1]
<1>1. /\ n \in Nat /\ Len(b) = HeaderSize + n
      /\ b[1] = WireVersion /\ b[2] = n /\ b[3] = Crc(s)
      /\ SubSeq(b, HeaderSize + 1, HeaderSize + n) = s
  BY PackedParts
<1>2. result = Read(Normal(p), 1 + n)
  BY PayloadReadBack
<1> HIDE DEF b, s, n
<1>3. result.ok = TRUE /\ result.next = n + 1
  <2> HIDE DEF result
  <2>1. QED BY <1>1, <1>2 DEF Read
<1>4. ~ (Len(b) < HeaderSize \/ b[1] # WireVersion \/ HeaderSize + b[2] > Len(b))
  BY <1>1 DEF HeaderSize
<1>5. SubSeq(b, HeaderSize + 1, HeaderSize + b[2]) = s
  BY <1>1
<1>6. Load(b) = IF Crc(s) = b[3] THEN NothingLeft(result, Len(s)) ELSE Unreadable
  BY <1>4, <1>5, Zenon DEF Load
<1>7. Load(b) = result
  <2> HIDE DEF result
  <2>1. QED BY <1>1, <1>3, <1>6 DEF n, NothingLeft
<1>8. QED BY <1>2, <1>7 DEF b, n, s

LEMMA NothingLoads == Load(NoBytes) = Unreadable /\ Unreadable.ok = FALSE
BY DEF Load, NoBytes, HeaderSize, Unreadable

LEMMA Stored ==
    ASSUME NEW p \in Parameters, NEW capacity \in Nat
    PROVE  Store(p, capacity) = IF HeaderSize + Len(Bytes(p)) <= capacity THEN Packed(p) ELSE NoBytes
<1>1. Len(Packed(p)) = HeaderSize + Len(Bytes(p))
  BY PackedParts
<1>2. Store(p, capacity) = IF Len(Packed(p)) <= capacity THEN Packed(p) ELSE NoBytes
  BY DEF Store, Packed
<1>3. QED BY <1>1, <1>2

LEMMA StoredGrowing ==
    ASSUME NEW p \in Parameters
    PROVE  StoreGrowing(p) =
               IF HeaderSize + Len(Bytes(p)) <= MaxCapacity THEN Packed(p) ELSE NoBytes
<1> DEFINE size == HeaderSize + Len(Bytes(p))
           enough == {c \in Capacities : Store(p, c) # NoBytes}
<1>1. MaxCapacity \in Nat /\ MaxCapacity \in Capacities
  BY CapacitiesAssumption
<1>2. \A c \in Capacities : c \in Nat /\ c <= MaxCapacity
  BY <1>1 DEF Capacities
<1>3. Len(Bytes(p)) \in Nat /\ Packed(p) # NoBytes
  BY PackedParts
<1>4. size \in Nat
  BY <1>3 DEF HeaderSize
<1>5. \A c \in Capacities : Store(p, c) = IF size <= c THEN Packed(p) ELSE NoBytes
  BY <1>2, Stored
<1>6. StoreGrowing(p) = IF enough = {} THEN NoBytes ELSE Store(p, CHOOSE c \in enough : TRUE)
  BY DEF StoreGrowing
<1> HIDE DEF size
<1>7. CASE size <= MaxCapacity
  <2>1. enough # {}
    BY <1>1, <1>3, <1>5, <1>7
  <2> DEFINE c == CHOOSE c \in enough : TRUE
  <2>2. c \in enough
    BY <2>1
  <2>3. Store(p, c) = Packed(p)
    BY <2>2, <1>5
  <2>4. QED BY <1>6, <1>7, <2>1, <2>3 DEF size
<1>8. CASE ~ (size <= MaxCapacity)
  <2>1. \A c \in Capacities : ~ (size <= c)
    BY <1>1, <1>2, <1>4, <1>8
  <2>2. enough = {}
    BY <2>1, <1>5
  <2>3. QED BY <1>6, <1>8, <2>2 DEF size
<1>9. QED BY <1>7, <1>8

-----------------------------------------------------------------------------
(* Envelopes                                                               *)

LEMMA NormalIsAnyLevel == \A d \in 0..Nesting : \A p \in Params[d] : Normal(p) = Normalizer[d][p]
<1> DEFINE S == {j \in 0..Nesting :
                     \A p \in Params[Nesting - j] : Normal(p) = Normalizer[Nesting - j][p]}
<1>n. Nesting \in Nat
  BY ConstantsType
<1>1. 0 \in S
  <2>1. Nesting - 0 = Nesting
    BY <1>n
  <2>2. QED BY <1>n, <2>1 DEF Normal
<1>2. ASSUME NEW j \in 0..Nesting, j \in S, j < Nesting PROVE j + 1 \in S
  <2> DEFINE d == Nesting - (j + 1)
             e == Nesting - j
  <2>1. d \in 0..(Nesting - 1) /\ d + 1 = e /\ j + 1 \in 0..Nesting
    BY <1>2, <1>n
  <2>2. \A p \in Params[e] : Normal(p) = Normalizer[e][p]
    BY <1>2
  <2> HIDE DEF d, e
  <2>3. Params[d] \subseteq Params[e]
    BY <2>1, ParamsGrow
  <2>4. \A p \in Params[d] : Normalizer[e][p] = Normalizer[d][p]
    BY <2>1, NormalizerSame
  <2>5. \A p \in Params[d] : Normal(p) = Normalizer[d][p]
    BY <2>2, <2>3, <2>4
  <2>6. QED BY <2>1, <2>5 DEF d
<1> HIDE DEF S
<1>3. \A j \in 0..Nesting : j \in S
  BY <1>n, <1>1, <1>2, UpTo
<1>4. ASSUME NEW d \in 0..Nesting, NEW p \in Params[d] PROVE Normal(p) = Normalizer[d][p]
  <2> DEFINE j == Nesting - d
  <2>1. j \in 0..Nesting /\ Nesting - j = d
    BY <1>n
  <2> HIDE DEF j
  <2>2. \A q \in Params[Nesting - j] : Normal(q) = Normalizer[Nesting - j][q]
    BY <1>3, <2>1 DEF S
  <2>3. QED BY <2>1, <2>2
<1>5. QED BY <1>4

LEMMA NormalType ==
    \A d \in 0..Nesting : \A p \in Params[d] : Normal(p) \in Params[d] /\ Normal(Normal(p)) = Normal(p)
BY NormalIsAnyLevel, NormalizerType

(* What store() writes, load() reads: the parameter itself, but for the      *)
(* unsigned numbers above the largest signed one.  What does not fit is     *)
(* refused as a whole, and what has crossed once is not changed again.      *)
THEOREM WhatIsStoredIsLoaded ==
    \A p \in Params[Nesting], capacity \in Nat :
        /\ Load(Store(p, capacity)) = IF HeaderSize + Len(Bytes(p)) <= capacity
                                     THEN Read(Normal(p), 1 + Len(Bytes(p)))
                                     ELSE Unreadable
        /\ Normal(p) \in Params[Nesting] /\ Normal(Normal(p)) = Normal(p)
<1> SUFFICES ASSUME NEW p \in Params[Nesting], NEW capacity \in Nat
             PROVE  /\ Load(Store(p, capacity)) = IF HeaderSize + Len(Bytes(p)) <= capacity
                                                  THEN Read(Normal(p), 1 + Len(Bytes(p)))
                                                  ELSE Unreadable
                    /\ Normal(p) \in Params[Nesting] /\ Normal(Normal(p)) = Normal(p)
  OBVIOUS
<1>1. p \in Parameters /\ Nesting \in 0..Nesting
  BY ConstantsType DEF Parameters
<1>2. Load(Store(p, capacity)) = IF HeaderSize + Len(Bytes(p)) <= capacity
                                 THEN Read(Normal(p), 1 + Len(Bytes(p)))
                                 ELSE Unreadable
  BY <1>1, Stored, PackedLoads, NothingLoads
<1>3. QED BY <1>1, <1>2, NormalType

LEMMA FlatParams ==
    /\ \A d \in 0..Nesting : /\ \A s \in Strings : Text(s) \in Params[d]
                             /\ \A n \in Int64s : Int64(n) \in Params[d]
                             /\ \A b \in BOOLEAN : Bool(b) \in Params[d]
    /\ \A s \in Strings : Normal(Text(s)) = Text(s)
    /\ \A n \in Int64s : Normal(Int64(n)) = Int64(n)
    /\ \A b \in BOOLEAN : Normal(Bool(b)) = Bool(b)
<1>n. 0 \in 0..Nesting
  BY ConstantsType
<1>1. /\ \A s \in Strings : Text(s) \in Flat /\ Text(s).type # "uint64"
      /\ \A n \in Int64s : Int64(n) \in Flat /\ Int64(n).type # "uint64"
      /\ \A b \in BOOLEAN : Bool(b) \in Flat /\ Bool(b).type # "uint64"
  BY DEF Flat, Text, Int64, Bool
<1>2. \A p \in Flat : p.type # "uint64" => Normal(p) = p
  <2>1. ASSUME NEW p \in Flat, p.type # "uint64" PROVE Normal(p) = p
    <3>1. Params[0] = Flat
      BY ParamsStep
    <3>2. Normal(p) = Normalizer[0][p]
      BY <3>1, <1>n, NormalIsAnyLevel
    <3>3. Normalizer[0][p] = Normalize(<<>>, p)
      BY <3>1, NormalizerStep
    <3>4. QED BY <2>1, <3>2, <3>3, FlatNormal
  <2>2. QED BY <2>1
<1>3. \A d \in 0..Nesting : Flat \subseteq Params[d]
  BY FlatIn
<1>4. QED BY <1>1, <1>2, <1>3

LEMMA NormalMapOf ==
    ASSUME NEW d \in 0..(Nesting - 1), NEW D \in SUBSET Names, NEW f \in [D -> Params[d]]
    PROVE  /\ Map(f) \in Params[d + 1] /\ Map(f).type = "map"
           /\ Normal(Map(f)) = Map([k \in D |-> Normal(f[k])])
           /\ Keys(Map(f).value) = D /\ \A k \in D : Map(f).value[k] = f[k]
<1>1. d \in 0..Nesting /\ d + 1 \in 0..Nesting
  BY ConstantsType
<1>2. None \notin Params[d]
  BY <1>1, NoneOut
<1> DEFINE P == Params[d]
           p == Map(f)
           m == p.value
<1>p. p = Map(f)
  OBVIOUS
<1> HIDE DEF P
<1>3. /\ p \in Nested(P) /\ p.type = "map" /\ p = [type |-> "map", value |-> m]
      /\ Keys(m) = D /\ \A k \in D : m[k] = f[k]
  <2>1. f \in [D -> P] /\ None \notin P
    BY <1>2 DEF P
  <2>2. QED BY ONLY <2>1, D \in SUBSET Names, MapOf
<1> HIDE DEF p, m
<1>4. p \in Params[d + 1]
  BY <1>3, ParamsStep DEF P
<1>5. Normal(p) = Normalize(Normalizer[d], p)
  BY <1>1, <1>4, NormalIsAnyLevel, NormalizerStep
<1> DEFINE g == [k \in Keys(m) |-> Normalizer[d][m[k]]]
           h == [k \in D |-> Normal(f[k])]
<1>6. Normal(p) = Map(g)
  BY <1>3, <1>5, MapNormal
<1>7. \A k \in D : Normalizer[d][m[k]] = Normal(f[k])
  BY <1>1, <1>3, NormalIsAnyLevel
<1>8. g = h
  BY <1>3, <1>7
<1> HIDE DEF g, h
<1>9. Normal(p) = Map(h)
  BY <1>6, <1>8
<1>10. QED BY <1>3, <1>4, <1>9 DEF h, p, m

LEMMA NormalListOf ==
    ASSUME NEW d \in 0..(Nesting - 1), NEW items \in Seq(Params[d]), Len(items) < Half
    PROVE  /\ List(items) \in Params[d + 1]
           /\ Normal(List(items)) = List([i \in DOMAIN items |-> Normal(items[i])])
<1>1. d \in 0..Nesting /\ d + 1 \in 0..Nesting
  BY ConstantsType
<1>2. List(items) \in Nested(Params[d])
  BY DEF List, Nested
<1>3. List(items) \in Params[d + 1]
  BY <1>2, ParamsStep
<1>4. Normal(List(items)) = Normalize(Normalizer[d], List(items))
  BY <1>1, <1>3, NormalIsAnyLevel, NormalizerStep
<1> DEFINE g == [i \in DOMAIN items |-> Normalizer[d][items[i]]]
           h == [i \in DOMAIN items |-> Normal(items[i])]
<1>5. Normal(List(items)) = List(g)
  BY <1>4, ListNormal
<1>6. g = h
  <2>1. \A i \in DOMAIN items : items[i] \in Params[d]
    OBVIOUS
  <2>2. \A i \in DOMAIN items : Normalizer[d][items[i]] = Normal(items[i])
    BY <1>1, <2>1, NormalIsAnyLevel
  <2>3. QED BY <2>2
<1> HIDE DEF g, h
<1>7. QED BY <1>3, <1>5, <1>6 DEF h

LEMMA KeysApart ==
    /\ DOMAIN Key = {"name", "type", "required", "default", "params", "ok", "body", "code", "message"}
    /\ \A a, b \in DOMAIN Key : Key[a] = Key[b] => a = b
    /\ \A a \in DOMAIN Key : Key[a] \in Names
<1> DEFINE one(n) == <<n>>
<1>1. \A m, n : one(m) = one(n) => m = n
  OBVIOUS
<1>2. /\ DOMAIN Key = {"name", "type", "required", "default", "params", "ok", "body", "code", "message"}
      /\ Key["name"] = one(1) /\ Key["type"] = one(2) /\ Key["required"] = one(3)
      /\ Key["default"] = one(4) /\ Key["params"] = one(5) /\ Key["ok"] = one(6)
      /\ Key["body"] = one(7) /\ Key["code"] = one(8) /\ Key["message"] = one(9)
  BY DEF Key
<1> HIDE DEF one
<1>3. \A a, b \in DOMAIN Key : Key[a] = Key[b] => a = b
  BY <1>1, <1>2
<1>4. \A a \in DOMAIN Key : Key[a] \in Names
  BY PluginsAssumption
<1>5. QED BY <1>2, <1>3, <1>4

(* A record and its envelope.                                              *)
LEMMA EnvelopeOf ==
    ASSUME NEW d \in 0..(Nesting - 1), NEW fields, DOMAIN fields \subseteq DOMAIN Key,
           \A name \in DOMAIN fields : fields[name] \in Params[d]
    PROVE  /\ Envelope(fields) \in Params[d + 1] /\ Envelope(fields).type = "map"
           /\ \A name \in DOMAIN fields : Envelope(fields).value[Key[name]] = fields[name]
           /\ Normal(Envelope(fields)) = Envelope([name \in DOMAIN fields |-> Normal(fields[name])])
<1> DEFINE N == DOMAIN fields
           D == {Key[name] : name \in N}
           of(k) == CHOOSE name \in N : Key[name] = k
           f == [k \in D |-> fields[of(k)]]
           normal == [name \in N |-> Normal(fields[name])]
           p == Map(f)
<1>1. \A name \in N : Key[name] \in D /\ of(Key[name]) = name
  <2>1. ASSUME NEW name \in N PROVE of(Key[name]) = name
    <3>1. name \in N /\ Key[name] = Key[name]
      OBVIOUS
    <3>2. of(Key[name]) \in N /\ Key[of(Key[name])] = Key[name]
      BY <3>1
    <3> HIDE DEF of
    <3>3. QED BY <3>2, KeysApart
  <2> HIDE DEF of
  <2>2. QED BY <2>1
<1>2. \A k \in D : of(k) \in N
  <2>1. ASSUME NEW k \in D PROVE of(k) \in N
    <3>1. PICK name \in N : k = Key[name]
      OBVIOUS
    <3> HIDE DEF of
    <3>2. QED BY <1>1, <3>1
  <2> HIDE DEF of
  <2>2. QED BY <2>1
<1>3. Envelope(fields) = p
  BY DEF Envelope
<1>4. Envelope(normal) = Map([k \in D |-> normal[of(k)]])
  BY DEF Envelope
<1>5. D \in SUBSET Names
  BY KeysApart
<1> HIDE DEF of
<1>6. f \in [D -> Params[d]] /\ \A name \in N : f[Key[name]] = fields[name]
  BY <1>1, <1>2
<1>7. [k \in D |-> normal[of(k)]] = [k \in D |-> Normal(f[k])]
  BY <1>2
<1>8. /\ p \in Params[d + 1] /\ p.type = "map" /\ Normal(p) = Map([k \in D |-> Normal(f[k])])
      /\ \A k \in D : p.value[k] = f[k]
  <2> HIDE DEF D, f
  <2>1. QED BY <1>5, <1>6, NormalMapOf
<1> HIDE DEF f, p, D
<1>9. \A name \in N : p.value[Key[name]] = fields[name]
  BY <1>1, <1>6, <1>8
<1>10. Normal(p) = Envelope(normal)
  BY <1>4, <1>7, <1>8
<1>11. QED BY <1>3, <1>8, <1>9, <1>10

-----------------------------------------------------------------------------
(* Resources                                                               *)

LEMMA SmallNumbers == Nesting \in Nat /\ Nesting >= 3 /\ \A n \in 0..7 : n \in Int64s
<1>1. InternalServerError \in Int64s
  BY ResultsAssumption DEF Codes
<1>2. 7 <= Half - 1 /\ Half - Pow[Width] <= 0
  BY <1>1, HalfType DEF InternalServerError, Int64s
<1>3. QED BY <1>2, HalfType, PluginsAssumption, ConstantsType DEF Int64s

(* A parameter that a plugin may declare, and what the host has of it.      *)
Specs == [name : Names, type : {"string", "integer", "boolean"}, required : BOOLEAN,
          default : Params[Nesting - 3]]

NormalSpec(spec) == [name |-> spec.name, type |-> spec.type, required |-> spec.required,
                     default |-> Normal(spec.default)]

LEMMA TypeIndex ==
    ASSUME NEW type \in {"string", "integer", "boolean"}
    PROVE  LET i == CHOOSE i \in 1..3 : Types[i] = type IN
           i - 1 \in 0..2 /\ Types[i - 1 + 1] = type
<1> DEFINE i == CHOOSE i \in 1..3 : Types[i] = type
<1>1. \E n \in 1..3 : Types[n] = type
  <2>1. Types[1] = "string" /\ Types[2] = "integer" /\ Types[3] = "boolean"
    BY DEF Types
  <2>2. QED BY <2>1
<1>2. i \in 1..3 /\ Types[i] = type
  BY <1>1
<1> HIDE DEF i
<1>3. i - 1 \in 0..2 /\ i - 1 + 1 = i
  BY <1>2
<1>4. QED BY <1>2, <1>3 DEF i

LEMMA SpecBack ==
    ASSUME NEW spec \in Specs
    PROVE  /\ SpecToWire(spec) \in Params[Nesting - 2]
           /\ Normal(SpecToWire(spec)) = SpecToWire(NormalSpec(spec))
           /\ SpecFromWire(SpecToWire(spec).value) = spec
           /\ NormalSpec(spec) \in Specs
<1> DEFINE d == Nesting - 3
           index == (CHOOSE i \in 1..3 : Types[i] = spec.type) - 1
           fields == [name |-> Text(spec.name), type |-> Int64(index),
                      required |-> Bool(spec.required), default |-> spec.default]
           normal == [name |-> Text(spec.name), type |-> Int64(index),
                      required |-> Bool(spec.required), default |-> Normal(spec.default)]
           p == SpecToWire(spec)
<1>1. d \in 0..(Nesting - 1) /\ d \in 0..Nesting /\ d + 1 = Nesting - 2
  BY SmallNumbers
<1>2. /\ spec.name \in Strings /\ spec.required \in BOOLEAN /\ spec.default \in Params[d]
      /\ spec.type \in {"string", "integer", "boolean"}
  BY WireAssumption DEF Specs
<1>3. index \in Int64s /\ Types[index + 1] = spec.type
  <2> DEFINE t == spec.type
  <2>1. t \in {"string", "integer", "boolean"}
    BY <1>2
  <2> HIDE DEF t
  <2> DEFINE i == CHOOSE i \in 1..3 : Types[i] = t
  <2>2. i - 1 \in 0..2 /\ Types[i - 1 + 1] = t
    BY <2>1, TypeIndex
  <2>3. index = i - 1
    BY DEF t
  <2> HIDE DEF i, index
  <2>4. index \in 0..7
    BY <2>2, <2>3
  <2>5. Types[index + 1] = spec.type
    BY <2>2, <2>3 DEF t
  <2>6. QED BY <2>4, <2>5, SmallNumbers
<1>4. p = Envelope(fields)
  BY DEF SpecToWire
<1>5. SpecToWire(NormalSpec(spec)) = Envelope(normal)
  BY DEF SpecToWire, NormalSpec
<1> HIDE DEF index, d
<1>6. /\ DOMAIN fields = {"name", "type", "required", "default"}
      /\ fields["name"] = Text(spec.name) /\ fields["type"] = Int64(index)
      /\ fields["required"] = Bool(spec.required) /\ fields["default"] = spec.default
  OBVIOUS
<1>7. /\ DOMAIN normal = {"name", "type", "required", "default"}
      /\ normal["name"] = Text(spec.name) /\ normal["type"] = Int64(index)
      /\ normal["required"] = Bool(spec.required) /\ normal["default"] = Normal(spec.default)
  OBVIOUS
<1>n. normal = [name \in DOMAIN normal |-> normal[name]]
  OBVIOUS
<1> HIDE DEF fields, normal
<1>8. /\ Text(spec.name) \in Params[d] /\ Int64(index) \in Params[d]
      /\ Bool(spec.required) \in Params[d]
      /\ Normal(Text(spec.name)) = Text(spec.name) /\ Normal(Int64(index)) = Int64(index)
      /\ Normal(Bool(spec.required)) = Bool(spec.required)
  BY <1>1, <1>2, <1>3, FlatParams
<1>9. DOMAIN fields \subseteq DOMAIN Key /\ \A name \in DOMAIN fields : fields[name] \in Params[d]
  BY <1>2, <1>6, <1>8, KeysApart
<1>10. \A name \in DOMAIN fields : normal[name] = Normal(fields[name])
  BY <1>6, <1>7, <1>8
<1>11. normal = [name \in DOMAIN fields |-> Normal(fields[name])]
  <2>1. DOMAIN normal = DOMAIN fields
    BY <1>6, <1>7
  <2>2. QED BY <1>n, <1>10, <2>1
<1>12. /\ p \in Params[d + 1] /\ \A name \in DOMAIN fields : p.value[Key[name]] = fields[name]
       /\ Normal(p) = Envelope(normal)
  BY <1>1, <1>4, <1>9, <1>11, EnvelopeOf
<1> HIDE DEF p
<1>13. SpecFromWire(p.value) = spec
  <2> DEFINE m == p.value
  <2>1. /\ m[Key["name"]] = Text(spec.name) /\ m[Key["type"]] = Int64(index)
        /\ m[Key["required"]] = Bool(spec.required) /\ m[Key["default"]] = spec.default
    BY <1>6, <1>12
  <2> HIDE DEF m
  <2>2. /\ m[Key.name] = Text(spec.name) /\ m[Key.type] = Int64(index)
        /\ m[Key.required] = Bool(spec.required) /\ m[Key.default] = spec.default
    BY <2>1
  <2>3. /\ m[Key.name].value = spec.name /\ m[Key.type].value = index
        /\ m[Key.required].value = spec.required
    BY <2>2 DEF Text, Int64, Bool
  <2>4. SpecFromWire(m) = [name |-> spec.name, type |-> Types[index + 1],
                           required |-> spec.required, default |-> spec.default]
    BY <2>2, <2>3 DEF SpecFromWire
  <2>5. spec = [name |-> spec.name, type |-> spec.type,
                required |-> spec.required, default |-> spec.default]
    BY DEF Specs
  <2>6. QED BY <2>4, <2>5, <1>3 DEF m
<1>14. NormalSpec(spec) \in Specs
  <2>1. Normal(spec.default) \in Params[d]
    BY <1>1, <1>2, NormalType
  <2>2. QED BY <2>1 DEF NormalSpec, Specs, d
<1>15. QED BY <1>1, <1>5, <1>12, <1>13, <1>14 DEF p

NormalSpecs(specs) == [i \in DOMAIN specs |-> NormalSpec(specs[i])]

LEMMA ResourceBack ==
    ASSUME NEW specs \in Seq(Specs), Len(specs) < Half
    PROVE  /\ ResourceToWire(specs) \in Parameters
           /\ Normal(ResourceToWire(specs)) = ResourceToWire(NormalSpecs(specs))
           /\ ResourceFromWire(ResourceToWire(specs).value) = specs
           /\ NormalSpecs(specs) \in Seq(Specs) /\ Len(NormalSpecs(specs)) = Len(specs)
<1> DEFINE d == Nesting - 2
           wire == [i \in DOMAIN specs |-> SpecToWire(specs[i])]
           list == List(wire)
           fields == [params |-> list]
           p == ResourceToWire(specs)
           n == Len(specs)
<1>1. d \in 0..(Nesting - 1) /\ d + 1 \in 0..(Nesting - 1) /\ d + 1 + 1 = Nesting
  BY SmallNumbers
<1>2. DOMAIN specs = 1..n /\ n \in Nat /\ \A i \in 1..n : specs[i] \in Specs
  BY ElementOfSeq
<1>3. \A i \in 1..n : SpecToWire(specs[i]) \in Params[d]
  BY <1>2, SpecBack
<1>4. wire \in Seq(Params[d]) /\ Len(wire) = n /\ DOMAIN wire = 1..n
      /\ \A i \in 1..n : wire[i] = SpecToWire(specs[i])
  <2> DEFINE e(i) == SpecToWire(specs[i])
  <2>1. wire = [i \in 1..n |-> e(i)] /\ \A i \in 1..n : e(i) \in Params[d]
    BY <1>2, <1>3
  <2> HIDE DEF wire, e, n, d
  <2>2. wire \in Seq(Params[d]) /\ Len(wire) = n /\ DOMAIN wire = 1..n /\ \A i \in 1..n : wire[i] = e(i)
    BY <1>2, <2>1
  <2>3. QED BY <2>2 DEF e
<1>s. NormalSpecs(specs) \in Seq(Specs) /\ Len(NormalSpecs(specs)) = n
      /\ DOMAIN NormalSpecs(specs) = 1..n
      /\ \A i \in 1..n : NormalSpecs(specs)[i] = NormalSpec(specs[i])
  <2> DEFINE e(i) == NormalSpec(specs[i])
             ns == NormalSpecs(specs)
  <2>1. ns = [i \in 1..n |-> e(i)] /\ \A i \in 1..n : e(i) \in Specs
    BY <1>2, SpecBack DEF NormalSpecs
  <2> HIDE DEF ns, e, n
  <2>2. ns \in Seq(Specs) /\ Len(ns) = n /\ DOMAIN ns = 1..n /\ \A i \in 1..n : ns[i] = e(i)
    BY <1>2, <2>1
  <2>3. QED BY <2>2 DEF e, ns
<1>5. /\ list \in Params[d + 1]
      /\ Normal(list) = List([i \in DOMAIN wire |-> Normal(wire[i])])
  <2> HIDE DEF wire, d, n
  <2>1. Len(wire) < Half
    BY <1>4 DEF n
  <2>2. QED BY <1>1, <1>4, <2>1, NormalListOf
<1> DEFINE wire2 == [i \in DOMAIN NormalSpecs(specs) |-> SpecToWire(NormalSpecs(specs)[i])]
           fields2 == [params |-> List(wire2)]
<1>6. Normal(list) = List(wire2)
  <2> DEFINE a == [i \in DOMAIN wire |-> Normal(wire[i])]
  <2>1. \A i \in 1..n : Normal(wire[i]) = SpecToWire(NormalSpecs(specs)[i])
    BY <1>2, <1>4, <1>s, SpecBack
  <2> HIDE DEF wire, n
  <2>2. a = wire2
    BY <1>4, <1>s, <2>1
  <2> HIDE DEF a, wire2
  <2>3. QED BY <1>5, <2>2 DEF a
<1>7. p = Envelope(fields) /\ ResourceToWire(NormalSpecs(specs)) = Envelope(fields2)
  BY DEF ResourceToWire
<1> HIDE DEF wire2
<1>8. /\ DOMAIN fields = {"params"} /\ fields["params"] = list
      /\ fields2 = [name \in {"params"} |-> List(wire2)]
  OBVIOUS
<1> HIDE DEF fields, fields2, list, d
<1>9. fields2 = [name \in DOMAIN fields |-> Normal(fields[name])]
  BY <1>6, <1>8
<1>10. /\ p \in Params[d + 1 + 1] /\ \A name \in DOMAIN fields : p.value[Key[name]] = fields[name]
       /\ Normal(p) = Envelope(fields2)
  <2>1. DOMAIN fields \subseteq DOMAIN Key /\ \A name \in DOMAIN fields : fields[name] \in Params[d + 1]
    BY <1>5, <1>8, KeysApart
  <2> DEFINE e == d + 1
  <2>2. e \in 0..(Nesting - 1) /\ \A name \in DOMAIN fields : fields[name] \in Params[e]
    BY <1>1, <2>1
  <2> HIDE DEF e
  <2>3. /\ p \in Params[e + 1] /\ \A name \in DOMAIN fields : p.value[Key[name]] = fields[name]
        /\ Normal(p) = Envelope(fields2)
    BY <1>7, <1>9, <2>1, <2>2, EnvelopeOf
  <2>4. QED BY <2>3 DEF e
<1>11. ResourceFromWire(p.value) = specs
  <2> DEFINE m == p.value
             items == m[Key.params].value
  <2>1. m[Key["params"]] = list
    BY <1>8, <1>10
  <2>2. items = wire
    <3> HIDE DEF m
    <3>1. m[Key.params] = list
      BY <2>1
    <3>2. QED BY <3>1 DEF list, List
  <2>3. ResourceFromWire(m) = [i \in DOMAIN items |-> SpecFromWire(items[i].value)]
    BY DEF ResourceFromWire
  <2> HIDE DEF items, wire, n
  <2>4. \A i \in 1..n : SpecFromWire(wire[i].value) = specs[i]
    BY <1>2, <1>4, SpecBack
  <2>5. ResourceFromWire(m) = [i \in 1..n |-> specs[i]]
    BY <2>2, <2>3, <2>4, <1>4
  <2>6. specs = [i \in 1..n |-> specs[i]]
    BY <1>2
  <2>7. QED BY <2>5, <2>6 DEF m
<1>12. QED BY <1>1, <1>7, <1>10, <1>11, <1>s DEF Parameters, p

-----------------------------------------------------------------------------
(* Results and parsed values                                               *)

Returnable == Results \cup {[ok |-> FALSE, code |-> InternalServerError, message |-> <<>>]}

LEMMA ReturnableKinds ==
    \A result \in Returnable :
        \/ result.ok = TRUE /\ Map(result.body) \in Params[Nesting - 1]
        \/ result.ok = FALSE /\ result.code \in Int64s /\ result.message \in Strings
<1> SUFFICES ASSUME NEW result \in Returnable
             PROVE \/ result.ok = TRUE /\ Map(result.body) \in Params[Nesting - 1]
                   \/ result.ok = FALSE /\ result.code \in Int64s /\ result.message \in Strings
  OBVIOUS
<1>1. CASE result \in Results
  BY <1>1, ResultsAssumption
<1>2. CASE result = [ok |-> FALSE, code |-> InternalServerError, message |-> <<>>]
  <2>1. InternalServerError \in Int64s
    BY ResultsAssumption DEF Codes
  <2>2. <<>> \in Strings
    <3>1. <<>> \in Seq(0..(Base - 1)) /\ Len(<<>>) = 0
      BY EmptySeq
    <3>2. QED BY <3>1, HalfType DEF Strings
  <2>3. QED BY <1>2, <2>1, <2>2
<1>3. QED BY <1>1, <1>2 DEF Returnable

(* What the host finds in the bytes of a result.                            *)
LEMMA HandlerBack ==
    ASSUME NEW result \in Returnable
    PROVE  LET m == Normal(HandlerToWire(result)).value IN
           /\ HandlerToWire(result) \in Parameters
           /\ m[Key.ok].value = result.ok /\ result.ok \in BOOLEAN
           /\ result.ok => m[Key.body] = Normal(Map(result.body))
           /\ ~ result.ok => m[Key.code].value = result.code /\ m[Key.message] = Text(result.message)
<1> DEFINE d == Nesting - 1
           p == HandlerToWire(result)
           m == Normal(p).value
<1>1. d \in 0..(Nesting - 1) /\ d \in 0..Nesting /\ d + 1 = Nesting
  BY SmallNumbers
<1>2. ASSUME NEW fields, DOMAIN fields \subseteq DOMAIN Key,
             \A name \in DOMAIN fields : fields[name] \in Params[d], p = Envelope(fields)
      PROVE  p \in Parameters /\ \A name \in DOMAIN fields : m[Key[name]] = Normal(fields[name])
  <2> DEFINE normal == [name \in DOMAIN fields |-> Normal(fields[name])]
  <2> HIDE DEF p, d
  <2>1. p \in Params[d + 1] /\ Normal(p) = Envelope(normal)
    BY <1>1, <1>2, EnvelopeOf
  <2>2. DOMAIN normal = DOMAIN fields /\ \A name \in DOMAIN fields : normal[name] = Normal(fields[name])
    OBVIOUS
  <2>3. \A name \in DOMAIN normal : normal[name] \in Params[d]
    BY <1>1, <1>2, <2>2, NormalType
  <2>s. DOMAIN normal \subseteq DOMAIN Key
    BY <1>2, <2>2
  <2> HIDE DEF normal
  <2>d. d \in 0..(Nesting - 1)
    BY <1>1
  <2>4. \A name \in DOMAIN normal : Envelope(normal).value[Key[name]] = normal[name]
    BY ONLY <2>d, <2>s, <2>3, EnvelopeOf
  <2>5. QED BY <1>1, <2>1, <2>2, <2>4 DEF Parameters
<1> HIDE DEF d
<1>3. CASE result.ok = TRUE /\ Map(result.body) \in Params[d]
  <2> DEFINE b == Map(result.body)
             fields == [ok |-> Bool(TRUE), body |-> b]
  <2>1. p = Envelope(fields)
    BY <1>3 DEF HandlerToWire
  <2>2. DOMAIN fields = {"ok", "body"} /\ fields["ok"] = Bool(TRUE) /\ fields["body"] = b
    OBVIOUS
  <2>3. b \in Params[d]
    BY <1>3
  <2> HIDE DEF fields, b, p, m
  <2>4. Bool(TRUE) \in Params[d] /\ Normal(Bool(TRUE)) = Bool(TRUE)
    BY <1>1, FlatParams
  <2>5. DOMAIN fields \subseteq DOMAIN Key /\ \A name \in DOMAIN fields : fields[name] \in Params[d]
    BY <2>2, <2>3, <2>4, KeysApart
  <2>6. p \in Parameters /\ \A name \in DOMAIN fields : m[Key[name]] = Normal(fields[name])
    BY <1>2, <2>1, <2>5
  <2>7. m[Key["ok"]] = Bool(TRUE) /\ m[Key["body"]] = Normal(b)
    BY <2>2, <2>4, <2>6
  <2>8. m[Key.ok] = Bool(TRUE) /\ m[Key.body] = Normal(b)
    BY <2>7
  <2>9. m[Key.ok].value = TRUE
    BY <2>8 DEF Bool
  <2>10. QED BY <1>3, <2>6, <2>8, <2>9 DEF b, p, m
<1>4. CASE result.ok = FALSE /\ result.code \in Int64s /\ result.message \in Strings
  <2> DEFINE c == Int64(result.code)
             t == Text(result.message)
             fields == [ok |-> Bool(FALSE), code |-> c, message |-> t]
  <2>1. p = Envelope(fields)
    BY <1>4 DEF HandlerToWire
  <2>2. /\ DOMAIN fields = {"ok", "code", "message"}
        /\ fields["ok"] = Bool(FALSE) /\ fields["code"] = c /\ fields["message"] = t
    OBVIOUS
  <2>3. c \in Params[d] /\ t \in Params[d] /\ Normal(c) = c /\ Normal(t) = t
    BY <1>1, <1>4, FlatParams
  <2>v. c.value = result.code
    BY DEF Int64
  <2> HIDE DEF fields, c, t, p, m
  <2>4. Bool(FALSE) \in Params[d] /\ Normal(Bool(FALSE)) = Bool(FALSE)
    BY <1>1, FlatParams
  <2>5. DOMAIN fields \subseteq DOMAIN Key /\ \A name \in DOMAIN fields : fields[name] \in Params[d]
    BY <2>2, <2>3, <2>4, KeysApart
  <2>6. p \in Parameters /\ \A name \in DOMAIN fields : m[Key[name]] = Normal(fields[name])
    BY <1>2, <2>1, <2>5
  <2>7. m[Key["ok"]] = Bool(FALSE) /\ m[Key["code"]] = c /\ m[Key["message"]] = t
    BY <2>2, <2>3, <2>4, <2>6
  <2>8. m[Key.ok] = Bool(FALSE) /\ m[Key.code] = c /\ m[Key.message] = t
    BY <2>7
  <2>9. m[Key.ok].value = FALSE /\ m[Key.code].value = result.code
    BY <2>8, <2>v DEF Bool
  <2>10. QED BY <1>4, <2>6, <2>8, <2>9 DEF t, p, m
<1>5. QED BY <1>3, <1>4, ReturnableKinds DEF d

LEMMA ParsedValues ==
    ASSUME NEW spec \in Specs, NEW raw \in RawValues
    PROVE  /\ Parsed(NormalSpec(spec), raw) = {Normal(v) : v \in Parsed(spec, raw)}
           /\ \A v \in Parsed(NormalSpec(spec), raw) : v \in Params[Nesting - 1] /\ Normal(v) = v
           /\ \A v, w \in Parsed(NormalSpec(spec), raw) : v = w
<1> DEFINE d == Nesting - 1
           normal == NormalSpec(spec)
           default == spec.default
<1>1. d \in 0..Nesting /\ Nesting - 3 \in 0..Nesting /\ Nesting - 3 <= d
  BY SmallNumbers
<1>2. /\ normal.type = spec.type /\ normal.required = spec.required
      /\ normal.default = Normal(default)
      /\ spec.type \in {"string", "integer", "boolean"} /\ spec.required \in BOOLEAN
      /\ default \in Params[Nesting - 3]
  BY DEF NormalSpec, Specs
<1>3. Normal(default) \in Params[d] /\ Normal(Normal(default)) = Normal(default)
  <2>1. Normal(default) \in Params[Nesting - 3] /\ Normal(Normal(default)) = Normal(default)
    BY <1>1, <1>2, NormalType
  <2>2. Params[Nesting - 3] \subseteq Params[d]
    BY <1>1, ParamsWithin
  <2>3. QED BY <2>1, <2>2
<1>4. /\ raw.text \in Strings /\ raw.integer \subseteq Int64s /\ raw.boolean \subseteq BOOLEAN
      /\ \A a, b \in raw.integer : a = b
      /\ \A a, b \in raw.boolean : a = b
  BY RequestsAssumption
<1>f. /\ \A s \in Strings : Text(s) \in Params[d] /\ Normal(Text(s)) = Text(s)
      /\ \A n \in Int64s : Int64(n) \in Params[d] /\ Normal(Int64(n)) = Int64(n)
      /\ \A b \in BOOLEAN : Bool(b) \in Params[d] /\ Normal(Bool(b)) = Bool(b)
  BY <1>1, FlatParams
<1> HIDE DEF d, normal, default
<1> DEFINE Out(S, T) == /\ S = {Normal(v) : v \in T}
                        /\ \A v \in S : v \in Params[d] /\ Normal(v) = v
                        /\ \A v, w \in S : v = w
<1>5. CASE raw.text = <<>> /\ spec.required
  <2>1. Parsed(spec, raw) = {} /\ Parsed(normal, raw) = {}
    BY <1>2, <1>5 DEF Parsed
  <2>2. QED BY <2>1 DEF normal
<1>6. CASE raw.text = <<>> /\ ~ spec.required
  <2>1. Parsed(spec, raw) = {default} /\ Parsed(normal, raw) = {Normal(default)}
    BY <1>2, <1>6 DEF Parsed, default
  <2>2. QED BY <2>1, <1>3 DEF normal, d
<1>7. CASE raw.text # <<>> /\ spec.type = "string"
  <2>1. Parsed(spec, raw) = {Text(raw.text)} /\ Parsed(normal, raw) = {Text(raw.text)}
    BY <1>2, <1>7 DEF Parsed
  <2>2. QED BY <2>1, <1>4, <1>f DEF normal, d
<1>8. CASE raw.text # <<>> /\ spec.type = "integer"
  <2> DEFINE S == {Int64(n) : n \in raw.integer}
  <2>1. Parsed(spec, raw) = S /\ Parsed(normal, raw) = S
    BY <1>2, <1>8 DEF Parsed
  <2>2. \A v \in S : v \in Params[d] /\ Normal(v) = v
    BY <1>4, <1>f
  <2>3. \A v, w \in S : v = w
    BY <1>4
  <2> HIDE DEF S
  <2>4. S = {Normal(v) : v \in S}
    BY <2>2
  <2>5. QED BY <2>1, <2>2, <2>3, <2>4 DEF normal, d
<1>9. CASE raw.text # <<>> /\ spec.type = "boolean"
  <2> DEFINE S == {Bool(b) : b \in raw.boolean}
  <2>1. Parsed(spec, raw) = S /\ Parsed(normal, raw) = S
    BY <1>2, <1>9 DEF Parsed
  <2>2. \A v \in S : v \in Params[d] /\ Normal(v) = v
    BY <1>4, <1>f
  <2>3. \A v, w \in S : v = w
    BY <1>4
  <2> HIDE DEF S
  <2>4. S = {Normal(v) : v \in S}
    BY <2>2
  <2>5. QED BY <2>1, <2>2, <2>3, <2>4 DEF normal, d
<1>10. QED BY <1>2, <1>5, <1>6, <1>7, <1>8, <1>9

-----------------------------------------------------------------------------
(* The invariant                                                           *)

(* What the host has of a resource.                                        *)
Known(r) == [board |-> Declared[r].board, params |-> NormalSpecs(Declared[r].params)]

Registry == DOMAIN resources \subseteq Resources /\ \A r \in DOMAIN resources : resources[r] = Known(r)

WellFormed(q) ==
    /\ q.resource \in Resources
    /\ q.raw \in [DOMAIN Declared[q.resource].params -> RawValues]
    /\ q.authorized \in BOOLEAN /\ q.known \in BOOLEAN

Asked == request.resource \in DOMAIN resources /\ WellFormed(request)

Untouched == seen = None /\ calls = 0 /\ returned = None

ExpectedOf(q, i) == {Normal(v) : v \in Parsed(Declared[q.resource].params[i], q.raw[i])}

(* p is what the request q gives its resource.                             *)
Right(q, p) ==
    LET specs == Declared[q.resource].params IN
    /\ p \in Parameters /\ p.type = "map" /\ Normal(p) = p
    /\ Keys(p.value) = {specs[i].name : i \in DOMAIN specs}
    /\ \A i \in DOMAIN specs : {p.value[specs[i].name]} = ExpectedOf(q, i)

Fits(p) == HeaderSize + Len(Bytes(p)) <= MaxCapacity

Given == Right(request, params) /\ Fits(params) /\ paramsBytes = Packed(params)

Admitted(q) == Declared[q.resource].board => q.authorized /\ q.known

Called == Given /\ Admitted(request) /\ seen = params /\ calls = 1

Acceptable(q, p) ==
    /\ \A i \in DOMAIN Declared[q.resource].params : ExpectedOf(q, i) # {}
    /\ Admitted(q)
    /\ Fits(p)

(* a is the answer that a result gets.                                     *)
Whole(result, a) ==
    LET wire == HandlerToWire(result) IN
    IF HeaderSize + Len(Bytes(wire)) > OutputCapacity
    THEN a.code = InternalServerError /\ a.content = Text(<<>>)
    ELSE IF result.ok
    THEN a = [code |-> OK, content |-> Normal(Map(result.body))]
    ELSE a = [code |-> result.code, content |-> Text(result.message)]

Progress ==
    \/ pc \in {"register", "idle"} /\ Untouched
    \/ pc = "parse" /\ Asked /\ Untouched
    \/ pc = "store" /\ Asked /\ Untouched /\ Right(request, params)
    \/ pc = "authorize" /\ Asked /\ Untouched /\ Given /\ Declared[request.resource].board
    \/ pc = "call" /\ Asked /\ Untouched /\ Given /\ Admitted(request)
    \/ pc = "handler" /\ Asked /\ Called /\ returned = None
    \/ pc = "reply" /\ Asked /\ Called /\ returned \in Returnable
    \/ pc = "unwrap" /\ Asked /\ Called /\ returned \in Returnable
          /\ out = Store(HandlerToWire(returned), OutputCapacity)
    \/ pc = "sent" /\ Asked /\ Untouched /\ ~Acceptable(request, params)
    \/ pc = "sent" /\ Asked /\ Called /\ returned \in Returnable /\ Whole(returned, answer)

DInv == Registry /\ Progress

-----------------------------------------------------------------------------
LEMMA DeclaredType ==
    ASSUME NEW r \in Resources
    PROVE  /\ Declared[r].board \in BOOLEAN
           /\ Declared[r].params \in Seq(Specs) /\ Len(Declared[r].params) < Half
           /\ \A i, j \in DOMAIN Declared[r].params :
                  Declared[r].params[i].name = Declared[r].params[j].name => i = j
BY PluginsAssumption DEF Specs

(* What has been declared and what has been decoded.                       *)
LEMMA RegisteredBack ==
    ASSUME NEW r \in Resources
    PROVE  LET wire == Load(StoreGrowing(ResourceToWire(Declared[r].params))) IN
           \/ wire.ok = FALSE
           \/ wire.ok = TRUE /\ ResourceFromWire(wire.value.value) = NormalSpecs(Declared[r].params)
<1> DEFINE specs == Declared[r].params
           p == ResourceToWire(specs)
           normal == NormalSpecs(specs)
<1>1. specs \in Seq(Specs) /\ Len(specs) < Half
  BY DeclaredType
<1> HIDE DEF specs
<1>2. p \in Parameters /\ Normal(p) = ResourceToWire(normal)
      /\ normal \in Seq(Specs) /\ Len(normal) = Len(specs)
  BY <1>1, ResourceBack
<1> HIDE DEF normal
<1>3. ResourceFromWire(ResourceToWire(normal).value) = normal
  BY <1>1, <1>2, ResourceBack
<1> HIDE DEF p
<1>4. CASE StoreGrowing(p) = NoBytes
  BY <1>4, NothingLoads DEF p, specs
<1>5. CASE StoreGrowing(p) = Packed(p)
  <2> DEFINE wire == Load(StoreGrowing(p))
  <2>1. wire = Read(Normal(p), 1 + Len(Bytes(p)))
    BY <1>2, <1>5, PackedLoads
  <2>2. wire.ok = TRUE /\ wire.value = ResourceToWire(normal)
    BY <1>2, <2>1 DEF Read
  <2> HIDE DEF wire
  <2>3. QED BY <1>3, <2>2 DEF wire, p, normal, specs
<1>6. QED BY <1>2, <1>4, <1>5, StoredGrowing

LEMMA ParsedRight ==
    ASSUME NEW q, WellFormed(q), NEW specs, specs = NormalSpecs(Declared[q.resource].params),
           \A i \in DOMAIN specs : Parsed(specs[i], q.raw[i]) # {}
    PROVE  Right(q, Map([k \in {specs[i].name : i \in DOMAIN specs} |->
                            CHOOSE v \in Parsed(specs[CHOOSE i \in DOMAIN specs : specs[i].name = k],
                                                q.raw[CHOOSE i \in DOMAIN specs : specs[i].name = k])
                                : TRUE]))
<1> DEFINE declared == Declared[q.resource].params
           names == {specs[i].name : i \in DOMAIN specs}
           of(k) == CHOOSE i \in DOMAIN specs : specs[i].name = k
           values(i) == Parsed(specs[i], q.raw[i])
           value(k) == CHOOSE v \in values(of(k)) : TRUE
           f == [k \in names |-> value(k)]
           d == Nesting - 1
           D == DOMAIN specs
<1>1. /\ declared \in Seq(Specs) /\ q.raw \in [DOMAIN declared -> RawValues]
      /\ \A i, j \in DOMAIN declared : declared[i].name = declared[j].name => i = j
  BY DeclaredType DEF WellFormed
<1>2. \A i \in DOMAIN declared : declared[i] \in Specs
  BY <1>1
<1>3. D = DOMAIN declared /\ \A i \in D : specs[i] = NormalSpec(declared[i])
  BY DEF NormalSpecs
<1>4. d \in 0..(Nesting - 1) /\ d + 1 = Nesting
  BY SmallNumbers
<1>v. \A i \in D : values(i) # {}
  OBVIOUS
<1>c. /\ f = [k \in names |-> value(k)] /\ names = {specs[i].name : i \in D}
      /\ \A k \in names : of(k) \in D /\ specs[of(k)].name = k
  OBVIOUS
<1> HIDE DEF declared, d
<1>5. /\ \A i \in D : values(i) = {Normal(v) : v \in Parsed(declared[i], q.raw[i])}
      /\ \A i \in D : \A v \in values(i) : v \in Params[d] /\ Normal(v) = v
      /\ \A i \in D : \A v, w \in values(i) : v = w
  <2>1. ASSUME NEW i \in D
        PROVE  /\ values(i) = {Normal(v) : v \in Parsed(declared[i], q.raw[i])}
               /\ \A v \in values(i) : v \in Params[d] /\ Normal(v) = v
               /\ \A v, w \in values(i) : v = w
    <3> DEFINE spec == declared[i]
               raw == q.raw[i]
    <3>1. spec \in Specs /\ raw \in RawValues /\ values(i) = Parsed(NormalSpec(spec), raw)
      BY <1>1, <1>2, <1>3
    <3> HIDE DEF spec, raw, values, D
    <3>2. /\ values(i) = {Normal(v) : v \in Parsed(spec, raw)}
          /\ \A v \in values(i) : v \in Params[d] /\ Normal(v) = v
          /\ \A v, w \in values(i) : v = w
      BY <3>1, ParsedValues DEF d
    <3>3. QED BY <3>2 DEF spec, raw
  <2> HIDE DEF values, D
  <2>2. QED BY <2>1
<1>n. \A i \in D : specs[i].name = declared[i].name /\ declared[i].name \in Names
  <2>1. \A spec \in Specs : NormalSpec(spec).name = spec.name /\ spec.name \in Names
    BY DEF NormalSpec, Specs
  <2> HIDE DEF D
  <2>2. QED BY <1>2, <1>3, <2>1
<1>6. \A i, j \in D : specs[i].name = specs[j].name => i = j
  <2> HIDE DEF D
  <2>1. QED BY <1>1, <1>3, <1>n
<1> HIDE DEF values, of, D, names
<1>7. \A k \in names : value(k) \in values(of(k))
  BY <1>v, <1>c
<1> HIDE DEF value
<1>8. \A k \in names : value(k) \in Params[d] /\ Normal(value(k)) = value(k)
  BY <1>5, <1>7, <1>c
<1>9. names \in SUBSET Names /\ names = {declared[i].name : i \in D}
  <2>1. QED BY <1>n, <1>c
<1>10. f \in [names -> Params[d]] /\ \A k \in names : f[k] = value(k)
  BY <1>8, <1>c
<1>11. [k \in names |-> Normal(f[k])] = f
  BY <1>8, <1>10, <1>c
<1> HIDE DEF f
<1>12. /\ Map(f) \in Params[d + 1] /\ Map(f).type = "map" /\ Normal(Map(f)) = Map(f)
       /\ Keys(Map(f).value) = names /\ \A k \in names : Map(f).value[k] = f[k]
  <2>1. /\ Map(f) \in Params[d + 1] /\ Map(f).type = "map"
        /\ Normal(Map(f)) = Map([k \in names |-> Normal(f[k])])
        /\ Keys(Map(f).value) = names /\ \A k \in names : Map(f).value[k] = f[k]
    BY <1>4, <1>9, <1>10, NormalMapOf
  <2>2. QED BY <2>1, <1>11
<1>13. ASSUME NEW i \in D PROVE {Map(f).value[declared[i].name]} = ExpectedOf(q, i)
  <2> DEFINE k == declared[i].name
  <2>1. k \in names /\ specs[i].name = k
    BY <1>n, <1>9
  <2> HIDE DEF k
  <2>2. of(k) = i
    BY <1>6, <1>c, <2>1
  <2>3. {value(k)} = values(i)
    BY <1>5, <1>7, <2>1, <2>2
  <2>4. Map(f).value[k] = value(k)
    BY <1>10, <1>12, <2>1
  <2>5. ExpectedOf(q, i) = values(i)
    BY <1>5 DEF ExpectedOf, declared
  <2>6. QED BY <2>3, <2>4, <2>5 DEF k
<1>14. Right(q, Map(f))
  <2>1. Map(f) \in Parameters
    BY <1>4, <1>12 DEF Parameters
  <2> DEFINE p == Map(f)
  <2>2. /\ p \in Parameters /\ p.type = "map" /\ Normal(p) = p
        /\ Keys(p.value) = {declared[i].name : i \in DOMAIN declared}
        /\ \A i \in DOMAIN declared : {p.value[declared[i].name]} = ExpectedOf(q, i)
    BY <1>3, <1>9, <1>12, <1>13, <2>1
  <2> HIDE DEF p
  <2>3. Right(q, p)
    BY <2>2 DEF Right, declared
  <2>4. QED BY <2>3 DEF p
<1>15. QED BY <1>14 DEF f, value, values, of, names, D

-----------------------------------------------------------------------------
(* The steps                                                               *)

LEMMA DInvInit == Init => DInv
<1> SUFFICES ASSUME Init PROVE DInv
  OBVIOUS
<1>1. Registry
  BY DEF Init, Registry
<1>2. Progress
  BY DEF Init, Progress, Untouched
<1>3. QED BY <1>1, <1>2 DEF DInv

(* A step that leaves the registry and the request alone.                   *)
LEMMA RegistryKept ==
    ASSUME Registry, UNCHANGED <<resources, request>>
    PROVE  Registry' /\ (Asked => Asked')
BY DEF Registry, Asked

LEMMA AddResourceStep ==
    ASSUME DInv, NEW r \in Resources, AddResource(r)
    PROVE  DInv'
<1> DEFINE wire == Load(StoreGrowing(ResourceToWire(Declared[r].params)))
           new == [board |-> Declared[r].board, params |-> ResourceFromWire(wire.value.value)]
<1>1. /\ pc = "register" /\ pc' = pc
      /\ resources' = IF wire.ok
                      THEN [s \in DOMAIN resources \cup {r} |-> IF s = r THEN new ELSE resources[s]]
                      ELSE resources
      /\ seen' = seen /\ calls' = calls /\ returned' = returned
  BY DEF AddResource
<1>2. wire.ok = FALSE \/ (wire.ok = TRUE /\ ResourceFromWire(wire.value.value) = NormalSpecs(Declared[r].params))
  BY RegisteredBack
<1> HIDE DEF wire
<1>3. wire.ok = FALSE \/ (wire.ok = TRUE /\ new = Known(r))
  BY <1>2 DEF Known
<1> HIDE DEF new
<1>4. Registry'
  BY <1>1, <1>3 DEF DInv, Registry
<1>5. Progress'
  BY <1>1 DEF DInv, Progress, Untouched
<1>6. QED BY <1>4, <1>5 DEF DInv

LEMMA PublishStep == DInv /\ Publish => DInv'
<1> SUFFICES ASSUME DInv, Publish PROVE DInv'
  OBVIOUS
<1>1. Registry'
  BY RegistryKept DEF DInv, Publish
<1>2. Untouched'
  BY DEF DInv, Progress, Publish, Untouched
<1>3. QED BY <1>1, <1>2 DEF DInv, Progress, Publish

LEMMA TakeRequestStep ==
    ASSUME DInv, NEW r \in DOMAIN resources, TakeRequest(r)
    PROVE  DInv'
<1>1. Registry /\ Registry'
  BY DEF DInv, Registry, TakeRequest
<1>2. Untouched'
  BY DEF TakeRequest, Untouched
<1>3. r \in Resources /\ DOMAIN resources[r].params = DOMAIN Declared[r].params
  BY <1>1 DEF Registry, Known, NormalSpecs
<1>4. PICK raw \in [DOMAIN resources[r].params -> RawValues], authorized, known \in BOOLEAN :
          request' = [resource |-> r, raw |-> raw, authorized |-> authorized, known |-> known]
  BY DEF TakeRequest
<1>5. WellFormed(request')
  BY <1>3, <1>4 DEF WellFormed
<1>6. Asked'
  BY <1>4, <1>5 DEF Asked, TakeRequest
<1>7. pc' = "parse"
  BY DEF TakeRequest
<1>8. QED BY <1>1, <1>2, <1>6, <1>7 DEF DInv, Progress

(* The specification of a request's resource.                              *)
LEMMA AskedSpecs ==
    ASSUME Registry, Asked
    PROVE  /\ resources[request.resource].params = NormalSpecs(Declared[request.resource].params)
           /\ resources[request.resource].board = Declared[request.resource].board
BY DEF Registry, Asked, Known

LEMMA ExpectedParsed ==
    ASSUME NEW q, WellFormed(q), NEW i \in DOMAIN Declared[q.resource].params
    PROVE  Parsed(NormalSpecs(Declared[q.resource].params)[i], q.raw[i]) = ExpectedOf(q, i)
<1> DEFINE spec == Declared[q.resource].params[i]
           raw == q.raw[i]
<1>1. spec \in Specs /\ raw \in RawValues
  BY DeclaredType DEF WellFormed
<1>2. NormalSpecs(Declared[q.resource].params)[i] = NormalSpec(spec)
  BY DEF NormalSpecs
<1>3. ExpectedOf(q, i) = {Normal(v) : v \in Parsed(spec, raw)}
  BY DEF ExpectedOf
<1> HIDE DEF spec
<1>4. Parsed(NormalSpec(spec), raw) = {Normal(v) : v \in Parsed(spec, raw)}
  <2> HIDE DEF raw
  <2>1. QED BY <1>1, ParsedValues
<1>5. QED BY <1>2, <1>3, <1>4

LEMMA ParseParamsStep == DInv /\ ParseParams => DInv'
<1> SUFFICES ASSUME DInv, ParseParams PROVE DInv'
  OBVIOUS
<1> DEFINE specs == resources[request.resource].params
           declared == Declared[request.resource].params
<1>1. pc = "parse" /\ UNCHANGED <<resources, request, seen, calls, returned>>
  BY DEF ParseParams
<1>2. Registry /\ Asked /\ Untouched
  BY <1>1 DEF DInv, Progress
<1>3. Registry' /\ Asked' /\ Untouched'
  BY <1>1, <1>2, RegistryKept DEF Untouched
<1>4. WellFormed(request) /\ specs = NormalSpecs(declared) /\ DOMAIN specs = DOMAIN declared
  BY <1>2, AskedSpecs DEF Asked, NormalSpecs
<1>5. CASE \E i \in DOMAIN specs : Parsed(specs[i], request.raw[i]) = {} /\ pc' = "sent"
  <2>1. PICK i \in DOMAIN specs : Parsed(specs[i], request.raw[i]) = {}
    BY <1>5
  <2>2. ExpectedOf(request, i) = {}
    BY <1>4, <2>1, ExpectedParsed
  <2>3. ~ Acceptable(request', params')
    BY <1>1, <1>4, <2>2 DEF Acceptable
  <2>4. pc' = "sent"
    BY <1>5
  <2>5. QED BY <1>3, <2>3, <2>4 DEF DInv, Progress
<1>6. CASE /\ \A i \in DOMAIN specs : Parsed(specs[i], request.raw[i]) # {}
           /\ params' = Map([k \in {specs[i].name : i \in DOMAIN specs} |->
                            CHOOSE v \in Parsed(specs[CHOOSE i \in DOMAIN specs : specs[i].name = k],
                                                request.raw[CHOOSE i \in DOMAIN specs : specs[i].name = k])
                                : TRUE])
           /\ pc' = "store"
  <2>1. Right(request, params')
    BY <1>4, <1>6, ParsedRight
  <2>2. QED BY <1>1, <1>3, <1>6, <2>1 DEF DInv, Progress
<1>7. QED BY <1>5, <1>6 DEF ParseParams, SendError, Send

LEMMA StoreParamsStep == DInv /\ StoreParams => DInv'
<1> SUFFICES ASSUME DInv, StoreParams PROVE DInv'
  OBVIOUS
<1>1. /\ pc = "store" /\ UNCHANGED <<resources, request, params, seen, calls, returned>>
      /\ paramsBytes' = StoreGrowing(params)
      /\ \/ paramsBytes' = NoBytes /\ pc' = "sent"
         \/ /\ paramsBytes' # NoBytes
            /\ pc' = IF resources[request.resource].board THEN "authorize" ELSE "call"
  BY DEF StoreParams, SendError, Send
<1>2. Registry /\ Asked /\ Untouched /\ Right(request, params)
  BY <1>1 DEF DInv, Progress
<1>3. Registry' /\ Asked' /\ Untouched' /\ Right(request', params')
  BY <1>1, <1>2, RegistryKept DEF Untouched
<1>4. params \in Parameters
  BY <1>2 DEF Right
<1>5. StoreGrowing(params) = IF Fits(params) THEN Packed(params) ELSE NoBytes
  BY <1>4, StoredGrowing DEF Fits
<1>6. Packed(params) # NoBytes
  BY <1>4, PackedParts
<1>7. CASE pc' = "sent"
  <2>1. ~ Fits(params)
    BY <1>1, <1>5, <1>6, <1>7
  <2>2. ~ Acceptable(request', params')
    BY <1>1, <2>1 DEF Acceptable
  <2>3. QED BY <1>3, <1>7, <2>2 DEF DInv, Progress
<1>8. CASE paramsBytes' # NoBytes
  <2>1. Fits(params) /\ paramsBytes' = Packed(params)
    BY <1>1, <1>5, <1>8
  <2>2. Given'
    BY <1>1, <1>2, <2>1 DEF Given
  <2>3. resources[request.resource].board = Declared[request.resource].board
        /\ Declared[request.resource].board \in BOOLEAN
    BY <1>2, AskedSpecs, DeclaredType DEF Asked, WellFormed
  <2>4. CASE Declared[request.resource].board
    <3>1. pc' = "authorize"
      BY <1>1, <1>8, <2>3, <2>4
    <3>2. Declared[request'.resource].board
      BY <1>1, <2>4
    <3>3. QED BY <1>3, <2>2, <3>1, <3>2 DEF DInv, Progress
  <2>5. CASE ~ Declared[request.resource].board
    <3>1. pc' = "call"
      BY <1>1, <1>8, <2>3, <2>5
    <3>2. Admitted(request')
      BY <1>1, <2>5 DEF Admitted
    <3>3. QED BY <1>3, <2>2, <3>1, <3>2 DEF DInv, Progress
  <2>6. QED BY <2>4, <2>5
<1>9. QED BY <1>1, <1>7, <1>8

LEMMA AuthorizeStep == DInv /\ Authorize => DInv'
<1> SUFFICES ASSUME DInv, Authorize PROVE DInv'
  OBVIOUS
<1>1. /\ pc = "authorize"
      /\ UNCHANGED <<resources, request, params, paramsBytes, seen, calls, returned>>
      /\ \/ (~ request.authorized \/ ~ request.known) /\ pc' = "sent"
         \/ request.authorized /\ request.known /\ pc' = "call"
  BY DEF Authorize, SendError, Send
<1>2. Registry /\ Asked /\ Untouched /\ Given /\ Declared[request.resource].board
  BY <1>1 DEF DInv, Progress
<1>3. Registry' /\ Asked' /\ Untouched' /\ Given'
  BY <1>1, <1>2, RegistryKept DEF Untouched, Given
<1>4. CASE (~ request.authorized \/ ~ request.known) /\ pc' = "sent"
  <2>1. ~ Admitted(request')
    BY <1>1, <1>2, <1>4 DEF Admitted
  <2>2. QED BY <1>3, <1>4, <2>1 DEF DInv, Progress, Acceptable
<1>5. CASE request.authorized /\ request.known /\ pc' = "call"
  <2>1. Admitted(request')
    BY <1>1, <1>5 DEF Admitted
  <2>2. QED BY <1>3, <1>5, <2>1 DEF DInv, Progress
<1>6. QED BY <1>1, <1>4, <1>5

LEMMA CallHandlerStep == DInv /\ CallHandler => DInv'
<1> SUFFICES ASSUME DInv, CallHandler PROVE DInv'
  OBVIOUS
<1> DEFINE loaded == Load(paramsBytes)
           readable == loaded.ok /\ loaded.value.type = "map"
<1>1. /\ pc = "call" /\ UNCHANGED <<resources, request, params, paramsBytes, returned>>
      /\ seen' = IF readable THEN loaded.value ELSE seen
      /\ calls' = IF readable THEN calls + 1 ELSE calls
      /\ pc' = IF readable THEN "handler" ELSE "unwrap"
  BY DEF CallHandler
<1>2. Registry /\ Asked /\ Untouched /\ Given /\ Admitted(request)
  BY <1>1 DEF DInv, Progress
<1>3. params \in Parameters /\ params.type = "map" /\ Normal(params) = params
  BY <1>2 DEF Given, Right
<1>4. loaded = Read(params, 1 + Len(Bytes(params)))
  BY <1>2, <1>3, PackedLoads DEF Given
<1>5. loaded.ok = TRUE /\ loaded.value = params
  <2> HIDE DEF loaded
  <2>1. QED BY <1>4 DEF Read
<1> HIDE DEF loaded
<1>6. seen' = params /\ calls' = calls + 1 /\ pc' = "handler"
  BY <1>1, <1>3, <1>5
<1>7. Registry' /\ Asked'
  BY <1>1, <1>2, RegistryKept
<1>8. Called'
  BY <1>1, <1>2, <1>6 DEF Called, Given, Untouched
<1>9. returned' = None
  BY <1>1, <1>2 DEF Untouched
<1>10. QED BY <1>6, <1>7, <1>8, <1>9 DEF DInv, Progress

LEMMA HandlerReturnsStep == DInv /\ HandlerReturns => DInv'
<1> SUFFICES ASSUME DInv, HandlerReturns PROVE DInv'
  OBVIOUS
<1>1. /\ pc = "handler" /\ pc' = "reply" /\ returned' \in Returnable
      /\ UNCHANGED <<resources, request, params, paramsBytes, seen, calls>>
  BY DEF HandlerReturns, Returnable
<1>2. Registry /\ Asked /\ Called
  BY <1>1 DEF DInv, Progress
<1>3. Registry' /\ Asked' /\ Called'
  BY <1>1, <1>2, RegistryKept DEF Called, Given
<1>4. QED BY <1>1, <1>3 DEF DInv, Progress

LEMMA ReplyStep == DInv /\ Reply => DInv'
<1> SUFFICES ASSUME DInv, Reply PROVE DInv'
  OBVIOUS
<1>1. /\ pc = "reply" /\ pc' = "unwrap"
      /\ out' = Store(HandlerToWire(returned), OutputCapacity)
      /\ UNCHANGED <<resources, request, params, paramsBytes, seen, calls, returned>>
  BY DEF Reply
<1>2. Registry /\ Asked /\ Called /\ returned \in Returnable
  BY <1>1 DEF DInv, Progress
<1>3. Registry' /\ Asked' /\ Called' /\ returned' \in Returnable
  BY <1>1, <1>2, RegistryKept DEF Called, Given, Returnable
<1>4. out' = Store(HandlerToWire(returned'), OutputCapacity)
  BY <1>1
<1>5. QED BY <1>1, <1>3, <1>4 DEF DInv, Progress

(* What the host makes of the bytes of a result.                            *)
LEMMA Unwrapped ==
    ASSUME NEW result \in Returnable, NEW bytes,
           bytes = Store(HandlerToWire(result), OutputCapacity)
    PROVE  LET envelope == Load(bytes)
               m == envelope.value.value
           IN  \/ envelope.ok = FALSE /\ HeaderSize + Len(Bytes(HandlerToWire(result))) > OutputCapacity
               \/ /\ envelope.ok = TRUE
                  /\ ~ (HeaderSize + Len(Bytes(HandlerToWire(result))) > OutputCapacity)
                  /\ m[Key.ok].value = result.ok /\ result.ok \in BOOLEAN
                  /\ result.ok => m[Key.body] = Normal(Map(result.body))
                  /\ ~ result.ok => /\ m[Key.code].value = result.code
                                    /\ m[Key.message] = Text(result.message)
<1> DEFINE p == HandlerToWire(result)
           size == HeaderSize + Len(Bytes(p))
           envelope == Load(bytes)
           m == Normal(p).value
<1>1. /\ p \in Parameters /\ m[Key.ok].value = result.ok /\ result.ok \in BOOLEAN
      /\ result.ok => m[Key.body] = Normal(Map(result.body))
      /\ ~ result.ok => /\ m[Key.code].value = result.code
                        /\ m[Key.message] = Text(result.message)
  BY HandlerBack
<1> HIDE DEF p
<1>2. size \in Nat /\ OutputCapacity \in Nat
  BY <1>1, PackedParts, CapacitiesAssumption DEF HeaderSize
<1>3. bytes = IF size <= OutputCapacity THEN Packed(p) ELSE NoBytes
  BY <1>1, <1>2, Stored DEF p
<1>4. CASE size <= OutputCapacity
  <2>1. envelope = Read(Normal(p), 1 + Len(Bytes(p)))
    BY <1>1, <1>3, <1>4, PackedLoads
  <2>2. envelope.ok = TRUE /\ envelope.value = Normal(p)
    <3> HIDE DEF envelope
    <3>1. QED BY <2>1 DEF Read
  <2>3. ~ (size > OutputCapacity)
    <3> HIDE DEF size
    <3>1. QED BY <1>2, <1>4
  <2> HIDE DEF envelope
  <2>4. QED BY <1>1, <2>2, <2>3 DEF envelope, p
<1>5. CASE ~ (size <= OutputCapacity)
  <2>1. envelope.ok = FALSE
    BY <1>3, <1>5, NothingLoads
  <2>2. size > OutputCapacity
    <3> HIDE DEF size
    <3>1. QED BY <1>2, <1>5
  <2> HIDE DEF envelope
  <2>3. QED BY <2>1, <2>2 DEF envelope, p
<1>6. QED BY <1>4, <1>5

LEMMA UnwrapStep == DInv /\ Unwrap => DInv'
<1> SUFFICES ASSUME DInv, Unwrap PROVE DInv'
  OBVIOUS
<1> DEFINE envelope == Load(out)
           m == envelope.value.value
           size == HeaderSize + Len(Bytes(HandlerToWire(returned)))
<1>1. /\ pc = "unwrap" /\ pc' = "sent"
      /\ UNCHANGED <<resources, request, params, paramsBytes, seen, calls, returned>>
      /\ \/ ~ envelope.ok /\ answer' = [code |-> InternalServerError, content |-> Text(<<>>)]
         \/ envelope.ok /\ m[Key.ok].value /\ answer' = [code |-> OK, content |-> m[Key.body]]
         \/ /\ envelope.ok /\ ~ m[Key.ok].value
            /\ answer' = [code |-> m[Key.code].value, content |-> m[Key.message]]
  BY DEF Unwrap, SendError, Send
<1>2. /\ Registry /\ Asked /\ Called /\ returned \in Returnable
      /\ out = Store(HandlerToWire(returned), OutputCapacity)
  BY <1>1 DEF DInv, Progress
<1>3. Registry' /\ Asked' /\ Called' /\ returned' \in Returnable
  BY <1>1, <1>2, RegistryKept DEF Called, Given, Returnable
<1>4. \/ envelope.ok = FALSE /\ size > OutputCapacity
      \/ /\ envelope.ok = TRUE /\ ~ (size > OutputCapacity)
         /\ m[Key.ok].value = returned.ok /\ returned.ok \in BOOLEAN
         /\ returned.ok => m[Key.body] = Normal(Map(returned.body))
         /\ ~ returned.ok => m[Key.code].value = returned.code /\ m[Key.message] = Text(returned.message)
  BY <1>2, Unwrapped
<1> HIDE DEF m, envelope, size
<1>5. Whole(returned, answer')
  <2>1. CASE envelope.ok = FALSE /\ size > OutputCapacity
    <3>1. answer' = [code |-> InternalServerError, content |-> Text(<<>>)]
      BY <1>1, <2>1
    <3>2. answer'.code = InternalServerError /\ answer'.content = Text(<<>>)
      BY <3>1
    <3>3. QED BY <2>1, <3>2 DEF Whole, size
  <2>2. CASE /\ envelope.ok = TRUE /\ ~ (size > OutputCapacity)
             /\ m[Key.ok].value = returned.ok /\ returned.ok \in BOOLEAN
             /\ returned.ok => m[Key.body] = Normal(Map(returned.body))
             /\ ~ returned.ok => m[Key.code].value = returned.code /\ m[Key.message] = Text(returned.message)
    <3>1. CASE returned.ok = TRUE
      <4>1. answer' = [code |-> OK, content |-> Normal(Map(returned.body))]
        BY <1>1, <2>2, <3>1
      <4>2. QED BY <2>2, <3>1, <4>1 DEF Whole, size
    <3>2. CASE returned.ok = FALSE
      <4>1. answer' = [code |-> returned.code, content |-> Text(returned.message)]
        BY <1>1, <2>2, <3>2
      <4>2. QED BY <2>2, <3>2, <4>1 DEF Whole, size
    <3>3. QED BY <2>2, <3>1, <3>2
  <2>3. QED BY <1>4, <2>1, <2>2
<1>6. Whole(returned', answer')
  BY <1>1, <1>5
<1>7. QED BY <1>1, <1>3, <1>6 DEF DInv, Progress

LEMMA DInvKept == DInv /\ UNCHANGED vars => DInv'
BY DEF DInv, Registry, Progress, Asked, Untouched, Given, Called, Returnable, vars

(* At every step of dispatch(), what is known of the request, its parameters, *)
(* its bytes and its result.                                               *)
THEOREM DispatchInvariant == Spec => []DInv
<1>1. DInv /\ [Next]_vars => DInv'
  BY AddResourceStep, PublishStep, TakeRequestStep, ParseParamsStep, StoreParamsStep,
     AuthorizeStep, CallHandlerStep, HandlerReturnsStep, ReplyStep, UnwrapStep, DInvKept
     DEF Next
<1>2. QED BY DInvInit, <1>1, PTL DEF Spec

LEMMA ExpectedIs == \A i : Expected(i) = ExpectedOf(request, i)
BY DEF Expected, ExpectedOf

(* A handler is called with the parameters that its plugin declared, each  *)
(* as it parses or with its default: parse_params, the resource's way to the *)
(* host and the parameters' way to the plugin change none of them.         *)
THEOREM TheHandlerSeesItsParameters == Spec => []HandlerSeesItsParameters
<1>1. DInv => HandlerSeesItsParameters
  <2> SUFFICES ASSUME DInv, seen # None
               PROVE  LET specs == Declared[request.resource].params IN
                      /\ Keys(seen.value) = {specs[i].name : i \in DOMAIN specs}
                      /\ \A i \in DOMAIN specs : {seen.value[specs[i].name]} = Expected(i)
    BY DEF HandlerSeesItsParameters
  <2>1. Called
    BY DEF DInv, Progress, Untouched
  <2>2. Right(request, seen)
    BY <2>1 DEF Called, Given
  <2>3. QED BY <2>2, ExpectedIs DEF Right
<1>2. QED BY DispatchInvariant, <1>1, PTL

(* What a handler returns reaches the client as it is; what does not fit the *)
(* output buffer is a 500, never a part.                                   *)
THEOREM TheAnswersAreWhole == Spec => []AnswersAreWhole
<1>1. DInv => AnswersAreWhole
  <2> SUFFICES ASSUME DInv, pc = "sent", returned # None PROVE AnswersAreWhole
    BY DEF AnswersAreWhole
  <2>1. Whole(returned, answer)
    BY DEF DInv, Progress, Untouched
  <2>2. QED BY <2>1 DEF Whole, AnswersAreWhole
<1>2. QED BY DispatchInvariant, <1>1, PTL

(* A handler runs once for each request that the host has no reason to     *)
(* refuse, and never for another.                                          *)
THEOREM HandlersRunOnceIfAtAll == Spec => []HandledOnceIfAtAll
<1>1. DInv => HandledOnceIfAtAll
  <2> SUFFICES ASSUME DInv, pc = "sent" PROVE calls = IF Acceptable(request, params) THEN 1 ELSE 0
    BY ExpectedIs DEF HandledOnceIfAtAll, Acceptable, Admitted, Fits
  <2>1. \/ Untouched /\ ~ Acceptable(request, params)
        \/ Called
    BY DEF DInv, Progress
  <2>2. ASSUME Called PROVE Acceptable(request, params)
    BY <2>2 DEF Called, Given, Acceptable, Right
  <2>3. QED BY <2>1, <2>2 DEF Untouched, Called
<1>2. QED BY DispatchInvariant, <1>1, PTL
=============================================================================

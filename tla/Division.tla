------------------------------ MODULE Division ------------------------------
(***************************************************************************)
(* Quotients and remainders, where the divisor is not a number.            *)
(***************************************************************************)
EXTENDS Integers, TLAPS

(* A multiple of m that is nearer to 0 than m is 0.                        *)
LEMMA SmallMultiple ==
  ASSUME NEW m \in Nat \ {0}, NEW d \in Int, m * d < m, -m < m * d
  PROVE  d = 0
<1>1. d >= 1 => m * d >= m
  OBVIOUS
<1>2. d <= -1 => m * d <= -m
  OBVIOUS
<1> QED BY <1>1, <1>2

(* What the solver knows of a remainder, and of a quotient.                *)
LEMMA ModRange ==
  ASSUME NEW n \in Nat, NEW m \in Nat \ {0}
  PROVE  n % m \in 0 .. m - 1
OBVIOUS

LEMMA DivMod ==
  ASSUME NEW n \in Nat, NEW m \in Nat \ {0}
  PROVE  n = m * (n \div m) + (n % m) /\ n \div m \in Int
OBVIOUS

(* There is one way to divide.                                             *)
LEMMA ModUnique ==
  ASSUME NEW a \in Nat, NEW m \in Nat \ {0}, NEW r \in 0 .. m - 1, NEW q \in Int,
         a = m * q + r
  PROVE  a % m = r
<1>1. a = m * (a \div m) + (a % m) /\ a \div m \in Int /\ a % m \in 0 .. m - 1
  BY DivMod, ModRange
<1>2. m * (q - (a \div m)) = (a % m) - r
  BY <1>1
<1>3. q - (a \div m) = 0
  BY <1>1, <1>2, SmallMultiple
<1> QED BY <1>1, <1>2, <1>3

(* Counting modulo m.                                                      *)
LEMMA ModSuccessor ==
  ASSUME NEW a \in Nat, NEW m \in Nat \ {0}
  PROVE  (a + 1) % m = IF (a % m) + 1 = m THEN 0 ELSE (a % m) + 1
<1> DEFINE q == a \div m
           r == a % m
<1>1. a = m * q + r /\ q \in Int /\ r \in 0 .. m - 1 /\ a + 1 \in Nat
  BY DivMod, ModRange
<1> HIDE DEF q, r
<1>2. CASE r + 1 = m
  <2>1. a + 1 = m * (q + 1) + 0 /\ q + 1 \in Int /\ 0 \in 0 .. m - 1
    BY <1>1, <1>2
  <2>2. (a + 1) % m = 0
    BY <2>1, <1>1, ModUnique
  <2> QED BY <2>2, <1>2 DEF r
<1>3. CASE r + 1 # m
  <2>1. a + 1 = m * q + (r + 1) /\ r + 1 \in 0 .. m - 1
    BY <1>1, <1>3
  <2>2. (a + 1) % m = r + 1
    BY <2>1, <1>1, ModUnique
  <2> QED BY <2>2, <1>3 DEF r
<1> QED BY <1>2, <1>3

(* Fewer than m consecutive numbers have different remainders.             *)
LEMMA ModInjective ==
  ASSUME NEW a \in Nat, NEW b \in Nat, NEW m \in Nat \ {0},
         a % m = b % m, a - b < m, b - a < m
  PROVE  a = b
<1>1. a = m * (a \div m) + (a % m) /\ a \div m \in Int /\ a % m \in 0 .. m - 1
  BY DivMod, ModRange
<1>2. b = m * (b \div m) + (b % m) /\ b \div m \in Int /\ b % m \in 0 .. m - 1
  BY DivMod, ModRange
<1>3. m * ((b \div m) - (a \div m)) = b - a
  BY <1>1, <1>2
<1>4. (b \div m) - (a \div m) = 0
  BY <1>1, <1>2, <1>3, SmallMultiple
<1> QED BY <1>3, <1>4

(* A counter modulo m may itself wrap at a multiple of m.                  *)
LEMMA ModWraps ==
  ASSUME NEW a \in Nat, NEW m \in Nat \ {0}, NEW R \in Nat \ {0}, R % m = 0, a < R
  PROVE  ((a + 1) % R) % m = (a + 1) % m
<1>1. CASE a + 1 = R
  <2>1. R = R * 1 + 0 /\ 0 \in 0 .. R - 1 /\ 0 = m * 0 + 0 /\ 0 \in 0 .. m - 1
    OBVIOUS
  <2>2. (a + 1) % R = 0 /\ 0 % m = 0
    BY <2>1, <1>1, ModUnique
  <2> QED BY <2>2, <1>1
<1>2. CASE a + 1 < R
  <2>1. a + 1 = R * 0 + (a + 1) /\ a + 1 \in 0 .. R - 1
    BY <1>2
  <2> QED BY <2>1, ModUnique
<1> QED BY <1>1, <1>2

(* So is the quotient.                                                     *)
LEMMA DivUnique ==
  ASSUME NEW a \in Nat, NEW m \in Nat \ {0}, NEW r \in 0 .. m - 1, NEW q \in Int,
         a = m * q + r
  PROVE  a \div m = q
<1>1. a = m * (a \div m) + (a % m) /\ a \div m \in Int /\ a % m \in 0 .. m - 1
  BY DivMod, ModRange
<1>2. m * (q - (a \div m)) = (a % m) - r
  BY <1>1
<1>3. q - (a \div m) = 0
  BY <1>1, <1>2, SmallMultiple
<1> QED BY <1>1, <1>3

(* A product is monotonic in its second factor.                            *)
LEMMA MultipleMonotonic ==
  ASSUME NEW m \in Nat, NEW a \in Int, NEW b \in Int, a <= b
  PROVE  m * a <= m * b
<1>1. b - a \in Nat
  OBVIOUS
<1>2. m * (b - a) >= 0
  BY <1>1
<1> QED BY <1>2

(* The numbers below m * n are n blocks of m.                              *)
LEMMA DivRange ==
  ASSUME NEW n \in Nat, NEW m \in Nat \ {0}, NEW i \in 0 .. m * n - 1
  PROVE  i \div m \in 0 .. n - 1
<1> DEFINE d == i \div m
<1>0. m * n \in Int /\ i \in Nat
  OBVIOUS
<1>1. i = m * d + (i % m) /\ d \in Int /\ i % m \in 0 .. m - 1
  BY <1>0, DivMod, ModRange
<1> HIDE DEF d
<1>2. d < n
  <2>1. SUFFICES ASSUME n <= d
                 PROVE  FALSE
    BY <1>1
  <2>2. m * n <= m * d
    BY <1>1, <2>1, MultipleMonotonic
  <2> QED BY <1>0, <1>1, <2>2
<1>3. d >= 0
  <2>1. SUFFICES ASSUME d <= -1
                 PROVE  FALSE
    BY <1>1
  <2>2. m * d <= m * (-1)
    BY <1>1, <2>1, MultipleMonotonic
  <2> QED BY <1>0, <1>1, <2>2
<1> QED BY <1>1, <1>2, <1>3 DEF d

(* Multiples of m keep the order, and dividing gives the factor back.      *)
LEMMA MultipleRange ==
  ASSUME NEW n \in Nat, NEW m \in Nat \ {0}, NEW b \in 0 .. n - 1
  PROVE  m * b \in 0 .. m * n - 1 /\ (m * b) \div m = b
<1>1. m * (b + 1) <= m * n
  BY MultipleMonotonic
<1>2. m * b \in Nat /\ m * b = m * b + 0 /\ 0 \in 0 .. m - 1 /\ m * n \in Nat
  OBVIOUS
<1>3. m * b <= m * n - 1
  BY <1>1, <1>2
<1> QED BY <1>2, <1>3, DivUnique

(* The quotient grows when the remainder starts again.                     *)
LEMMA DivSuccessor ==
  ASSUME NEW a \in Nat, NEW m \in Nat \ {0}
  PROVE  (a + 1) \div m = IF (a % m) + 1 = m THEN (a \div m) + 1 ELSE a \div m
<1> DEFINE q == a \div m
           r == a % m
<1>1. a = m * q + r /\ q \in Int /\ r \in 0 .. m - 1 /\ a + 1 \in Nat
  BY DivMod, ModRange
<1> HIDE DEF q, r
<1>2. CASE r + 1 = m
  <2>1. a + 1 = m * (q + 1) + 0 /\ q + 1 \in Int /\ 0 \in 0 .. m - 1
    BY <1>1, <1>2
  <2>2. (a + 1) \div m = q + 1
    BY <2>1, <1>1, DivUnique
  <2> QED BY <2>2, <1>2 DEF q, r
<1>3. CASE r + 1 # m
  <2>1. a + 1 = m * q + (r + 1) /\ r + 1 \in 0 .. m - 1
    BY <1>1, <1>3
  <2>2. (a + 1) \div m = q
    BY <2>1, <1>1, DivUnique
  <2> QED BY <2>2, <1>3 DEF q, r
<1> QED BY <1>2, <1>3

(* Rounding n up to whole blocks of m: each of the n lies in one of them.  *)
LEMMA RoundedUp ==
  ASSUME NEW n \in Nat, NEW m \in Nat \ {0}, NEW i \in 0 .. n - 1
  PROVE  /\ (n + m - 1) \div m \in Nat
         /\ i \div m \in 0 .. ((n + m - 1) \div m) - 1
<1> DEFINE b == (n + m - 1) \div m
<1>1. /\ n + m - 1 \in Nat
      /\ n + m - 1 = m * b + ((n + m - 1) % m) /\ b \in Int
      /\ (n + m - 1) % m \in 0 .. m - 1
  <2>1. n + m - 1 \in Nat
    OBVIOUS
  <2> QED BY <2>1, DivMod, ModRange
<1> HIDE DEF b
<1>2. n <= m * b
  BY <1>1
<1>3. b \in Nat
  <2>1. SUFFICES ASSUME b <= -1
                 PROVE  FALSE
    BY <1>1
  <2>2. m * b <= m * (-1)
    BY <1>1, <2>1, MultipleMonotonic
  <2> QED BY <1>1, <1>2, <2>1, <2>2
<1>4. i \in 0 .. m * b - 1
  BY <1>2, <1>3
<1> QED BY <1>3, <1>4, DivRange DEF b
=============================================================================

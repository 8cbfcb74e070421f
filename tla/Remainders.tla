----------------------------- MODULE Remainders ------------------------------
(* Facts about remainders, for the indices of rings and unsigned counters. *)
EXTENDS Naturals, TLAPS

LEMMA ModSmall == ASSUME NEW m \in Nat \ {0}, NEW x \in 0 .. m - 1 PROVE x % m = x
  OBVIOUS

LEMMA ModOnce ==
    ASSUME NEW m \in Nat \ {0}, NEW x \in Nat, m <= x, x < 2 * m
    PROVE  x % m = x - m
  OBVIOUS

LEMMA ModRange == ASSUME NEW m \in Nat \ {0}, NEW x \in Nat PROVE x % m \in 0 .. m - 1
  OBVIOUS

LEMMA ModParts ==
    ASSUME NEW m \in Nat \ {0}, NEW x \in Nat
    PROVE  x = m * (x \div m) + (x % m) /\ x \div m \in Nat
  OBVIOUS

LEMMA ModUnique ==
    ASSUME NEW m \in Nat \ {0}, NEW q \in Nat, NEW rem \in 0 .. m - 1
    PROVE  (m * q + rem) % m = rem
  OBVIOUS

LEMMA ModShift ==
    ASSUME NEW m \in Nat \ {0}, NEW x \in Nat, NEW k \in Nat
    PROVE  (x + m * k) % m = x % m
<1> DEFINE q == x \div m
           rem == x % m
<1>1. x = m * q + rem /\ q \in Nat /\ rem \in 0 .. m - 1
  BY ModParts, ModRange
<1> HIDE DEF q, rem
<1>2. x + m * k = m * (q + k) + rem /\ q + k \in Nat
  BY <1>1
<1>3. (m * (q + k) + rem) % m = rem
  BY <1>1, <1>2, ModUnique
<1> QED BY <1>2, <1>3 DEF rem

LEMMA ModApart ==
    ASSUME NEW m \in Nat \ {0}, NEW x \in Nat, NEW d \in 1 .. m - 1
    PROVE  (x + d) % m # x % m
<1> DEFINE q == x \div m
           rem == x % m
<1>1. x = m * q + rem /\ q \in Nat /\ rem \in 0 .. m - 1
  BY ModParts, ModRange
<1> HIDE DEF q, rem
<1>2. CASE rem + d < m
  <2>1. x + d = m * q + (rem + d) /\ rem + d \in 0 .. m - 1
    BY <1>1, <1>2
  <2>2. (m * q + (rem + d)) % m = rem + d
    BY <1>1, <2>1, ModUnique
  <2> QED BY <1>1, <2>1, <2>2 DEF rem
<1>3. CASE rem + d >= m
  <2>1. x + d = m * (q + 1) + (rem + d - m) /\ rem + d - m \in 0 .. m - 1 /\ q + 1 \in Nat
    BY <1>1, <1>3
  <2>2. (m * (q + 1) + (rem + d - m)) % m = rem + d - m
    BY <2>1, ModUnique
  <2> QED BY <1>1, <2>1, <2>2 DEF rem
<1> QED BY <1>1, <1>2, <1>3
=============================================================================

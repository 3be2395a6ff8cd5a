---------------------------- MODULE DecimalProofs ----------------------------
(***************************************************************************)
(* sdk.Dec: what is computed from natural numbers is natural, for any      *)
(* precision.                                                              *)
(***************************************************************************)
EXTENDS Decimal, TLAPS

LEMMA DivNat ==
    ASSUME NEW x \in Nat, NEW y \in Nat \ {0}
    PROVE  /\ x \div y \in Nat /\ x % y \in 0..(y - 1)
           /\ x = y * (x \div y) + (x % y)
OBVIOUS

LEMMA MulNat ==
    ASSUME NEW x \in Nat, NEW y \in Nat
    PROVE  x * y \in Nat
OBVIOUS

LEMMA RoundNat ==
    ASSUME NEW x \in Nat
    PROVE  RoundHalfEven(x) \in Nat
<1>1. x \div Precision \in Nat /\ x % Precision \in Nat
  BY PrecisionAssumption, DivNat
<1>2. (x \div Precision) % 2 \in Nat
  BY <1>1
<1>3. QED
  BY <1>1, <1>2, PrecisionAssumption DEF RoundHalfEven

LEMMA TruncateNat ==
    ASSUME NEW x \in Nat
    PROVE  TruncateInt(x) \in Nat
BY PrecisionAssumption, DivNat DEF TruncateInt

LEMMA CeilNat ==
    ASSUME NEW x \in Nat
    PROVE  CeilInt(x) \in Nat
BY PrecisionAssumption, DivNat, x + Precision - 1 \in Nat DEF CeilInt

LEMMA QuoNat ==
    ASSUME NEW x \in Nat, NEW y \in Nat \ {0}
    PROVE  DecQuo(x, y) \in Nat /\ QuoTruncate(x, y) \in Nat /\ QuoRoundUp(x, y) \in Nat
<1>1. x * Precision * Precision \in Nat
  BY PrecisionAssumption, MulNat
<1>2. (x * Precision * Precision) \div y \in Nat
  BY <1>1, DivNat
<1>3. QED
  BY <1>2, RoundNat, TruncateNat, CeilNat DEF DecQuo, QuoTruncate, QuoRoundUp

\* A fee of at most the whole is at most the amount, whatever the rounding.
LEMMA FeeWithin ==
    ASSUME NEW amount \in Nat, NEW rate \in 0..Precision
    PROVE  RoundHalfEven(amount * rate) \in 0..amount
<1> DEFINE x == amount * rate
           q == x \div Precision
           r == x % Precision
<1> SUFFICES RoundHalfEven(x) \in 0..amount
  OBVIOUS
<1>1. x \in Nat /\ x <= Precision * amount /\ Precision \in Nat \ {0} /\ rate \in Nat
  BY PrecisionAssumption
<1> HIDE DEF x
<1>2. q \in Nat /\ r \in 0..(Precision - 1) /\ x = Precision * q + r
  BY <1>1, DivNat, Zenon
<1>3. /\ RoundHalfEven(x) \in Nat
      /\ \/ 2 * r < Precision /\ RoundHalfEven(x) = q
         \/ 2 * r > Precision /\ RoundHalfEven(x) = q + 1
         \/ 2 * r = Precision /\ RoundHalfEven(x) = q + (q % 2)
  <2>1. RoundHalfEven(x) \in Nat
    BY <1>1, RoundNat
  <2>2. CASE 2 * r < Precision
    BY <2>1, <2>2 DEF RoundHalfEven
  <2>3. CASE 2 * r > Precision
    BY <1>1, <1>2, <2>1, <2>3 DEF RoundHalfEven
  <2>4. CASE 2 * r = Precision
    BY <1>1, <1>2, <2>1, <2>4 DEF RoundHalfEven
  <2>5. QED
    BY <1>1, <1>2, <2>2, <2>3, <2>4
<1> HIDE DEF q, r
<1>4. q <= amount
  <2>1. SUFFICES ASSUME q >= amount + 1 PROVE FALSE
    BY <1>2
  <2>2. Precision * q >= Precision * (amount + 1)
    BY <1>1, <1>2, <2>1
  <2>3. QED
    BY <1>1, <1>2, <2>2
<1>5. CASE q < amount
  <2>1. q % 2 \in 0..1
    BY <1>2
  <2>2. QED
    BY <1>1, <1>2, <1>3, <1>5, <2>1
<1>6. CASE q = amount
  <2>1. r = 0
    BY <1>1, <1>2, <1>6
  <2>2. QED
    BY <1>1, <1>2, <1>3, <1>6, <2>1
<1>7. QED
  BY <1>2, <1>4, <1>5, <1>6
=============================================================================

------------------------------- MODULE Decimal -------------------------------
(***************************************************************************)
(* sdk.Dec: a decimal is an integer in units of 1/Precision.  The values   *)
(* are not negative.  Products and quotients are rounded as the SDK does,  *)
(* half to even unless the name says otherwise.                            *)
(***************************************************************************)
EXTENDS Integers

CONSTANT Precision    \* 10^18

ASSUME PrecisionAssumption == Precision \in Nat \ {0}

\* Dec.RoundInt, and the rounding inside Mul and Quo.
RoundHalfEven(x) ==
    LET q == x \div Precision
        r == x % Precision
    IN  CASE 2 * r < Precision -> q
          [] 2 * r > Precision -> q + 1
          [] OTHER -> q + (q % 2)

TruncateInt(x) == x \div Precision
CeilInt(x) == (x + Precision - 1) \div Precision

DecMul(x, y) == RoundHalfEven(x * y)
DecQuo(x, y) == RoundHalfEven((x * Precision * Precision) \div y)
QuoTruncate(x, y) == TruncateInt((x * Precision * Precision) \div y)
QuoRoundUp(x, y) == CeilInt((x * Precision * Precision) \div y)
=============================================================================

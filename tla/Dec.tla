-------------------------------- MODULE Dec --------------------------------
(***************************************************************************)
(* Fixed-point decimals, modelled from how x/auction uses the Cosmos SDK   *)
(* type sdk.Dec (a library, not part of the repository).  A decimal is the *)
(* integer count of its smallest fraction 1/Unit; the SDK has Unit =       *)
(* 10^18, the models use a coarser one.  Products and quotients are        *)
(* rounded half to even, exactly as the library does: the rounding is what *)
(* several properties of the auction are about.  Only non-negative         *)
(* decimals are ever rounded by the modules that use these operators.      *)
(***************************************************************************)
EXTENDS Integers

CONSTANTS Unit,       \* smallest fractions per whole (10^18 in the SDK)
          Exponents   \* the decimal exponents a token may have

ASSUME UnitAssumption == Unit \in Nat \ {0}
ASSUME ExponentAssumption ==
    Exponents \subseteq 0..18 /\ \A e \in Exponents : 10^e \in Nat \ {0}

-----------------------------------------------------------------------------
\* Drops the extra Unit of a product and rounds half to even.
ChopPrecisionAndRound(x) ==
    LET q == x \div Unit
        r == x % Unit
    IN  IF 2 * r > Unit \/ (2 * r = Unit /\ q % 2 = 1) THEN q + 1 ELSE q

NewDec(n) == n * Unit
Mul(a, b) == ChopPrecisionAndRound(a * b)
Quo(a, b) == ChopPrecisionAndRound((a * Unit * Unit) \div b)
TruncateInt(a) == a \div Unit
CeilInt(a) == (a + Unit - 1) \div Unit      \* Ceil().TruncateInt64()
TenToThe(e) == NewDec(10^e)                 \* 10.0.Power(e)
=============================================================================

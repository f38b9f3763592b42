------------------------------ MODULE Amounts ------------------------------
(***************************************************************************)
(* Decimal amounts (packages/shared/src/amount.ts).  A decimal string      *)
(* without sign, exponent and leading zeros is its digits and the number   *)
(* of them after the point: "0.50" is [units |-> 50, scale |-> 2].         *)
(***************************************************************************)
EXTENDS Integers

CONSTANTS
    MaxIntegerDigits, MaxFractionalDigits,  \* MAX_INTEGER_DIGITS, MAX_FRACTIONAL_DIGITS
    MaxBaseUnits                            \* U128_MAX

ASSUME DigitsAssumption ==
    MaxIntegerDigits \in Nat \ {0} /\ MaxFractionalDigits \in Nat /\ MaxBaseUnits \in Nat

\* 10n ** BigInt(n)
TenTo[n \in Nat] == IF n = 0 THEN 1 ELSE 10 * TenTo[n - 1]

\* The amounts with at most n digits after the point, and those parse yields.
WithDigits(n)  == [units : Nat, scale : 0..n]
DecimalAmounts == WithDigits(MaxFractionalDigits)

Zero == [units |-> 0, scale |-> 0]

\* parse, isValidAmount: the length bounds.
Valid(a) ==
    /\ a.units \div TenTo[a.scale] < TenTo[MaxIntegerDigits]
    /\ a.scale <= MaxFractionalDigits

IsZero(a) == a.units = 0

rescale(a, scale) == a.units * TenTo[scale - a.scale]

CommonScale(a, b) == IF a.scale > b.scale THEN a.scale ELSE b.scale

\* Mutant: the units are compared as they are.
Exceeds_Unscaled(a, b) == a.units > b.units

\* compareAmounts(a, b) > 0
Exceeds(a, b) == rescale(a, CommonScale(a, b)) > rescale(b, CommonScale(a, b))

\* formatFixedPoint: zeros at the end of the fraction are dropped.
formatFixedPoint(units, scale) ==
    LET exact == {k \in 0..scale : units % TenTo[scale - k] = 0}
        least == CHOOSE k \in exact : \A j \in exact : k <= j
    IN  [units |-> units \div TenTo[scale - least], scale |-> least]

\* Mutant: the sum keeps the scale of the first amount.
addAmounts_FirstScale(a, b) == formatFixedPoint(a.units + b.units, a.scale)

addAmounts(a, b) ==
    formatFixedPoint(rescale(a, CommonScale(a, b)) + rescale(b, CommonScale(a, b)),
                     CommonScale(a, b))

\* toBaseUnits refuses an amount that is finer than the asset or beyond u128.
Encodes(a, decimals) == a.scale <= decimals /\ rescale(a, decimals) \in 0..MaxBaseUnits

toBaseUnits(a, decimals) == rescale(a, decimals)
=============================================================================

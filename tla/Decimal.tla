------------------------------- MODULE Decimal -------------------------------
(***************************************************************************)
(* Decimal::from_string, character by character, and Decimal::to_string.   *)
(* The text is whatever characters the steps pick; a digit is its number.  *)
(* The code has FractionDigits = 8, IntMax = 2^63 - 1, UintMax = 2^64 - 1.  *)
(***************************************************************************)
EXTENDS Integers

CONSTANTS
    FractionDigits,  \* digits after the decimal point that are kept
    Place,           \* Place[k]: what the k-th of them counts in raw units
    IntMax,          \* the largest int64_t; the smallest is - IntMax - 1
    UintMax          \* the largest uint64_t

Scale == Place[0]

\* uint64_t arithmetic, and the cast to int64_t.
Unsigned(x) == x % (UintMax + 1)
Signed(x)   == IF x > IntMax THEN x - (UintMax + 1) ELSE x

ASSUME PlaceAssumption ==
    /\ FractionDigits \in Nat
    /\ Place \in [0 .. FractionDigits -> Nat \ {0}]
    /\ Place[FractionDigits] = 1
    /\ \A k \in 1 .. FractionDigits : Place[k - 1] = 10 * Place[k]
ASSUME WidthAssumption ==
    /\ IntMax \in Nat /\ UintMax = 2 * IntMax + 1
    /\ Scale <= IntMax /\ 9 <= UintMax

VARIABLES
    phase,          \* the loop from_string is in, or how it ended
    negative,       \* a leading '-'
    whole,          \* the accumulated digits before the point
    sawWholeDigit,  \* saw_whole_digit
    fraction,       \* the accumulated digits behind the point
    fractionDigits, \* fraction_digits
    result,         \* the raw value returned
    exactWhole,     \* history: the number the digits before the point spell
    exactFraction   \* history: the digits behind the point, in raw units

locals  == <<negative, whole, sawWholeDigit, fraction, fractionDigits>>
history == <<exactWhole, exactFraction>>
decimalVars == <<phase, locals, result, history>>

Digits == 0 .. 9
Ended  == {"done", "invalid", "overflow"}

DecimalInit ==
    /\ phase = "sign"
    /\ negative = FALSE /\ sawWholeDigit = FALSE
    /\ whole = 0 /\ fraction = 0 /\ fractionDigits = 0 /\ result = 0
    /\ exactWhole = 0 /\ exactFraction = 0

Throw(what) == phase' = what /\ UNCHANGED <<locals, result, history>>

Sign(minus) ==
    /\ phase = "sign"
    /\ phase' = "whole"
    /\ negative' = minus
    /\ UNCHANGED <<whole, sawWholeDigit, fraction, fractionDigits, result, history>>

\* checked_accumulate.
Accumulates(digit) == whole <= (UintMax - digit) \div 10

WholeDigit(digit) ==
    /\ phase \in {"sign", "whole"}
    /\ exactWhole' = 10 * exactWhole + digit
    /\ \/ /\ Accumulates(digit)
          /\ phase' = "whole"
          /\ whole' = Unsigned(10 * whole + digit)
          /\ sawWholeDigit' = TRUE
          /\ UNCHANGED <<negative, fraction, fractionDigits>>
       \/ /\ ~ Accumulates(digit)
          /\ phase' = "overflow"
          /\ UNCHANGED locals
    /\ UNCHANGED <<result, exactFraction>>

\* The decimal point, of which at least one digit must follow.
Point ==
    /\ phase = "whole" /\ sawWholeDigit
    /\ phase' = "point"
    /\ UNCHANGED <<locals, result, history>>

FractionDigit(digit) ==
    /\ phase \in {"point", "fraction"}
    /\ fractionDigits < FractionDigits
    /\ phase' = "fraction"
    /\ fraction' = Unsigned(10 * fraction + digit)
    /\ fractionDigits' = fractionDigits + 1
    /\ exactFraction' = exactFraction + digit * Place[fractionDigits + 1]
    /\ UNCHANGED <<negative, whole, sawWholeDigit, result, exactWhole>>

\* Another character, a point without digits on both sides, one digit too many.
BadCharacter ==
    /\ phase \in {"sign", "whole", "point", "fraction"}
    /\ Throw("invalid")

\* Mutation of EndOfText: the digits that are not there are not counted.
EndOfTextUnpadded ==
    /\ phase \in {"whole", "fraction"} /\ sawWholeDigit
    /\ phase' = "range"
    /\ UNCHANGED <<locals, result, history>>

EndOfText ==
    /\ phase \in {"whole", "fraction"} /\ sawWholeDigit
    /\ phase' = "pad"
    /\ UNCHANGED <<locals, result, history>>

Pad ==
    /\ phase = "pad"
    /\ \/ /\ fractionDigits < FractionDigits
          /\ fraction' = Unsigned(10 * fraction)
          /\ fractionDigits' = fractionDigits + 1
          /\ UNCHANGED <<phase, negative, whole, sawWholeDigit>>
       \/ /\ fractionDigits = FractionDigits
          /\ phase' = "range"
          /\ UNCHANGED locals
    /\ UNCHANGED <<result, history>>

Limit == IF negative THEN IntMax + 1 ELSE IntMax

\* Mutation of InRange: the fraction is left out of the comparison.
InRangeWhole == whole <= Limit \div Scale

InRange == whole <= (Limit - fraction) \div Scale

\* IntMax + 1 has a branch of its own, which returns the smallest value.
Return ==
    /\ phase = "range"
    /\ InRange
    /\ phase' = "done"
    /\ LET magnitude == Unsigned(Unsigned(whole * Scale) + fraction) IN
         result' = IF ~ negative THEN Signed(magnitude)
                   ELSE IF magnitude = IntMax + 1 THEN - IntMax - 1
                   ELSE - Signed(magnitude)
    /\ UNCHANGED <<locals, history>>

OutOfRange ==
    /\ phase = "range"
    /\ ~ InRange
    /\ Throw("overflow")

\* Mutation of NextCall: the digits of the last call are still there.
NextCallKeepingFraction ==
    /\ phase \in Ended
    /\ phase' = "sign"
    /\ negative' = FALSE /\ sawWholeDigit' = FALSE
    /\ whole' = 0 /\ fractionDigits' = 0 /\ result' = 0
    /\ exactWhole' = 0 /\ exactFraction' = 0
    /\ UNCHANGED fraction

\* The next number is read; every call has its own locals.
NextCall ==
    /\ phase \in Ended
    /\ phase' = "sign"
    /\ negative' = FALSE /\ sawWholeDigit' = FALSE
    /\ whole' = 0 /\ fraction' = 0 /\ fractionDigits' = 0 /\ result' = 0
    /\ exactWhole' = 0 /\ exactFraction' = 0

DecimalNext ==
    \/ \E minus \in BOOLEAN : Sign(minus)
    \/ \E digit \in Digits : WholeDigit(digit) \/ FractionDigit(digit)
    \/ Point \/ BadCharacter \/ EndOfText \/ Pad \/ Return \/ OutOfRange \/ NextCall

DecimalSpec == DecimalInit /\ [][DecimalNext]_decimalVars

-----------------------------------------------------------------------------
\* to_string: the magnitude is computed without negating the smallest value.
Magnitude(raw) == IF raw < 0 THEN - (raw + 1) + 1 ELSE raw

Printed(raw) == [negative |-> raw < 0,
                 whole    |-> Magnitude(raw) \div Scale,
                 fraction |-> Magnitude(raw) % Scale]

-----------------------------------------------------------------------------
Exact == exactWhole * Scale + exactFraction

DecimalTypeOK ==
    /\ phase \in {"sign", "whole", "point", "fraction", "pad", "range"} \cup Ended
    /\ negative \in BOOLEAN /\ sawWholeDigit \in BOOLEAN
    /\ whole \in 0 .. UintMax
    /\ fraction \in 0 .. (Scale - 1)
    /\ fractionDigits \in 0 .. FractionDigits
    /\ result \in (- IntMax - 1) .. IntMax
    /\ exactWhole \in Nat /\ exactFraction \in Nat

\* from_string returns the number the text spells or throws: it never wraps,
\* neither while it accumulates nor at either end of int64_t, and throws
\* out_of_range only for what no int64_t of raw units can hold.
DecimalExact ==
    /\ phase = "done" => result = (IF negative THEN - Exact ELSE Exact)
    /\ phase = "overflow" => Exact > Limit

\* What is parsed is printed with the same digits: what is written to a NUMERIC
\* column with to_string is what was typed, the smallest value and -0 included.
PrintsAsWritten ==
    phase = "done" =>
        Printed(result) = [negative |-> negative /\ Exact > 0,
                           whole |-> exactWhole, fraction |-> exactFraction]
=============================================================================

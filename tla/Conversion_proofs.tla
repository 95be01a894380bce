-------------------------- MODULE Conversion_proofs --------------------------
(***************************************************************************)
(* The properties of Decimal and of Timestamp, for the widths of the code  *)
(* as for any others.                                                      *)
(*                                                                         *)
(* The loops of from_string are steps, so the induction over the text is   *)
(* the one over the steps: DecimalInv says what whole and fraction are     *)
(* worth at the character the loop has reached.  About a timestamp there   *)
(* is one fact to show: parse_timestamp's round trip succeeds exactly when *)
(* nothing has wrapped and to_time_t has nothing to round up.              *)
(***************************************************************************)
EXTENDS Decimal, Timestamp, TLAPS

-----------------------------------------------------------------------------
(* Arithmetic.                                                             *)

\* Division rounds down.
LEMMA DivisionBounds ==
    ASSUME NEW a \in Int, NEW b \in Nat \ {0}
    PROVE  /\ a \div b \in Int /\ a % b \in 0 .. (b - 1)
           /\ a = b * (a \div b) + (a % b)
BY SMT

\* Comparing with a quotient is comparing the product.
LEMMA QuotientBound ==
    ASSUME NEW a \in Int, NEW b \in Nat \ {0}, NEW w \in Int
    PROVE  w <= a \div b <=> w * b <= a
<1> DEFINE d == a \div b
           m == a % b
<1>1. d \in Int /\ m \in 0 .. (b - 1) /\ a = b * d + m
  BY DivisionBounds
<1>2. ASSUME w <= d PROVE w * b <= a
  <2>1. w * b <= d * b
    <3> HIDE DEF d
    <3> QED BY <1>1, <1>2, SMT
  <2> QED BY <1>1, <2>1
<1>3. ASSUME w >= d + 1 PROVE w * b > a
  <2>1. w * b >= (d + 1) * b
    <3> HIDE DEF d
    <3> QED BY <1>1, <1>3, SMT
  <2> QED BY <1>1, <2>1
<1> HIDE DEF d
<1> QED BY <1>1, <1>2, <1>3 DEF d

\* Quotient and remainder of what was put together from them.
LEMMA QuotientUnique ==
    ASSUME NEW w \in Int, NEW b \in Nat \ {0}, NEW f \in 0 .. (b - 1)
    PROVE  (w * b + f) \div b = w /\ (w * b + f) % b = f
<1> DEFINE a == w * b + f
<1>1. a \in Int
  OBVIOUS
<1>2. a \div b \in Int /\ a % b \in 0 .. (b - 1) /\ a = b * (a \div b) + (a % b)
  BY <1>1, DivisionBounds
<1>3. w <= a \div b
  BY <1>1, QuotientBound
<1>4. ~ (w + 1 <= a \div b)
  <2>1. w + 1 <= a \div b <=> (w + 1) * b <= a
    BY <1>1, QuotientBound
  <2> QED BY <2>1
<1>5. a \div b = w
  BY <1>2, <1>3, <1>4
<1> QED BY <1>2, <1>5

\* A product is at least as large as its factor.
LEMMA TimesGrows ==
    ASSUME NEW x \in Nat, NEW b \in Nat \ {0}
    PROVE  x * b \in Nat /\ x * b >= x
BY SMT

\* What the constants are, and what a place is worth next to the one behind it.
LEMMA PlaceFacts ==
    /\ FractionDigits \in Nat
    /\ \A k \in 0 .. FractionDigits : Place[k] \in Nat \ {0}
    /\ \A k \in 0 .. FractionDigits :
         k < FractionDigits => k + 1 \in 0 .. FractionDigits /\ Place[k] = 10 * Place[k + 1]
    /\ Place[FractionDigits] = 1
    /\ Scale \in Nat \ {0} /\ Scale = Place[0]
    /\ IntMax \in Nat /\ UintMax \in Nat /\ UintMax = 2 * IntMax + 1 /\ Scale <= IntMax
    /\ 9 <= UintMax
<1>1. ASSUME NEW k \in 0 .. FractionDigits, k < FractionDigits
      PROVE  k + 1 \in 0 .. FractionDigits /\ Place[k] = 10 * Place[k + 1]
  <2>1. k + 1 \in 1 .. FractionDigits
    BY <1>1, PlaceAssumption
  <2>2. Place[(k + 1) - 1] = 10 * Place[k + 1]
    BY <2>1, PlaceAssumption
  <2> QED BY <1>1, <2>1, <2>2, PlaceAssumption
<1> QED BY <1>1, PlaceAssumption, WidthAssumption DEF Scale

\* What fits is not wrapped.
LEMMA UnsignedSame ==
    ASSUME NEW x \in Nat, x <= UintMax
    PROVE  Unsigned(x) = x
BY PlaceFacts DEF Unsigned

-----------------------------------------------------------------------------
(* The invariant of from_string's loops.                                   *)

DecimalInv ==
    /\ DecimalTypeOK
    /\ phase /= "overflow" => exactWhole = whole
    /\ fraction * Place[fractionDigits] = exactFraction
    /\ exactFraction + Place[fractionDigits] <= Scale
    /\ phase \in {"range", "done"} => fractionDigits = FractionDigits
    /\ phase = "done" => Exact <= Limit /\ result = (IF negative THEN - Exact ELSE Exact)
    /\ phase = "overflow" => Exact > Limit

\* The first place is worth the whole scale, and nothing has been read.
LEMMA FirstPlace ==
    /\ 0 \in 0 .. FractionDigits /\ 0 \in 0 .. (Scale - 1) /\ 0 \in 0 .. UintMax
    /\ 0 * Place[0] = 0 /\ 0 + Place[0] <= Scale /\ 0 \in (- IntMax - 1) .. IntMax
<1>1. 0 \in 0 .. FractionDigits
  BY PlaceFacts
<1>2. Place[0] \in Nat
  BY <1>1, PlaceFacts
<1> QED BY <1>1, <1>2, PlaceFacts

LEMMA DecimalInitInv == DecimalInit => DecimalInv
<1> SUFFICES ASSUME DecimalInit PROVE DecimalInv
  OBVIOUS
<1>1. DecimalTypeOK
  BY FirstPlace DEF DecimalInit, DecimalTypeOK
<1>2. phase = "sign" /\ exactWhole = whole
      /\ fraction = 0 /\ fractionDigits = 0 /\ exactFraction = 0
  BY DEF DecimalInit
<1> QED BY <1>1, <1>2, FirstPlace DEF DecimalInv

LEMMA ExactFits ==
    ASSUME DecimalInv
    PROVE  exactFraction \in 0 .. (Scale - 1) /\ Exact \in Nat /\ Limit \in Nat
           /\ Limit <= UintMax
<1>1. Place[fractionDigits] \in Nat \ {0}
  BY PlaceFacts DEF DecimalInv, DecimalTypeOK
<1>2. exactFraction \in 0 .. (Scale - 1)
  BY <1>1, PlaceFacts DEF DecimalInv, DecimalTypeOK
<1>3. exactWhole * Scale \in Nat
  BY PlaceFacts DEF DecimalInv, DecimalTypeOK
<1> QED BY <1>2, <1>3, PlaceFacts DEF DecimalInv, DecimalTypeOK, Exact, Limit

\* checked_accumulate refuses exactly what does not fit.
LEMMA AccumulatesExactly ==
    ASSUME NEW digit \in Digits, whole \in 0 .. UintMax
    PROVE  Accumulates(digit) <=> 10 * whole + digit <= UintMax
BY PlaceFacts, SMT DEF Accumulates, Digits

LEMMA WholeDigitInv ==
    ASSUME DecimalInv, NEW digit \in Digits, WholeDigit(digit)
    PROVE  DecimalInv'
<1> USE DEF locals, history
<1>0. exactWhole' \in Nat /\ 10 * whole + digit \in Nat /\ Place[fractionDigits] \in Nat \ {0}
  BY PlaceFacts DEF DecimalInv, DecimalTypeOK, WholeDigit, Digits
<1>1. CASE Accumulates(digit)
  <2>1. 10 * whole + digit <= UintMax
    BY <1>1, AccumulatesExactly DEF DecimalInv, DecimalTypeOK
  <2>2. whole' = 10 * whole + digit
    BY <1>0, <1>1, <2>1, UnsignedSame DEF WholeDigit
  <2>3. phase \in {"sign", "whole"} /\ phase' = "whole" /\ whole' \in 0 .. UintMax
        /\ sawWholeDigit' = TRUE /\ UNCHANGED <<negative, fraction, fractionDigits>>
        /\ UNCHANGED <<result, exactFraction>>
    BY <1>0, <1>1, <2>1, <2>2, PlaceFacts DEF WholeDigit
  <2>4. exactWhole' = whole'
    BY <2>2, <2>3 DEF DecimalInv, WholeDigit
  <2> QED BY <1>0, <2>3, <2>4 DEF DecimalInv, DecimalTypeOK, Ended
<1>2. CASE ~ Accumulates(digit)
  <2>1. 10 * whole + digit > UintMax
    BY <1>0, <1>2, AccumulatesExactly, PlaceFacts DEF DecimalInv, DecimalTypeOK
  <2>2. exactWhole' = 10 * whole + digit
    BY DEF DecimalInv, WholeDigit
  <2>3. exactWhole' * Scale >= exactWhole'
    BY <1>0, PlaceFacts, TimesGrows
  <2>4. Exact' > Limit'
    BY <1>0, <1>2, <2>1, <2>2, <2>3, PlaceFacts
    DEF WholeDigit, Exact, Limit, DecimalInv, DecimalTypeOK
  <2> QED BY <1>0, <1>2, <2>4 DEF DecimalInv, DecimalTypeOK, WholeDigit, Ended
<1> QED BY <1>1, <1>2

\* A digit behind the point counts what its place is worth.
LEMMA FractionDigitInv ==
    ASSUME DecimalInv, NEW digit \in Digits, FractionDigit(digit)
    PROVE  DecimalInv'
<1> DEFINE k == fractionDigits
           p == Place[fractionDigits]
           n == Place[fractionDigits + 1]
<1>1. /\ k \in 0 .. FractionDigits /\ k + 1 \in 0 .. FractionDigits
      /\ p \in Nat /\ n \in Nat \ {0} /\ p = 10 * n
  BY PlaceFacts DEF DecimalInv, DecimalTypeOK, FractionDigit
<1>2. digit \in 0 .. 9 /\ fraction \in Nat /\ exactFraction \in Nat /\ Scale \in Nat
  BY PlaceFacts DEF DecimalInv, DecimalTypeOK, Digits
<1>3. fraction * p = exactFraction /\ exactFraction + p <= Scale
  BY DEF DecimalInv
<1> DEFINE f == 10 * fraction + digit
<1>4. f \in Nat /\ f * n = exactFraction + digit * n
  <2> HIDE DEF n, p
  <2>1. f * n = fraction * (10 * n) + digit * n
    BY <1>1, <1>2, SMT
  <2> QED BY <1>1, <1>2, <1>3, <2>1
<1>5. exactFraction + digit * n + n <= Scale
  <2> HIDE DEF n, p
  <2>1. digit * n + n <= 10 * n
    BY <1>1, <1>2, SMT
  <2>2. digit * n \in Nat
    BY <1>1, <1>2
  <2> QED BY <1>1, <1>2, <1>3, <2>1, <2>2
<1>6. f <= f * n
  <2> HIDE DEF n, f
  <2> QED BY <1>1, <1>4, SMT
<1>7. f <= Scale - 1
  <2> HIDE DEF f, n, p
  <2>1. digit * n \in Nat
    BY <1>1, <1>2
  <2> QED BY <1>1, <1>2, <1>4, <1>5, <1>6, <2>1
<1>8. fraction' = f
  BY <1>4, <1>7, PlaceFacts, UnsignedSame DEF FractionDigit
<1>9. fraction' * Place[fractionDigits'] = exactFraction'
      /\ exactFraction' + Place[fractionDigits'] <= Scale /\ exactFraction' \in Nat
  <2>1. fractionDigits' = k + 1 /\ exactFraction' = exactFraction + digit * n
    BY DEF FractionDigit
  <2>2. digit * n \in Nat
    <3> HIDE DEF n
    <3> QED BY <1>1, <1>2
  <2> QED BY <1>2, <1>4, <1>5, <1>8, <2>1, <2>2
<1> HIDE DEF f, n, p
<1> QED BY <1>1, <1>2, <1>4, <1>7, <1>8, <1>9, PlaceFacts
        DEF DecimalInv, DecimalTypeOK, FractionDigit, Ended, Exact, Limit, k

LEMMA PadInv ==
    ASSUME DecimalInv, Pad
    PROVE  DecimalInv'
<1> USE DEF locals, history
<1>1. CASE fractionDigits < FractionDigits /\ fraction' = Unsigned(10 * fraction)
           /\ fractionDigits' = fractionDigits + 1
           /\ UNCHANGED <<phase, negative, whole, sawWholeDigit>>
  <2> DEFINE p == Place[fractionDigits]
             n == Place[fractionDigits + 1]
  <2>1. /\ fractionDigits + 1 \in 0 .. FractionDigits
        /\ p \in Nat /\ n \in Nat \ {0} /\ p = 10 * n
    BY <1>1, PlaceFacts DEF DecimalInv, DecimalTypeOK
  <2>2. fraction \in Nat /\ exactFraction \in Nat /\ Scale \in Nat
        /\ fraction * p = exactFraction /\ exactFraction + p <= Scale
    BY PlaceFacts DEF DecimalInv, DecimalTypeOK
  <2>3. (10 * fraction) * n = exactFraction /\ 10 * fraction <= (10 * fraction) * n
        /\ exactFraction + n <= Scale
    <3> HIDE DEF n, p
    <3>1. (10 * fraction) * n = fraction * (10 * n)
      BY <2>1, <2>2, SMT
    <3>2. 10 * fraction <= (10 * fraction) * n
      <4> DEFINE f == 10 * fraction
      <4>1. f \in Nat
        BY <2>2
      <4> HIDE DEF f
      <4>2. f <= f * n
        BY <2>1, <4>1, SMT
      <4> QED BY <4>2 DEF f
    <3> QED BY <2>1, <2>2, <3>1, <3>2
  <2>4. 10 * fraction <= Scale - 1
    <3> HIDE DEF n, p
    <3> QED BY <2>1, <2>2, <2>3
  <2>5. fraction' = 10 * fraction
    BY <1>1, <2>2, <2>4, PlaceFacts, UnsignedSame
  <2> QED BY <1>1, <2>1, <2>2, <2>3, <2>4, <2>5 DEF DecimalInv, DecimalTypeOK, Pad, Exact, Limit, Ended
<1>2. CASE fractionDigits = FractionDigits /\ phase' = "range" /\ UNCHANGED locals
  BY <1>2 DEF DecimalInv, DecimalTypeOK, Pad, Exact, Limit, Ended
<1> QED BY <1>1, <1>2 DEF Pad

\* The comparison before the multiplication is the comparison after it, and
\* neither the product nor the sum wraps.
LEMMA RangeExact ==
    ASSUME DecimalInv, phase = "range"
    PROVE  /\ InRange <=> Exact <= Limit
           /\ fraction = exactFraction /\ whole = exactWhole
<1>1. fraction = exactFraction /\ whole = exactWhole
  BY PlaceFacts DEF DecimalInv, DecimalTypeOK
<1>2. Limit \in Nat /\ fraction \in Nat /\ whole \in Int /\ Scale \in Nat \ {0}
  BY PlaceFacts, ExactFits DEF DecimalInv, DecimalTypeOK
<1>3. InRange <=> whole * Scale <= Limit - fraction
  BY <1>2, QuotientBound DEF InRange
<1>4. whole * Scale \in Int
  BY <1>2
<1> QED BY <1>1, <1>2, <1>3, <1>4 DEF Exact

LEMMA ReturnInv ==
    ASSUME DecimalInv, Return
    PROVE  DecimalInv'
<1> USE DEF locals, history
<1>1. Exact <= Limit /\ fraction = exactFraction /\ whole = exactWhole
  BY RangeExact DEF Return
<1>2. Exact \in Nat /\ Limit \in Nat /\ Limit <= UintMax
  BY ExactFits
<1>3. whole * Scale \in Nat /\ whole * Scale <= Exact /\ whole * Scale + fraction = Exact
  BY <1>1, <1>2, PlaceFacts DEF Exact, DecimalInv, DecimalTypeOK
<1>4. Unsigned(Unsigned(whole * Scale) + fraction) = Exact
  <2>1. Unsigned(whole * Scale) = whole * Scale
    BY <1>1, <1>2, <1>3, PlaceFacts, UnsignedSame
  <2>2. Unsigned(Exact) = Exact
    BY <1>1, <1>2, PlaceFacts, UnsignedSame
  <2> QED BY <1>3, <2>1, <2>2
<1>5. result' = (IF negative THEN - Exact ELSE Exact) /\ result' \in (- IntMax - 1) .. IntMax
  <2>1. CASE ~ negative
    BY <1>1, <1>2, <1>4, <2>1, PlaceFacts DEF Return, Signed, Limit
  <2>2. CASE negative /\ Exact = IntMax + 1
    BY <1>2, <1>4, <2>2, PlaceFacts DEF Return
  <2>3. CASE negative /\ Exact /= IntMax + 1
    BY <1>1, <1>2, <1>4, <2>3, PlaceFacts DEF Return, Signed, Limit
  <2> QED BY <2>1, <2>2, <2>3 DEF DecimalInv, DecimalTypeOK
<1>6. Exact' = Exact /\ Limit' = Limit
  BY DEF Return, Exact, Limit
<1> QED BY <1>1, <1>5, <1>6 DEF DecimalInv, DecimalTypeOK, Return, Ended

LEMMA DecimalNextInv == DecimalInv /\ [DecimalNext]_decimalVars => DecimalInv'
<1> SUFFICES ASSUME DecimalInv, [DecimalNext]_decimalVars PROVE DecimalInv'
  OBVIOUS
<1> USE DEF locals, history
<1>1. ASSUME NEW minus \in BOOLEAN, Sign(minus) PROVE DecimalInv'
  BY <1>1 DEF DecimalInv, DecimalTypeOK, Sign, Exact, Limit, Ended
<1>2. ASSUME NEW digit \in Digits, WholeDigit(digit) PROVE DecimalInv'
  BY <1>2, WholeDigitInv
<1>3. ASSUME NEW digit \in Digits, FractionDigit(digit) PROVE DecimalInv'
  BY <1>3, FractionDigitInv
<1>4. CASE Point
  BY <1>4 DEF DecimalInv, DecimalTypeOK, Point, Exact, Limit, Ended
<1>5. CASE BadCharacter
  BY <1>5 DEF DecimalInv, DecimalTypeOK, BadCharacter, Throw, Exact, Limit, Ended
<1>6. CASE EndOfText
  BY <1>6 DEF DecimalInv, DecimalTypeOK, EndOfText, Exact, Limit, Ended
<1>7. CASE Pad
  BY <1>7, PadInv
<1>8. CASE Return
  BY <1>8, ReturnInv
<1>9. CASE OutOfRange
  <2>1. Exact > Limit
    BY <1>9, RangeExact, ExactFits DEF OutOfRange
  <2>2. Exact' = Exact /\ Limit' = Limit
    BY <1>9 DEF OutOfRange, Throw, Exact, Limit
  <2> QED BY <1>9, <2>1, <2>2 DEF DecimalInv, DecimalTypeOK, OutOfRange, Throw, Ended
<1>10. CASE NextCall
  BY <1>10, FirstPlace DEF DecimalInv, DecimalTypeOK, NextCall, Ended
<1>11. CASE UNCHANGED decimalVars
  BY <1>11 DEF DecimalInv, DecimalTypeOK, decimalVars, Exact, Limit, Ended
<1> QED BY <1>1, <1>2, <1>3, <1>4, <1>5, <1>6, <1>7, <1>8, <1>9, <1>10, <1>11 DEF DecimalNext

THEOREM DecimalInvariance == DecimalSpec => []DecimalInv
BY DecimalInitInv, DecimalNextInv, PTL DEF DecimalSpec

-----------------------------------------------------------------------------
(* What from_string and to_string promise.                                  *)

\* The locals of from_string stay in the range of their types, in every call.
THEOREM DecimalTypeCorrect == DecimalSpec => []DecimalTypeOK
<1>1. DecimalInv => DecimalTypeOK
  BY DEF DecimalInv
<1> QED BY <1>1, DecimalInvariance, PTL

\* from_string returns the number its text spells, or throws because no int64_t
\* holds it.
THEOREM DecimalExactAlways == DecimalSpec => []DecimalExact
<1>1. DecimalInv => DecimalExact
  BY DEF DecimalInv, DecimalExact
<1> QED BY <1>1, DecimalInvariance, PTL

\* to_string prints the digits from_string has read.
THEOREM PrintsAsWrittenAlways == DecimalSpec => []PrintsAsWritten
<1>1. ASSUME DecimalInv PROVE PrintsAsWritten
  <2> SUFFICES ASSUME phase = "done"
               PROVE  Printed(result) = [negative |-> negative /\ Exact > 0,
                                         whole |-> exactWhole, fraction |-> exactFraction]
    BY DEF PrintsAsWritten
  <2>1. exactFraction \in 0 .. (Scale - 1) /\ Exact \in Nat
    BY <1>1, ExactFits
  <2>2. Magnitude(result) = Exact /\ (result < 0 <=> negative /\ Exact > 0)
    BY <1>1, <2>1 DEF DecimalInv, DecimalTypeOK, Magnitude
  <2>3. Exact \div Scale = exactWhole /\ Exact % Scale = exactFraction
    <3>1. exactWhole \in Int /\ Scale \in Nat \ {0}
      BY <1>1, PlaceFacts DEF DecimalInv, DecimalTypeOK
    <3> QED BY <2>1, <3>1, QuotientUnique DEF Exact
  <2> QED BY <2>2, <2>3 DEF Printed
<1> QED BY <1>1, DecimalInvariance, PTL

-----------------------------------------------------------------------------
(* Timestamps.                                                             *)

\* The only multiple of m nearer to zero than m is zero.
LEMMA SmallMultiple ==
    ASSUME NEW m \in Nat \ {0}, NEW k \in Int, m * k < m, - m < m * k
    PROVE  m * k = 0
BY SMT

\* Wrapping stays in the range, adds a multiple of its width, and leaves alone
\* what is in the range.
LEMMA WrapFacts ==
    ASSUME NEW x \in Int
    PROVE  /\ Wrap(x) \in (- HalfRange) .. (HalfRange - 1)
           /\ \E k \in Int : Wrap(x) = x - 2 * HalfRange * k
           /\ x \in (- HalfRange) .. (HalfRange - 1) => Wrap(x) = x
<1> DEFINE a == x + HalfRange
           m == 2 * HalfRange
<1>1. a \in Int /\ m \in Nat \ {0} /\ HalfRange \in Nat
  BY TicksAssumption
<1>2. a \div m \in Int /\ a % m \in 0 .. (m - 1) /\ a = m * (a \div m) + (a % m)
  BY <1>1, DivisionBounds
<1>3. Wrap(x) = (a % m) - HalfRange
  BY DEF Wrap
<1>4. m * (a \div m) \in Int
  BY <1>1, <1>2
<1>5. Wrap(x) = x - m * (a \div m)
  BY <1>1, <1>2, <1>3, <1>4
<1>6. ASSUME x \in (- HalfRange) .. (HalfRange - 1) PROVE Wrap(x) = x
  <2>1. a \in 0 .. (m - 1) /\ 0 \in Int /\ 0 * m = 0
    BY <1>1, <1>6
  <2>2. (0 * m + a) % m = a
    BY <1>1, <2>1, QuotientUnique
  <2> QED BY <1>1, <1>3, <2>1, <2>2
<1> QED BY <1>1, <1>2, <1>3, <1>5, <1>6

LEMMA TimegmInt ==
    ASSUME NEW w \in Written
    PROVE  Timegm(w) \in Int /\ w.ticks \in 0 .. (SecondTicks - 1)
<1>1. w.year \in Int /\ w.month \in 1 .. 12 /\ w.day \in 1 .. 31
      /\ w.second \in 0 .. DaySeconds /\ w.ticks \in 0 .. (SecondTicks - 1)
  BY WrittenAssumption
<1>2. DaysBefore[w.month] \in Int
  BY <1>1 DEF DaysBefore
<1>3. DayNumber(w.year, w.month, w.day) \in Int
  BY <1>1, <1>2 DEF DayNumber
<1> QED BY <1>1, <1>3, TicksAssumption DEF Timegm

\* The sum is what was written, up to multiples of the width of int64_t.
LEMMA SumFacts ==
    ASSUME NEW w \in Written
    PROVE  /\ Sum(w) \in (- HalfRange) .. (HalfRange - 1)
           /\ \E k \in Int : Sum(w) = Timegm(w) * SecondTicks + w.ticks - 2 * HalfRange * k
<1> DEFINE p == Timegm(w) * SecondTicks
           m == 2 * HalfRange
<1>1. p \in Int /\ w.ticks \in Int /\ m \in Int
  BY TimegmInt, TicksAssumption
<1>2. FromTimeT(Timegm(w)) = Wrap(p)
  BY DEF FromTimeT
<1> HIDE DEF p
<1>3. PICK i \in Int : Wrap(p) = p - m * i
  BY <1>1, WrapFacts
<1>4. m * i \in Int /\ Wrap(p) + w.ticks \in Int
  BY <1>1, <1>3
<1>5. /\ Sum(w) \in (- HalfRange) .. (HalfRange - 1)
      /\ \E k \in Int : Sum(w) = (Wrap(p) + w.ticks) - m * k
  BY <1>2, <1>4, WrapFacts DEF Sum
<1>6. PICK j \in Int : Sum(w) = (Wrap(p) + w.ticks) - m * j
  BY <1>5
<1>7. m * (i + j) = m * i + m * j /\ m * j \in Int
  BY <1>1
<1>8. Sum(w) = p + w.ticks - m * (i + j)
  BY <1>1, <1>3, <1>4, <1>6, <1>7
<1> QED BY <1>5, <1>8 DEF p

\* Rounding towards 1970: what is left over.
LEMMA ToTimeTFacts ==
    ASSUME NEW t \in Int
    PROVE  /\ ToTimeT(t) \in Int
           /\ \E r \in 0 .. (SecondTicks - 1) :
                IF t >= 0 THEN t = ToTimeT(t) * SecondTicks + r /\ ToTimeT(t) >= 0
                ELSE t = ToTimeT(t) * SecondTicks - r
<1>0. SecondTicks \in Nat \ {0}
  BY TicksAssumption
<1>1. CASE t >= 0
  <2> DEFINE d == t \div SecondTicks
  <2>1. d \in Int /\ t % SecondTicks \in 0 .. (SecondTicks - 1)
        /\ t = SecondTicks * d + (t % SecondTicks)
    BY <1>0, DivisionBounds
  <2>2. 0 <= d
    <3>1. 0 <= d <=> 0 * SecondTicks <= t
      BY <1>0, QuotientBound
    <3> QED BY <1>0, <1>1, <3>1
  <2>3. ToTimeT(t) = d
    BY <1>1 DEF ToTimeT
  <2> HIDE DEF d
  <2>4. SecondTicks * d = d * SecondTicks
    BY <1>0, <2>1
  <2> QED BY <1>1, <2>1, <2>2, <2>3, <2>4
<1>2. CASE t < 0
  <2> DEFINE d == (- t) \div SecondTicks
             r == (- t) % SecondTicks
  <2>0. - t \in Int
    OBVIOUS
  <2>1. d \in Int /\ r \in 0 .. (SecondTicks - 1) /\ - t = SecondTicks * d + r
    <3> DEFINE n == - t
    <3>1. n \div SecondTicks \in Int /\ n % SecondTicks \in 0 .. (SecondTicks - 1)
          /\ n = SecondTicks * (n \div SecondTicks) + (n % SecondTicks)
      <4> HIDE DEF n
      <4> QED BY <1>0, <2>0, DivisionBounds DEF n
    <3> QED BY <3>1
  <2>2. ToTimeT(t) = - d
    BY <1>2 DEF ToTimeT
  <2> HIDE DEF d, r
  <2>3. (- d) * SecondTicks = - (SecondTicks * d) /\ SecondTicks * d \in Int
    BY <1>0, <2>1
  <2>4. t = ToTimeT(t) * SecondTicks - r
    BY <1>0, <2>1, <2>2, <2>3
  <2> QED BY <1>2, <2>1, <2>2, <2>4
<1> QED BY <1>1, <1>2

\* When the round trip succeeds nothing has wrapped.
LEMMA RoundTripExact ==
    ASSUME NEW w \in Written, RoundTrips(w)
    PROVE  /\ Sum(w) = Timegm(w) * SecondTicks + w.ticks
           /\ Timegm(w) >= 0 \/ w.ticks = 0
<1> DEFINE p == Timegm(w) * SecondTicks
           m == 2 * HalfRange
<1>1. /\ p \in Int /\ w.ticks \in 0 .. (SecondTicks - 1) /\ m \in Nat \ {0}
      /\ SecondTicks \in Nat \ {0} /\ 2 * SecondTicks <= m
  BY TimegmInt, TicksAssumption
<1>2. Sum(w) \in Int /\ ToTimeT(Sum(w)) = Timegm(w)
  BY SumFacts, TicksAssumption DEF RoundTrips
<1>3. PICK k \in Int : Sum(w) = p + w.ticks - m * k
  BY SumFacts
<1>4. m * k \in Int
  BY <1>1
<1>5. PICK r \in 0 .. (SecondTicks - 1) :
          IF Sum(w) >= 0 THEN Sum(w) = p + r /\ Timegm(w) >= 0 ELSE Sum(w) = p - r
  BY <1>2, ToTimeTFacts
<1> HIDE DEF p, m
<1>6. CASE Sum(w) >= 0
  <2>1. m * k = w.ticks - r
    BY <1>1, <1>3, <1>4, <1>5, <1>6
  <2>2. m * k = 0
    BY <1>1, <2>1, SmallMultiple
  <2> QED BY <1>1, <1>3, <1>5, <1>6, <2>2 DEF p
<1>7. CASE ~ (Sum(w) >= 0)
  <2>1. m * k = w.ticks + r
    BY <1>1, <1>3, <1>4, <1>5, <1>7
  <2>2. m * k < m /\ - m < m * k
    BY <1>1, <2>1
  <2>3. m * k = 0
    BY <1>1, <2>2, SmallMultiple
  <2> QED BY <1>1, <1>3, <2>1, <2>3 DEF p
<1> QED BY <1>6, <1>7

\* The round trip succeeds for everything else that is in the range.
LEMMA RoundTripSucceeds ==
    ASSUME NEW w \in Written, Representable(w), Timegm(w) >= 0 \/ w.ticks = 0
    PROVE  RoundTrips(w)
<1> DEFINE g == Timegm(w)
           p == g * SecondTicks
<1>1. /\ g \in Int /\ p \in Int /\ w.ticks \in 0 .. (SecondTicks - 1)
      /\ SecondTicks \in Nat \ {0} /\ HalfRange \in Nat
  BY TimegmInt, TicksAssumption
<1>2. p + w.ticks \in (- HalfRange) .. (HalfRange - 1)
  BY DEF Representable
<1>3. g >= 0 => p >= 0
  BY <1>1
<1>4. p \in (- HalfRange) .. (HalfRange - 1)
  <2> HIDE DEF p, g
  <2>1. p >= - HalfRange
    BY <1>1, <1>2, <1>3 DEF g
  <2> QED BY <1>1, <1>2, <2>1
<1>5. Sum(w) = p + w.ticks
  <2>1. FromTimeT(g) = p
    BY <1>1, <1>4, WrapFacts DEF FromTimeT
  <2> QED BY <1>1, <1>2, <2>1, WrapFacts DEF Sum
<1>6. CASE p + w.ticks >= 0
  <2>1. (g * SecondTicks + w.ticks) \div SecondTicks = g
    BY <1>1, QuotientUnique
  <2> QED BY <1>5, <1>6, <2>1 DEF RoundTrips, ToTimeT
<1>7. CASE ~ (p + w.ticks >= 0)
  <2>1. w.ticks = 0
    <3> HIDE DEF p, g
    <3> QED BY <1>1, <1>3, <1>7 DEF g
  <2>2. ((- g) * SecondTicks + 0) \div SecondTicks = - g
    <3>1. - g \in Int /\ 0 \in 0 .. (SecondTicks - 1)
      BY <1>1
    <3> QED BY <1>1, <3>1, QuotientUnique
  <2>3. - (p + w.ticks) = (- g) * SecondTicks + 0
    BY <1>1, <2>1
  <2>4. ToTimeT(p + w.ticks) = - (- g)
    BY <1>7, <2>2, <2>3 DEF ToTimeT
  <2> QED BY <1>1, <1>5, <2>4 DEF RoundTrips
<1> QED BY <1>6, <1>7

\* A verdict is the one on the text that was written.
TimestampInv ==
    /\ TimestampTypeOK
    /\ verdict /= "none" =>
         (verdict = "instant" <=> Timegm(written) /= -1 /\ RoundTrips(written))
    /\ verdict = "instant" => instant = Sum(written)

THEOREM TimestampInvariance == TimestampSpec => []TimestampInv
<1>1. TimestampInit => TimestampInv
  BY TicksAssumption DEF TimestampInit, TimestampInv, TimestampTypeOK, Verdicts
<1>2. TimestampInv /\ [TimestampNext]_timestampVars => TimestampInv'
  <2> SUFFICES ASSUME TimestampInv, [TimestampNext]_timestampVars PROVE TimestampInv'
    OBVIOUS
  <2>1. ASSUME NEW w \in Written, ParseTimestamp(w) PROVE TimestampInv'
    <3>1. Sum(w) \in (- HalfRange) .. (HalfRange - 1) /\ w /= NoText
      BY SumFacts, NoTextAssumption
    <3> QED BY <2>1, <3>1 DEF TimestampInv, TimestampTypeOK, Verdicts, ParseTimestamp
  <2>2. CASE Forget
    <3>1. 0 \in (- HalfRange) .. (HalfRange - 1)
      BY TicksAssumption
    <3> QED BY <2>2, <3>1 DEF TimestampInv, TimestampTypeOK, Verdicts, Forget
  <2>3. CASE UNCHANGED timestampVars
    BY <2>3 DEF TimestampInv, TimestampTypeOK, timestampVars
  <2> QED BY <2>1, <2>2, <2>3 DEF TimestampNext
<1> QED BY <1>1, <1>2, PTL DEF TimestampSpec

\* The Timestamp is in the range of int64_t, and there is a verdict exactly when
\* there is a text.
THEOREM TimestampTypeCorrect == TimestampSpec => []TimestampTypeOK
<1>1. TimestampInv => TimestampTypeOK
  BY DEF TimestampInv
<1> QED BY <1>1, TimestampInvariance, PTL

\* What parse_timestamp returns is the written instant, to the tick.
THEOREM InstantExactAlways == TimestampSpec => []InstantExact
<1>1. ASSUME TimestampInv PROVE InstantExact
  <2> SUFFICES ASSUME verdict = "instant"
               PROVE  PrintedSecond(instant) = Timegm(written) /\ PrintedTicks(instant) = written.ticks
    BY DEF InstantExact
  <2>1. written \in Written /\ instant = Sum(written) /\ RoundTrips(written)
    BY <1>1, NoTextAssumption DEF TimestampInv, TimestampTypeOK
  <2>2. instant = Timegm(written) * SecondTicks + written.ticks
    BY <2>1, RoundTripExact
  <2>3. Timegm(written) \in Int /\ written.ticks \in 0 .. (SecondTicks - 1)
        /\ SecondTicks \in Nat \ {0}
    BY <2>1, TimegmInt, TicksAssumption
  <2> QED BY <2>2, <2>3, QuotientUnique DEF PrintedSecond, PrintedTicks
<1> QED BY <1>1, TimestampInvariance, PTL

\* parse_timestamp accepts every instant from 1970 on that the clock can hold.
THEOREM AcceptedFrom1970Always == TimestampSpec => []AcceptedFrom1970
<1>1. ASSUME TimestampInv PROVE AcceptedFrom1970
  <2> SUFFICES ASSUME verdict /= "none", Representable(written), Timegm(written) >= 0
               PROVE  verdict = "instant"
    BY DEF AcceptedFrom1970
  <2>1. written \in Written
    BY <1>1 DEF TimestampInv, TimestampTypeOK
  <2>2. RoundTrips(written) /\ Timegm(written) /= -1
    BY <2>1, RoundTripSucceeds, TimegmInt
  <2> QED BY <1>1, <2>2 DEF TimestampInv
<1> QED BY <1>1, TimestampInvariance, PTL
=============================================================================

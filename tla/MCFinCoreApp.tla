---------------------------- MODULE MCFinCoreApp ----------------------------
(* Instances of FinCoreApp for TLC: two days of one year, a price that moves *)
(* across its own book, and answers that one store accepts and another does  *)
(* not.                                                                      *)
EXTENDS FinCoreApp

CONSTANTS A, B, d1, d2

OneSymbol  == <<A>>
TwoSymbols == <<A, B>>

Year == [d \in {d1, d2} |-> 2026]

MCAnswer(p, v, r, d) == [price |-> p, volume |-> v, range |-> r, day |-> d]

Monday  == MCAnswer(10, 40, "ordered", d1)
Tuesday == MCAnswer(12, 40, "ordered", d2)      \* the bids reach Monday's asks
Penny   == MCAnswer(1, 40, "ordered", NoDay)    \* no date, and no bid side
ZeroHi  == MCAnswer(10, 40, "zeroHigh", d1)     \* valid for Redis, not for PostgreSQL
Wrong   == MCAnswer(10, 40, "inverted", d1)     \* stored, then never served by Redis
Huge    == MCAnswer(10, 1000, "ordered", d1)    \* beyond a Decimal

Plain   == {Monday}
Bare    == {Wrong}
Usual   == {Monday, Tuesday}
Strange == {Monday, Penny, ZeroHi, Wrong, Huge}
=============================================================================

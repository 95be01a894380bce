------------------------------ MODULE Timestamp ------------------------------
(***************************************************************************)
(* parse_timestamp and format_timestamp of the PostgreSQL command line,    *)
(* and the instants between them: int64_t nanoseconds since 1970.  Of the  *)
(* time of day only the second is told apart; DaySeconds is 86400 and      *)
(* SecondTicks 10^9 in the code, Wrap works modulo 2^64.                   *)
(***************************************************************************)
EXTENDS Integers

CONSTANTS
    DaySeconds,   \* seconds of a day; the last one may be written :60
    SecondTicks,  \* ticks of system_clock in a second
    HalfRange,    \* instants are from - HalfRange to HalfRange - 1 ticks
    Written,      \* texts: [year, month, day, second, ticks]
    NoText        \* before an argument is read

ASSUME TicksAssumption ==
    /\ DaySeconds \in Nat \ {0} /\ SecondTicks \in Nat \ {0}
    /\ HalfRange \in Nat /\ SecondTicks <= HalfRange
ASSUME WrittenAssumption ==
    \A w \in Written :
        /\ w.year \in Int /\ w.month \in 1 .. 12 /\ w.day \in 1 .. 31
        /\ w.second \in 0 .. DaySeconds /\ w.ticks \in 0 .. (SecondTicks - 1)
ASSUME NoTextAssumption == NoText \notin Written

VARIABLES
    written,  \* the argument
    verdict,  \* "none", "instant" or the message of the exception
    instant   \* the Timestamp returned

timestampVars == <<written, verdict, instant>>

-----------------------------------------------------------------------------
\* The calendar of gmtime_r and timegm.

IsLeap(year) == year % 4 = 0 /\ (year % 100 /= 0 \/ year % 400 = 0)

MonthLength(year, month) ==
    IF month = 2 THEN IF IsLeap(year) THEN 29 ELSE 28
    ELSE IF month \in {4, 6, 9, 11} THEN 30 ELSE 31

DaysBefore == <<0, 31, 59, 90, 120, 151, 181, 212, 243, 273, 304, 334>>

\* Days from 1970-01-01 to that day; a day its month does not have counts on
\* into the next one.
DayNumber(year, month, day) ==
    365 * (year - 1970)
    + (year - 1969) \div 4 - (year - 1901) \div 100 + (year - 1601) \div 400
    + DaysBefore[month] + (IF month > 2 /\ IsLeap(year) THEN 1 ELSE 0)
    + day - 1

\* timegm, which besides replaces the fields it is given by normalised ones.
Timegm(w) == DayNumber(w.year, w.month, w.day) * DaySeconds + w.second

\* Mutation of Wrap: instants beyond the range of int64_t.
WrapNever(x) == x

\* int64_t arithmetic.
Wrap(x) == ((x + HalfRange) % (2 * HalfRange)) - HalfRange

FromTimeT(seconds) == Wrap(seconds * SecondTicks)

\* Mutation of ToTimeT: rounded to the nearest second, not towards 1970.
ToTimeTNearest(t) == (t + SecondTicks \div 2) \div SecondTicks

ToTimeT(t) == IF t >= 0 THEN t \div SecondTicks ELSE - ((- t) \div SecondTicks)

-----------------------------------------------------------------------------
TimestampInit == written = NoText /\ verdict = "none" /\ instant = 0

\* The sum of the seconds and the fraction.
Sum(w) == Wrap(FromTimeT(Timegm(w)) + w.ticks)

\* Mutation of RoundTrips: without the comparison.
RoundTripsAlways(w) == TRUE

\* The fields of the round trip are compared with those timegm has normalised:
\* equal fields are equal seconds.
RoundTrips(w) == ToTimeT(Sum(w)) = Timegm(w)

ParseTimestamp(w) ==
    /\ verdict = "none"
    /\ written' = w
    /\ \/ Timegm(w) = -1   \* timegm's error value
          /\ verdict' = "outside the supported range" /\ UNCHANGED instant
       \/ Timegm(w) /= -1 /\ ~ RoundTrips(w)
          /\ verdict' = "invalid calendar date" /\ UNCHANGED instant
       \/ Timegm(w) /= -1 /\ RoundTrips(w)
          /\ verdict' = "instant" /\ instant' = Sum(w)

\* The next timestamp is read.
Forget == verdict /= "none" /\ written' = NoText /\ verdict' = "none" /\ instant' = 0

TimestampNext == (\E w \in Written : ParseTimestamp(w)) \/ Forget

TimestampSpec == TimestampInit /\ [][TimestampNext]_timestampVars

-----------------------------------------------------------------------------
\* format_timestamp and timestamp_to_utc_text: rounded down to the second.
PrintedSecond(t) == t \div SecondTicks
PrintedTicks(t)  == t % SecondTicks

Verdicts == {"none", "instant", "outside the supported range", "invalid calendar date"}

TimestampTypeOK ==
    /\ written \in Written \cup {NoText}
    /\ verdict \in Verdicts
    /\ instant \in (- HalfRange) .. (HalfRange - 1)
    /\ verdict = "none" <=> written = NoText

\* The instant is the written one to the tick, however far the date is from
\* 1970: the overflow of int64_t nanoseconds is never taken for a date.
InstantExact ==
    verdict = "instant" =>
        /\ PrintedSecond(instant) = Timegm(written)
        /\ PrintedTicks(instant) = written.ticks

Representable(w) ==
    Timegm(w) * SecondTicks + w.ticks \in (- HalfRange) .. (HalfRange - 1)

\* From 1970 on no instant the clock can hold is refused, up to its last tick:
\* timegm's error value and the rounding of to_time_t do not reach there.
AcceptedFrom1970 ==
    (verdict /= "none" /\ Representable(written) /\ Timegm(written) >= 0) =>
        verdict = "instant"

-----------------------------------------------------------------------------
\* What the documentation says of timestamps and the code does not do.

OnCalendar(w) == w.day <= MonthLength(w.year, w.month) /\ w.second < DaySeconds

\* "Timestamp arguments accept `now` or UTC RFC3339 in the form
\* YYYY-MM-DDTHH:MM:SS[.ffffff]Z": every date and time of day the clock can hold.
TimestampsAccepted ==
    (verdict /= "none" /\ OnCalendar(written) /\ Representable(written)) =>
        verdict = "instant"

\* The message "timestamp contains an invalid calendar date" says that a day its
\* month does not have is refused.
CalendarDatesOnly ==
    verdict = "instant" => written.day <= MonthLength(written.year, written.month)
=============================================================================

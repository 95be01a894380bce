SPECIFICATION MCSpec
CONSTANTS
    s1 = s1
    s2 = s2
    A = A
    V = V
    t1 = t1
    NoId = NoId
    NoRow = NoRow
    NoCode = NoCode
    One = 1
    Shells = {s1, s2}
    Commands <- MCCommands
    MaxClock = 2
    MaxLoose = 2
    MaxLimbo = 1
    DaySeconds = 3
    SecondTicks = 2
    HalfRange = 4096
    Written <- MCWritten
    NoText = NoText
INVARIANTS CalendarDatesOnly

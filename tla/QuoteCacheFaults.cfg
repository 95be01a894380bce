SPECIFICATION Spec
CONSTANTS
    p1 = p1
    p2 = p2
    Procs = {p1, p2}
    CacheTtl = 2
    QuoteTtl = 3
    HistoryMax = 2
    MaxLatency = 1
    AgeCap = 9
    MaxFaults = 2
    NoQuote = NoQuote
INVARIANTS TypeOK TtlBoundsAge NoTtlOnlyInFlight ServedFresh HistoryBounded
PROPERTIES StepsBackBounded EventuallyRenewed

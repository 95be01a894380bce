SPECIFICATION Spec
CONSTANTS
    p1 = p1
    p2 = p2
    Procs = {p1, p2}
    CacheTtl = 2
    QuoteTtl = 3
    HistoryMax = 2
    MaxLatency = 1
    AgeCap = 11
    MaxFaults = 1
    NoQuote = NoQuote
INVARIANT CachedQuoteHasTtl

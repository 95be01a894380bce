SPECIFICATION MCSpec
CONSTANTS
    Depth = 1
    VolumeModulus = 8
    p1 = p1
    p2 = p2
    Procs = {p1, p2}
    Answers <- MCAnswers
    NoQuote = NoQuote
    Prices <- MCPrices
    Volumes = {0, 1, 2}
SYMMETRY Symmetry
INVARIANTS TypeOK NoForeignLevel SameQuoteConverges AloneIsBookWrites BookTypeOK SpreadTellsCrossing
PROPERTIES FailedReplaceEmpties

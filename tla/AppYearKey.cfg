SPECIFICATION Spec
CONSTANTS
    Depth = 1
    VolumeModulus = 100000
    A = A
    B = B
    d1 = d1
    d2 = d2
    NoDay = NoDay
    NoQuote = NoQuote
    YearOf <- Year
    SymbolList <- OneSymbol
    Answers <- Usual
    MaxDecimal = 500
    MaxRounds = 1
    MaxOps = 2
PROPERTY SameQuoteInPostgres

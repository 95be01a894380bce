SPECIFICATION MCSpec
CONSTANTS
    Depth = 1
    VolumeModulus = 100000
    A = A
    B = B
    d1 = d1
    d2 = d2
    NoDay = NoDay
    NoQuote = NoQuote
    YearOf <- Year
    SymbolList <- TwoSymbols
    Answers <- Bare
    MaxDecimal = 500
    MaxRounds = 1
    MaxOps = 2
    FractionDigits = 2
    Place <- MCPlace
    IntMax = 127
    UintMax = 255
INVARIANTS ConnectedMeansRegistered DecimalTypeOK DecimalExact PrintsAsWritten
PROPERTIES OnlyPostgresCutsShort CommandAdvances CommandsReturn

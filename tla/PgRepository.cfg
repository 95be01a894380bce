SPECIFICATION Spec
CONSTANTS
    c1 = c1
    c2 = c2
    k1 = k1
    k2 = k2
    A = A
    B = B
    NoKey = NoKey
    Clients = {c1, c2}
    Symbols = {A, B}
    Rows <- MCRows
    Batches <- MCBatches
    MaxFaults = 2
    MaxLoose = 1
INVARIANTS TypeOK NoTransactionLeftOpen KeysUnique
PROPERTIES KeepsPromise CallsEnd

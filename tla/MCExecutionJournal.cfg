SPECIFICATION Spec
CONSTANTS
    a = a
    b = b
    c = c
    d = d
    s1 = s1
    s2 = s2
    s3 = s3
    r1 = r1
    r2 = r2
    p1 = p1
    NoIntent = NoIntent
    Intent = {a, b, c, d}
    Plan = {p1}
    Signature = {s1, s2, s3}
    Resource = {r1, r2}
    SigOf <- MCSigOf
    ResOf <- MCResOf
    Stocks <- MCStocks
    TrancheOf <- MCTranches
    Capacity = 2
    MaxRecords = 3
    BatchLimit = 2
    AttemptBound = 1
INVARIANTS
    CrashImagesOpen
    NoDoublePurchase
PROPERTIES
    ImplementsDurableLedger

SPECIFICATION PlanningSpec
CONSTANTS
    MaxRounds = 3
    NoPlan = NoPlan
    Jobs <- MCJobs
    MaxLegs = 4
    MaxCandidates = 8
    MaxVariants = 4
    MaxOptions = 3
    MaxCalls = 60
    Bps = 10
    Guard = 2
    None = None
    MaxTries = 3
    MaxError = 5
    MaxPivots = 3
    MaxGroups = 4
    MaxBonus = 1
    NoArc = NoArc
    Cells <- MCCells
    FoldBps = 10
    BookBps = 10
    Books <- MCBooks
    MaxAssets = 5
    MaxAccounts = 64
    MaxProducts = 4
    MaxSellers = 3
    MaxBankKeys = 100
    Near = {1, 2}
INVARIANTS
    
    VariantsKeepThePlan
    PurchaseIsRefined
    ClearingAddsUp
    FoldingHolds
    NobodyTradedThrough
    WireMeansOrder
    PlannedIsSettled

SPECIFICATION ServiceSpec
CONSTANTS
    ann = ann
    bob = bob
    x = x
    y = y
    a = a
    b = b
    s1 = s1
    s2 = s2
    r1 = r1
    Intent = {a, b}
    Plan = {}
    Stocks <- MCStocks
    TrancheOf <- MCTranches
    Signature = {s1, s2}
    Resource = {r1}
    SigOf <- MCSigOf
    ResOf <- MCResOf
    Capacity = 2
    Request = {w1, w2}
    NoIntent = NoIntent
    LastValid <- MCLastValid
    MaxAttempts = 2
    MaxHeight = 1
    Driven = {a}
    Requests <- MCRequests
    Slots = 3
    OwnerLimit = 2
    MaxGeneration = 5
    MaxNow = 2
    Workers = {w1, w2}
    MaxWorth = 2
    MaxSlip = 1
    Ttl = 1
    MaxQuotes = 1
    MaxPrepared = 1
    DeadlineSlots = 1
    MaxBuilt = 2
    Process = {api, probe}
    Bodies = {1}
    MaxResponse = 1
    MaxRequests = 2
    MaxTotal = 4
    MaxInFlight = 2
    PerSecond = 2
    QuotaRequests = 3
    QuotaBytes = 9
    PeriodEnd = 2
    Cooldowns = {1}
    MaxStarts = 2
    NoProcess = NoProcess
    NoFile = NoFile
    Corrupt = Corrupt
    Gates = {g1, g2}
    Faults = 1
    MaxAge = 1
    MaxWidth = 8
    MaxLag = 2
    MaxTime = 2
    MaxWrites = 2
    Scale = 4
    Observations <- MCObservations
    GroupOf <- MCGroupOf
    Contexts <- MCContexts
    Intents <- MCIntents
    Messages <- MCMessages
    Outputs = {8, 9}
    MaxIssued = 1
    MaxBankSlot = 2
    MaxClock = 1
    MaxTick = 1
    w1 = w1
    w2 = w2
    Bps = 10
    Off = Off
SYMMETRY Symmetry
CHECK_DEADLOCK FALSE
INVARIANTS
    FootprintsCompatible
    NonceHeldToDeadline
    
    QuotaHolds
    BandIsSound
    VerdictIsFinal
    NoConcurrentEffects
    SentOnceAndRecorded
PROPERTIES
    CompletesOwnRequest
    KeepsDurableLedger

SPECIFICATION SettlementSpec
CONSTANTS
    Nonces = {1, 2}
    NoOrder = NoOrder
    Flags <- MCFlags
    PolicyLifetime = 1
    PolicyAge = 1
    Supply = 3
    Lots = {1, 2}
    Prices = {3}
    Rates = {2, 3}
    Unit = 2
    PriceUnit = 2
    Lifetime = 1
    MaxPremium = 0
    MaxGift = 1
    MaxVersion = 2
    MaxRevision = 2
    MaxSlot = 1
    b = b
    s = s
    maker = maker
    usd = usd
    sol = sol
    spyx = spyx
    spyon = spyon
    qqqx = qqqx
    NoGraph = NoGraph
    NoTx = NoTx
    MaxBalance = 5
    CellSlots = 2
    RateUnit = 2
    Wallet <- MCWallet
    Token <- MCToken
    Cells <- MCCells
    Start <- MCStart
    Rate <- MCRate
    Instrument <- MCInstrument
INVARIANTS
    EscrowExact
    OwnerPaid
    RevisionSpentOnce
    OwnCashKept
PROPERTIES
    SoldUnderLiveClaim
    ImplementsCellPromise

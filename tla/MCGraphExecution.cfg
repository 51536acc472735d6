SPECIFICATION ExecutorSpec
CONSTANTS
    usd = usd
    sol = sol
    spy = spy
    gold = gold
    Token = {usd, sol, spy, gold}
    Graphs <- MCGraphs
    NoNonce = NoNonce
    NoTx = NoTx
    Start <- MCStart
    MaxBalance = 6
    MaxSlot = 1
    Scale = 4
    MaxRate = 64
    MaxSegments = 3
    MaxFinalists = 2
    Jobs <- MCJobs
    MaxCap = 6
INVARIANTS
    NoAuthorityLeft
    KernelPlanHolds
PROPERTIES
    ImplementsTradePromise

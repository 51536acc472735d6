SPECIFICATION OrdersSpec
CONSTANTS
    Parts = {"bank"}
    Plan = {p}
    NoPlan = NoPlan
    Terms <- MCTerms
    Capsules <- MCCapsules
    Flags <- MCFlags
    PolicyLifetime = 1
    PolicyAge = 1
    MaxPlanInput = 10
    MaxCapsuleInput = 2
    MaxCapsules = 3
    MaxLifetime = 2
    MaxBonus = 1
    MaxNonce = 2
    MaxSigned = 2
    MaxVersion = 2
    MaxSlot = 1
    c1 = c1
    c2 = c2
    c3 = c3
    near = near
    far = far
    Layout = {near, far}
    FirstLayout = near
    ContentAt <- MCContentAt
    Covers <- MCCovers
    Edge <- MCEdge
    LayoutFor <- MCLayoutFor
    Content = {c1, c2, c3}
    Mode = "rpc"
    RpcAtStart = TRUE
    MaxAge = 1
    CandidateAge = 2
    RotateEvery = 1
    MaxRevision = 3
    BankSlots = 4
    MaxNow = 2
    Asset = {"sol", "usd", "spyx", "spyon"}
    Native = "sol"
    Owner = "o"
    None = None
    Rent = 2
    MaxAssets = 6
    MaxInput = 9
    MaxUnits = 5
    MaxProducts = 4
    MaxSellers = 3
    MaxLegs = 4
    MaxFundLegs = 3
    MaxPolicyAge = 1
    LandFee = 1
    Gift = 1
    Jobs <- MCJobs
    Raw <- MCRaw
    SimFees = {0, 1}
INVARIANTS
    FrozenSlotExpires

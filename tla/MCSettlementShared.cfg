CONSTANTS
    alice = alice
    bob = bob
    t1 = t1
    t2 = t2
    NoUser = NoUser
    Contract = Contract
    Users = {alice, bob}
    Admin = alice
    Tokens = {t1, t2}
    StartOwner <- MCStartOwner
    StartBalance = 12
    TradedOutside = {}
    CloseIntervals = {1}
    MaxTime = 5
    PauseChoices <- MCNone
    PauseDelays = {}
    MinPauseDelay = 1
    MaxPauseDelay = 2
    BlockUntil = {}
    BlockTargets = {}
    RatedCalls = {}
    DefaultLimit <- MCNoLimits
    LimitChoices = {}
    DelistChoices = {}
    StartFeeConfig <- MCFee
    FeeConfigs <- MCNone
    Royalty <- MCRoyalty
    MaxSales = 1
    Prices = {10}
    Durations = {1}
    MaxSaleDuration = 4
    LedgerCloseSeconds = 1
    StartSwapConfig <- MCSwapConfig
    SwapConfigs <- MCNone
    CleanupLimits = {}
    DefaultCleanupLimit = 2
    MaxAuctions = 1
    StartPrices = {10}
    Reserves = {10}
    AuctionDurations = {1}
    Increments = {1}
    Kinds = {"English"}
    BidAmounts = {10}
    MaxAuctionDuration = 4
    ExtensionWindow = 1
    MinIncrementBps = 1000
    MinimumBidAmount = 10
    MaxBidsPerAuction = 5
    RapidWindow = 3
    TimingSlack = 1
    MaxDisputes = 1
    Arbitrators = {bob}
    Reputations = {100}
    ReputationChanges <- MCBadMark
    Oracles = {}
    AdminCandidates = {}
    ForcedResolutions = {"ReleaseToSeller"}
    StartDisputeConfig <- MCOneJudge
    DisputeConfigs <- MCNone
SPECIFICATION Spec
INVARIANTS
    OneClaim
    Solvent
PROPERTIES
    PromiseKept
CHECK_DEADLOCK FALSE

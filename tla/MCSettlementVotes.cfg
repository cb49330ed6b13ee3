CONSTANTS
    alice = alice
    bob = bob
    t1 = t1
    t2 = t2
    NoUser = NoUser
    Contract = Contract
    Users = {alice, bob}
    Admin = alice
    Tokens = {t1}
    StartOwner <- MCStartOwner
    StartBalance = 12
    TradedOutside = {}
    CloseIntervals = {1}
    MaxTime = 6
    PauseChoices <- MCPauseDisputes
    PauseDelays = {}
    MinPauseDelay = 1
    MaxPauseDelay = 2
    BlockUntil = {}
    BlockTargets = {}
    RatedCalls = {}
    DefaultLimit <- MCNoLimits
    LimitChoices = {}
    DelistChoices = {}
    StartFeeConfig <- MCFee
    FeeConfigs <- MCNone
    Royalty <- MCRoyalty
    MaxSales = 1
    Prices = {10}
    Durations = {1}
    MaxSaleDuration = 4
    LedgerCloseSeconds = 1
    StartSwapConfig <- MCSwapConfig
    SwapConfigs <- MCNone
    CleanupLimits = {}
    DefaultCleanupLimit = 2
    MaxAuctions = 0
    StartPrices = {10}
    Reserves = {10}
    AuctionDurations = {2}
    Increments = {1}
    Kinds = {"English"}
    BidAmounts = {10}
    MaxAuctionDuration = 4
    ExtensionWindow = 1
    MinIncrementBps = 1000
    MinimumBidAmount = 10
    MaxBidsPerAuction = 5
    RapidWindow = 3
    TimingSlack = 1
    MaxDisputes = 1
    Arbitrators = {alice, bob}
    Reputations = {100}
    ReputationChanges = {}
    Oracles = {bob}
    AdminCandidates = {bob}
    ForcedResolutions = {"ReleaseToSeller", "CancelTransaction"}
    StartDisputeConfig <- MCTwoJudges
    DisputeConfigs <- MCChanges
SPECIFICATION FairSpec
INVARIANTS
    TypeOK
    QuorumDecides
PROPERTIES
    DecidedOnce
    DisputeUnwinds
    DisputeEnds
CHECK_DEADLOCK FALSE

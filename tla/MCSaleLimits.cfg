CONSTANTS
    alice = alice
    bob = bob
    t1 = t1
    t2 = t2
    t3 = t3
    NoUser = NoUser
    Contract = Contract
    Users = {alice}
    Admin = alice
    Tokens = {t1}
    StartOwner <- MCStartOwner
    StartBalance = 12
    TradedOutside = {}
    CloseIntervals = {1}
    MaxTime = 6
    PauseChoices <- MCPauseAll
    PauseDelays = {}
    MinPauseDelay = 1
    MaxPauseDelay = 2
    BlockUntil = {}
    BlockTargets = {}
    RatedCalls = {"create_sale"}
    DefaultLimit <- MCTightLimits
    LimitChoices <- MCLooserLimits
    DelistChoices = {}
    StartFeeConfig <- MCFlatFee
    FeeConfigs <- MCNone
    Royalty <- MCRoyalty
    MaxSales = 4
    Prices = {10}
    Durations = {1}
    MaxSaleDuration = 4
    LedgerCloseSeconds = 1
    StartSwapConfig <- MCSwiftConfig
    SwapConfigs <- MCNone
    CleanupLimits = {}
    DefaultCleanupLimit = 2
SPECIFICATION FairSpec
INVARIANTS
    RateBound
PROPERTIES
    EscrowReturned
CHECK_DEADLOCK FALSE

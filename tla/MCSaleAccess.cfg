CONSTANTS
    alice = alice
    bob = bob
    t1 = t1
    t2 = t2
    t3 = t3
    NoUser = NoUser
    Contract = Contract
    Users = {alice, bob}
    Admin = alice
    Tokens = {t1}
    StartOwner <- MCStartOwner
    StartBalance = 12
    TradedOutside = {}
    CloseIntervals = {1, 3}
    MaxTime = 7
    PauseChoices <- MCPauses
    PauseDelays = {1, 2, 3}
    MinPauseDelay = 1
    MaxPauseDelay = 2
    BlockUntil = {0, 3}
    BlockTargets = {bob}
    RatedCalls = {}
    DefaultLimit <- MCNoLimits
    LimitChoices = {}
    DelistChoices = {"nft"}
    StartFeeConfig <- MCFlatFee
    FeeConfigs <- MCNone
    Royalty <- MCRoyalty
    MaxSales = 1
    Prices = {10}
    Durations = {2}
    MaxSaleDuration = 4
    LedgerCloseSeconds = 1
    StartSwapConfig <- MCSwapConfig
    SwapConfigs <- MCNone
    CleanupLimits = {0}
    DefaultCleanupLimit = 2
SPECIFICATION Spec
PROPERTIES
    ReleasedToTheRightParty
    PauseTimelock
CHECK_DEADLOCK FALSE

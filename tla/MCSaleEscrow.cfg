CONSTANTS
    alice = alice
    bob = bob
    t1 = t1
    t2 = t2
    t3 = t3
    NoUser = NoUser
    Contract = Contract
    Users = {alice, bob}
    Admin = alice
    Tokens = {t1, t2}
    StartOwner <- MCStartOwner
    StartBalance = 12
    TradedOutside = {t1}
    CloseIntervals = {1, 3}
    MaxTime = 8
    PauseChoices <- MCNone
    PauseDelays = {}
    MinPauseDelay = 1
    MaxPauseDelay = 2
    BlockUntil = {}
    BlockTargets = {}
    RatedCalls = {}
    DefaultLimit <- MCNoLimits
    LimitChoices = {}
    DelistChoices = {}
    StartFeeConfig <- MCFlatFee
    FeeConfigs <- MCFeeConfigs
    Royalty <- MCRoyalty
    MaxSales = 2
    Prices = {10}
    Durations = {2}
    MaxSaleDuration = 4
    LedgerCloseSeconds = 1
    StartSwapConfig <- MCSwapConfig
    SwapConfigs <- MCSwapConfigs
    CleanupLimits = {1}
    DefaultCleanupLimit = 2
SPECIFICATION Spec
INVARIANTS
    TypeOK
    Custody
    EndingsAgree
    BalanceIsFees
    MoneyConserved
PROPERTIES
    Finality
    LateRefund
CHECK_DEADLOCK FALSE

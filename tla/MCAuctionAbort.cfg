CONSTANTS
    alice = alice
    bob = bob
    carol = carol
    t1 = t1
    t2 = t2
    NoUser = NoUser
    Contract = Contract
    Users = {alice, bob, carol}
    Admin = alice
    Tokens = {t1}
    StartOwner <- MCStartOwner
    StartBalance = 30
    TradedOutside = {}
    CloseIntervals = {1, 2}
    MaxTime = 7
    PauseChoices <- MCNone
    PauseDelays = {}
    MinPauseDelay = 1
    MaxPauseDelay = 2
    BlockUntil = {}
    BlockTargets = {}
    RatedCalls = {}
    DefaultLimit <- MCNoLimits
    LimitChoices = {}
    DelistChoices = {}
    StartFeeConfig <- MCFee
    FeeConfigs <- MCNone
    Royalty <- MCRoyalty
    MaxAuctions = 2
    StartPrices = {10}
    Reserves = {10}
    AuctionDurations = {2}
    Increments = {1}
    Kinds = {"English"}
    BidAmounts = {10, 11, 13, 16}
    MaxAuctionDuration = 4
    ExtensionWindow = 1
    MinIncrementBps = 1000
    MinimumBidAmount = 10
    MaxBidsPerAuction = 5
    RapidWindow = 3
    TimingSlack = 1
SPECIFICATION Spec
INVARIANTS
    SellerCanAbort
CHECK_DEADLOCK FALSE

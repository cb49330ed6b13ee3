SPECIFICATION FairSpec
CONSTANTS
    Wallets = {w1}
    NoWallet = NoWallet
    MaxRequests = 4
    MaxNonces = 2
INVARIANTS TypeOK EndedByReuse OneAccountPerWallet
PROPERTIES SessionsKept RequestsEnd
CHECK_DEADLOCK FALSE

CONSTANTS
    l1 = l1
    b1 = b1
    b2 = b2
    NoUser = NoUser
    NoListing = NoListing
    Listings = {l1}
    Buyers = {b1}
    MaxRequests = 2
    ReservationTTL = 0
    Expiries = {2, 3}
    MaxTime = 2
    MaxAttempts = 1
    MaxRetries = 1
    MaxTransactions = 2
    MaxCrashes = 1
SPECIFICATION FairSpec
INVARIANTS
    TypeOK
    
    
PROPERTIES
    ReservationEnds
CHECK_DEADLOCK FALSE

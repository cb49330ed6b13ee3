CONSTANTS
    l1 = l1
    b1 = b1
    b2 = b2
    NoUser = NoUser
    NoListing = NoListing
    Listings = {l1}
    Buyers = {b1, b2}
    MaxRequests = 2
    ReservationTTL = 0
    Expiries = {2, 3}
    MaxTime = 2
    MaxAttempts = 1
    MaxRetries = 1
    MaxTransactions = 2
    MaxCrashes = 0
SPECIFICATION Spec
INVARIANTS
    OneSale
CHECK_DEADLOCK FALSE

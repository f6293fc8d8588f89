\* Two purchases of one user, two requests beside one reconciler, one crash.
SPECIFICATION FairSpec
CONSTANTS
    k1 = k1
    k2 = k2
    r1 = r1
    r2 = r2
    s1 = s1
    Null = Null
    Key <- TwoKeys
    Request <- TwoRequests
    Sweeper <- OneSweeper
    MaxCrashes = 1
INVARIANTS
    CreditedOnce
    CompletedIsPaid
    PaidIsNeverRefused
    OneOpenPurchase
PROPERTIES
    PendingIsDecided
    PaidIsCredited

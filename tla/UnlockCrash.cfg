\* Two rivals, no dispute, one crash or failed refund, under fairness.
SPECIFICATION FairSpec
CONSTANTS
    l1 = l1
    b1 = b1
    b2 = b2
    w1 = w1
    w2 = w2
    Null = Null
    Listing <- OneListing
    Buyer <- TwoBuyers
    Worker <- TwoWorkers
    Disputable <- NoUnlock
    MaxCrashes = 1
INVARIANTS
    RivalsAccounted
    HandoverHasWinner
PROPERTIES
    RivalsRefunded
CHECK_DEADLOCK FALSE

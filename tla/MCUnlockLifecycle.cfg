\* Two rivals for one listing and a dispute on one unlock; no crash.
SPECIFICATION Spec
CONSTANTS
    l1 = l1
    b1 = b1
    b2 = b2
    w1 = w1
    w2 = w2
    Null = Null
    Listing <- OneListing
    Buyer <- TwoBuyers
    Worker <- TwoWorkers
    Disputable <- OneUnlock
    MaxCrashes = 0
SYMMETRY Symmetric
INVARIANTS
    CreditsConserved
    SingleHandover
    CommissionBacked
    ConfirmedSettles
    WithdrawalSparesBuyers
PROPERTIES
    ImplementsCommissionRow
CHECK_DEADLOCK FALSE

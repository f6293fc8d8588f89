\* One commission, the sweep beside one operator's retry, one crash.
SPECIFICATION Spec
CONSTANTS
    c1 = c1
    a1 = a1
    Job = Job
    NoCandidate = NoCandidate
    Commission <- MCCommission
    Admin <- MCAdmin
    MaxAttempts = 3
    MaxConv = 2
    MaxCrashes = 1
INVARIANTS
    AtMostOnePayout
    PaidIsSettled
    DisputeHoldsPayout
    DeadLetterJustified
PROPERTY
    ImplementsCommissionRow

\* The release for a dispute revives a cancelled commission.
SPECIFICATION Spec
CONSTANTS
    c1 = c1
    a1 = a1
    Job = Job
    NoCandidate = NoCandidate
    Commission <- MCCommission
    Admin <- MCAdmin
    MaxAttempts = 3
    MaxConv = 2
    MaxCrashes = 0
INVARIANTS
    RefundedIsCancelled

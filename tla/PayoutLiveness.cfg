\* The sweep alone, with one crash, under fairness.
SPECIFICATION FairSpec
CONSTANTS
    c1 = c1
    a1 = a1
    Job = Job
    NoCandidate = NoCandidate
    Commission <- MCCommission
    Admin <- MCNobody
    MaxAttempts = 3
    MaxConv = 2
    MaxCrashes = 1
PROPERTIES
    DueIsDecided
    SkippedIsRequeued

\* Three requests on one account, three movements of one or two credits.
SPECIFICATION Spec
CONSTANTS
    w1 = w1
    w2 = w2
    w3 = w3
    Null = Null
    Worker <- Workers
    Amount <- Amounts
    MaxMoves = 3
SYMMETRY Symmetric
INVARIANTS
    LifetimeAddsUp
    StaleIsExplained
PROPERTIES
    ImplementsLedger

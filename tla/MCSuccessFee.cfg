\* Two unlocks of one mover, two requests at once, one refund,
\* a split that is edited between 60 and 70 %.
SPECIFICATION Spec
CONSTANTS
    u1 = u1
    u2 = u2
    w1 = w1
    w2 = w2
    Null = Null
    Unlock <- TwoUnlocks
    Worker <- TwoWorkers
    Due <- Fees
    Spent <- Costs
    Split <- Splits
    RoundsDown <- Doubles
    Wallet = 6
    MaxRefunds = 1
SYMMETRY Symmetric
INVARIANTS
    NeverOvercharged
    PosterWithinShare
    PosterKeepsBase

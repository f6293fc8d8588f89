\* Three people and invitations, a replica with two connections and one with one.
SPECIFICATION FairSpec
CONSTANTS
    p1 = p1
    p2 = p2
    p3 = p3
    r1 = r1
    r2 = r2
    c1 = c1
    c2 = c2
    c3 = c3
    Null = Null
    Person <- People
    Founder <- Founders
    Invite <- Invites
    Replica <- Replicas
    Conn <- Conns
    PoolOf <- Pools
    BatchSize = 1
    MaxHolds = 2
    MaxDrops = 1
    MaxFailures = 1
INVARIANTS
    RewardedOnce
    LockIsAccounted
PROPERTIES
    DueIsRewarded
CHECK_DEADLOCK FALSE

\* Two requests at a time, one of them writing, and the details its owner sees.
SPECIFICATION Spec
CONSTANTS
    w1 = w1
    w2 = w2
    Null = Null
    Absent = Absent
    Worker <- Workers
    Key <- OwnerPage
    MaxWrites = 1
INVARIANTS
    InvalidationDrops
CHECK_DEADLOCK FALSE

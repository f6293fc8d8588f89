\* Two requests at a time, four writing requests in all, one kind of page.
SPECIFICATION Spec
CONSTANTS
    w1 = w1
    w2 = w2
    Null = Null
    Absent = Absent
    Worker <- Workers
    Key <- Pages
    MaxWrites = 4
SYMMETRY Symmetric
INVARIANTS
    StatusAgrees
    RejectedStaysOff
    PhotosLast
    StaleIsExplained
PROPERTIES
    DeletionIsFinal
CHECK_DEADLOCK FALSE

\* Three tokens, one restart of the app.
SPECIFICATION FairSpec
CONSTANTS
    Null = Null
    MaxTokens = 3
    MaxRestarts = 1
INVARIANTS
    OneTokenPerLogin
    HeldTokenWorks
    LogoutIsFinal
PROPERTIES
    ColdStartEnds
CHECK_DEADLOCK FALSE

SPECIFICATION FairSpec
CONSTANTS
    MaxRequests = 3
    Sources = {cam}
    None = None
INVARIANTS
    NewestWins
PROPERTIES
    EveryCallerAnswered
CHECK_DEADLOCK FALSE

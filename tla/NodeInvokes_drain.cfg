SPECIFICATION FairSpec
CONSTANTS
    i1 = i1
    i2 = i2
    i3 = i3
    t1 = t1
    t2 = t2
    Mixed = Mixed
    plain = plain
    full = full
    Invokes = {i1, i2, i3}
    Malformed = {i3}
    Turns = {t1, t2}
    Issuer <- ByTurn
    Allowed <- AnyCaller
    Keys = {Mixed, plain, full}
    Key <- RawKey
    Canon <- CanonKey
    Lower <- LowerKey
    None = None
    Operator = Operator
INVARIANT TypeOK
INVARIANT RetiredMeansAnswered
PROPERTY OwnAuthority
PROPERTY PulledIsAnswered

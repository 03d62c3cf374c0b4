SPECIFICATION Spec
CONSTANTS
    c1 = c1
    c2 = c2
    Calls = {c1, c2}
    Workloads <- Pairs
    Params = {p, q}
    p = p
    q = q
    AttrsType <- OneNamesRemoval
    Callers <- SomeCallers
    Ids = {m1}
    m1 = m1
    TTL = 1
    MaxNow = 2
    MaxBoots = 1
    None = None
    Malformed = Malformed
CHECK_DEADLOCK FALSE
INVARIANTS
    TypeOK
    ApprovalSpentOnce
    EffectsAuthorised
    AnswersTrue
SYMMETRY Symmetry

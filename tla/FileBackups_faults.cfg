SPECIFICATION Spec
CONSTANTS
    a = a
    b = b
    c = c
    f = f
    g = g
    empty = empty
    c1 = c1
    p1 = p1
    None = None
    Paths = {a, b, c}
    Files = {f, g}
    FileOf <- TwoFiles
    NameLen <- OneTooLong
    Contents = {empty, c1}
    Empty = empty
    Proposals = {p1}
    Faults = {"short_write", "external", "crash", "io_error"}
    MaxVersions = 2
    MaxDisturbed = 1
    MaxTime = 1
INVARIANTS
    TypeOK
    NoDanglingVersion
    LastVersionUndoes
PROPERTIES
    HistoryNeverLost
    OverwritesOnlyCaptured

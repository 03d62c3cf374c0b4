SPECIFICATION Spec
CONSTANTS
    f1 = f1
    f2 = f2
    Flows = {f1, f2}
    MaxTokens = 3
    MaxBoots = 3
    Faults = {"consumed", "claimed", "token"}
    Explicit = Explicit
    None = None
SYMMETRY Symmetry
CHECK_DEADLOCK FALSE
INVARIANTS
    TypeOK
    StoredTokenWorks
PROPERTY HandedOverOnce

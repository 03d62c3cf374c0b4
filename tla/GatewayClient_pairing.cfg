SPECIFICATION FairSpec
CONSTANTS
    PairingToken = PairingToken
    None = None
    Seeds = {"node", "operator"}
    Faults = {"close", "clean_close", "refusal", "lost_answer", "crash"}
    MaxGen = 2
    MaxUpsets = 3
INVARIANTS
    TypeOK
    TokensKeptApart
    StatusTruthful
    ServingIsDurable
PROPERTIES
    LostToStaleRejectionOnly
    SelfHeals
CHECK_DEADLOCK FALSE

SPECIFICATION Spec
CONSTANTS
    PairingToken = PairingToken
    None = None
    Seeds = {"node", "operator"}
    Faults = {"close", "clean_close", "refusal", "lost_answer", "crash"}
    MaxGen = 2
    MaxUpsets = 3
PROPERTY ValidTokenKept
CHECK_DEADLOCK FALSE

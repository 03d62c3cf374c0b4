SPECIFICATION Spec
CONSTANTS
    w1 = w1
    w2 = w2
    deny = deny
    full = full
    p = p
    t = t
    Writers = {w1, w2}
    Policies = {deny, full}
    Names = {p}
    Tokens = {t}
    None = None
    Missing = Missing
    Malformed = Malformed
    Sent <- Edits
    Found <- OnDisk
    Attempts = 2
    Faults = {"read"}
    Inodes = {1, 2, 3}
PROPERTY ImplementsRegister

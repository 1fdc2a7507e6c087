SPECIFICATION Spec
CHECK_DEADLOCK FALSE
CONSTANTS
    t1 = t1
    t2 = t2
    c1 = c1
    c2 = c2
    None = None
    Txs = {t1}
    Coins = {c1}
    Modes = {"nosend", "delayed", "now"}
    MaxSendAttempts = 0
    MaxProofAttempts = 0
    StaleProofAttempts = 0
    Managed = FALSE
    MaxCrashes = 0
INVARIANTS
    SharedIsAccepted

SPECIFICATION Spec
CHECK_DEADLOCK FALSE
CONSTANTS
    t1 = t1
    t2 = t2
    c1 = c1
    c2 = c2
    None = None
    Txs = {t1}
    Coins = {c1}
    Modes = {"now"}
    MaxSendAttempts = 0
    MaxProofAttempts = 1
    StaleProofAttempts = 1
    Managed = TRUE
    MaxCrashes = 0
INVARIANTS
    ProvenIsCompleted

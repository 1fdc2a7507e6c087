SPECIFICATION FairSpec
CHECK_DEADLOCK FALSE
CONSTANTS
    t1 = t1
    t2 = t2
    c1 = c1
    c2 = c2
    None = None
    Txs = {t1}
    Coins = {c1}
    Modes = {"nosend", "delayed", "now"}
    MaxSendAttempts = 1
    MaxProofAttempts = 1
    StaleProofAttempts = 0
    Managed = TRUE
    MaxCrashes = 1
INVARIANTS
    CompletedIffProven
    HeldByLive
    FailedHoldsNothing
PROPERTIES
    SentStaysSent
    CompletedIsFinal
    UnsentIsSent
    DeadIsReleased

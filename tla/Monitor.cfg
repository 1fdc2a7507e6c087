SPECIFICATION FairSpec
CHECK_DEADLOCK FALSE
CONSTANTS
    Loops = {1}
    Reqs = {1, 2}
    Txs = {1, 2}
    PageSize = 1
    AttemptsLimit = 1
    StaleAttempts = 0
    Timed = {"CheckForProofs", "FailAbandoned"}
    MaxRows = 2
    MaxHeaders = 2
    MaxFaults = 1
INVARIANTS
    TypeOK
    SkipsOnlyForLeft
    AttemptsCounted
PROPERTIES
    HeaderIsChecked
    

SPECIFICATION FairSpec
CHECK_DEADLOCK FALSE
CONSTANTS
    Ids = {1, 2, 3, 4}
    Satoshis <- MCSatoshis
    FixedInputs <- MCFixedInputs
    FixedOutputs <- MCFixedOutputs
    TargetNetCounts <- MCTargets
    None = None
    ChangeInitialSatoshis = 8
    ChangeFirstSatoshis = 5
    LockingScriptLength = 25
    UnlockingScriptLength = 107
    SatsPerKb = 50
    MaxTaken = 2
INVARIANTS
    
    NeverInternal
    GivesUpRightly
PROPERTIES
    Terminates

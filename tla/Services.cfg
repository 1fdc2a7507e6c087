SPECIFICATION FairSpec
CONSTANTS
    Callers = {k1, k2}
    ServiceCount = 2
    Resends = 1
    Invocations = 2
    MaxRetries = 2
INVARIANTS
    FailsIfAllFail
PROPERTIES
    RatesStayKnown
    CallsEnd

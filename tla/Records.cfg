SPECIFICATION Spec
CHECK_DEADLOCK FALSE
CONSTANTS
    Users <- MCUsers
    ManagerOf <- MCManagerOf
    MonitorManager = "alice"
    Calls <- MCCalls
    OldRow = "old"
    UserOf <- MCUserOf
    Vouts = {0, 1}
    Wants <- MCWants
    None = None
    Spenders = {"alice"}
    MaxEvents = 1
    MaxPurges = 1
INVARIANTS
    
    SpendableIffFree
    ListedIsKnown
    OneRow
PROPERTIES
    PurgedIsHeld

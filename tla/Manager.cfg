SPECIFICATION Spec
CHECK_DEADLOCK FALSE
CONSTANTS
    A = A
    B = B
    C = C
    r1 = r1
    w1 = w1
    s1 = s1
    s2 = s2
    p1 = p1
    None = None
    External = External
    Readers = {}
    Writers = {w1}
    Syncs = {s1, s2}
    Providers = {p1}
    IsSingleWriter = TRUE
    Stores = {A, B, C}
    Remote = {C}
    UserIdIn <- MCUserIdIn
    FirstStores <- LocalOrRemote
    MaxStores = 2
    MaxSwitches = 2
SYMMETRY SyncSymmetry
INVARIANTS
    RunsOnActive
    OwnUserUnlessCrossed
    SwitchIsRecorded
PROPERTIES
    OneLogicalStore

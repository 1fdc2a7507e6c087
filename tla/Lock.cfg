SPECIFICATION FairSpec
CHECK_DEADLOCK FALSE
CONSTANTS
    r1 = r1
    r2 = r2
    w1 = w1
    w2 = w2
    s1 = s1
    s2 = s2
    p1 = p1
    p2 = p2
    Readers = {r1, r2}
    Writers = {w1, w2}
    Syncs = {s1, s2}
    Providers = {p1, p2}
    IsSingleWriter = TRUE
INVARIANTS
    ExclusiveRunsAlone
    OneWriter
PROPERTIES
    DrainIsMonotone
    DrainEndsUnlessCrossed

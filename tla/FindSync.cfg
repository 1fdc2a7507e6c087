SPECIFICATION Spec
CONSTANTS
    None = None
    First = "A"
    Stores = {"A", "B"}
    Rows <- MCRows
    KindOf <- MCKindOf
    Refs <- MCRefs
    FirstRows <- MCFirstRows
    FirstId <- MCFirstId
    Writable = {"p1", "t1", "t2", "o1"}
    ChunkSizes = {6}
    MaxEvents = 2
INVARIANT
    ProofsTravel

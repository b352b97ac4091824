SPECIFICATION MCSpec
CONSTANTS
    CdKeys = {"a", "b", "c", "d"}
    Servers = {"s1", "s2"}
    Processes = {1}
    Entries = {1, 2}
    MoreNodes = 1
    getHash <- MCGetHash
    Fighters = {f1, f2, f3}
    Battles = {b1, b2, b3}
    Battle0 = "none"
    SideMax = 1
    Turns = 1
SYMMETRY Symmetry
INVARIANTS
    TypeOK
    OneNodePerKey
    BucketBounded
    
PROPERTY
    ImplementsUserLock

SPECIFICATION MCSpec
CONSTANTS
    CdKeys = {k}
    Servers = {g1, g2}
    Conns = {c1, c2}
    MaxQueue = 2
    MaxConns = 2
    Enabled = {"List", "Logout", "Periodic", "Crash", "CrashAC"}
    People = {"c", "d"}
    Hosts = {g, h}
    Knows <- MCKnows
    MaxMails = 2
    MaxLogins = 3
    Fellows = {c, d}
    Numbers = {1, 2}
    MaxCards = 1
    Movers = {c}
    MaxMoves = 3
SYMMETRY Symmetry
INVARIANTS
    TypesOK
    ReplyFindsItsState
    KickedApart
    LockedWhileOnline
    
    CardsFollowTheTable
PROPERTY
    ImplementsMailbox

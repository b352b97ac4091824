SPECIFICATION MCSpec
CONSTANTS
    Chars = {f1, f2, f3, c4}
    PartyMax = 3
    WindowSize = 2
    LastSlot = 0
    Kinds = {"none"}
    QuitNum = 1
    Quiet = TRUE
    Fighters = {f1, f2, f3}
    Battles = {b1, b2}
    Battle0 = b1
    SideMax = 2
    Turns = 1
    Conns = {i1, i2}
    Nodes = {1, 2, 3, 4, 5}
    Cap = 2
    MaxLine = 2
    MaxPiece = 2
    SendSize = 2
    Names = {"g1"}
VIEW MCView
SYMMETRY Symmetry
INVARIANTS
    TypesOK
    TablesAgree
    
    PoolAccounted
    ServedWhileOpen
PROPERTIES
    ImplementsStreams
    ImplementsParties

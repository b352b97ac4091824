SPECIFICATION MCFairSpec
CONSTANTS
    CdKeys = {k}
    Servers = {g1, g2}
    Conns = {c1}
    MaxQueue = 1
    MaxConns = 2
    Enabled = {"List", "Logout", "Delete", "Create", "Periodic", "Crash", "CrashAC"}
    Fighters = {f1, f2}
    Battles = {b1, b2}
    Battle0 = b1
    SideMax = 1
    Turns = 2
    Clients = {x1, x2}
    MaxMinutes = 2
    MaxCommands = 2
    MaxSaves = 2
INVARIANT
    CountsTheClosing
PROPERTIES
    DuplicatesEnd
    RequestsAnswered
    TurnsEnd
    ShutdownEnds

SPECIFICATION ShutdownSpec
CONSTANTS
    Clients = {x1, x2}
    MaxMinutes = 1
    MaxCommands = 2
    MaxSaves = 2
INVARIANT
    AllSaved

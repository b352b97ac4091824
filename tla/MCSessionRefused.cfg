SPECIFICATION FairSpec
CONSTANTS
    CdKeys = {k}
    Servers = {g1, g2}
    Conns = {c1}
    MaxQueue = 2
    MaxConns = 2
    Enabled = {"List"}
PROPERTY
    RefusedLoginEnds

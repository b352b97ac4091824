SPECIFICATION Spec
CONSTANTS
    CdKeys = {k}
    Servers = {g1}
    Conns = {c1, c2}
    MaxQueue = 4
    MaxConns = 2
    Enabled = {"List", "Logout"}
INVARIANT
    NoDuplicatedLogin

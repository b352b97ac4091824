SPECIFICATION Spec
CONSTANTS
    Players = {p1, p2}
    Offers = {o1}
    MaxInbox = 2
    Logouts = TRUE
    Prompt = {p1, p2}
PROPERTIES
    CloseCloses

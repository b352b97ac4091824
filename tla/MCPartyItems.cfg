SPECIFICATION Spec
CONSTANTS
    Chars = {c1, c2}
    PartyMax = 3
    WindowSize = 2
    LastSlot = 2
    Kinds = {"none", "plain", "quit"}
    QuitNum = 1
    Quiet = FALSE
PROPERTY
    QuitItemsVanish

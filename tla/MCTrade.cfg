SPECIFICATION MCSpec
CONSTANTS
    Players = {p1, p2, p3}
    Offers = {o1}
    MaxInbox = 2
    Logouts = TRUE
    Prompt = {p1, p2}
    Owners = {w1, w2}
    Items = {x, y, z}
    ItemSlots = {1, 2}
    MaxGold = 3
    Vanishing = {z}
    Keys = {k1, k2, k3}
    Values = {1, 2}
    Heads = 1
    HashSize = 4
    dbHash <- MCdbHash
    HeadDeletes = FALSE
    Nobody = Nobody
    Vacant = Vacant
    f1 = f1
    f2 = f2
    e1 = e1
    e2 = e2
    i1 = i1
    i2 = i2
    i3 = i3
    Masters = {f1, f2}
    Kennel <- MCKennel
    Foes = {e1, e2}
    Loot = {i1, i2, i3}
    Seats = {0, 1}
    Lairs = {10, 11}
    Carried <- MCCarried
    Lucky = {}
    LootMax = 1
    BoxMax = 1
    TurnMax = 2
SYMMETRY Symmetry
INVARIANTS
    TypeOK
    AgreementWhileLocked
    AgreementGoesThrough
    MatchesItsPartner
    ItemsNotLostOrDoubled
    RanksByValue
    LootInOnePlace
    
    FallenAreSettled
PROPERTIES
    GoldOnlyMoves
    ImplementsRanking

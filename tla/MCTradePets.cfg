SPECIFICATION MCSpec
CONSTANTS
    Players = {t1, t2}
    Items = {x}
    Pets = {r, s, t}
    Slots = {1}
    PetSlots = {0, 1}
    MaxGold = 0
    Vanishing = {}
    FamilyPets = {t}
    Untamed = {}
    Folk = {"p", "q", "r"}
    Fit = {"p", "q"}
    Warriors = {"q"}
    Leavers = {"p"}
    MemberMax = 3
    ElderMax = 1
    MaxSessions = 2
    Starts <- MCStarts
    MaxAsked = 1
    Savers = {s1, s2}
    Leading = {s1, s2}
    PurseMax = 2
    AccountMax = 1
    FundMaxGS = 4
    FundMaxAC = 3
    MaxOrders = 2
INVARIANTS
    NothingLostOrDoubled
    ListAndCountsAgree
    MarksFollowTheList
PROPERTIES
    PetsInUseStay
    GoldNeverMade

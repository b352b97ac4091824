SPECIFICATION Spec
CONSTANTS
    Players = {p1, p2}
    Items = {x, y, z}
    Pets = {}
    Slots = {1, 2}
    PetSlots = {}
    MaxGold = 0
    Vanishing = {}
    FamilyPets = {}
    Untamed = {}
INVARIANT
    AllOrNothing

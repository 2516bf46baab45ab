SPECIFICATION FairSpec
CONSTANTS
    Maps = {m1, m2}
    NoMap = NoMap
    BagCapacity <- MCBagCapacity
    RetireAfter = 1
    SaveInterval = 2
    MaxDogs = 2
    MaxLoot = 2
    MaxFresh = 2
INVARIANTS
    PlayersMatchDogs
    LootInOnePlace
    GatherFindsLoot
    NobodyVanishes
PROPERTIES
    CareerSpec
    InactiveLeave

SPECIFICATION LongNameSpec
CONSTANTS
    Maps = {m1, m2}
    NoMap = NoMap
    BagCapacity <- MCBagCapacity
    RetireAfter = 1
    SaveInterval = 1
    MaxDogs = 2
    MaxLoot = 1
    MaxFresh = 2
PROPERTIES
    SavesAttempted

SPECIFICATION ApiSpec
CONSTANTS
    Maps = {m1, m2}
    NoMap = NoMap
    NoToken = NoToken
    BagCapacity <- MCBagCapacity
    RetireAfter = 1
    SaveInterval = 2
    MaxDogs = 2
    MaxLoot = 1
    MaxFresh = 2
SYMMETRY MapSymmetry
INVARIANTS
    UnknownIsRecorded
    SeenIsConsistent
    TickIsWhole
PROPERTIES
    GameSpec
CHECK_DEADLOCK FALSE

SPECIFICATION Spec
CONSTANTS
    Maps = {m1, m2}
    Dogs = {d1, d2}
    NoMap = NoMap
    NoTick = NoTick
    Unit = 2
    RetireTime = 2
    SaveInterval = 2
    MaxPlayTime = 4
    BaseInterval = 1000
    JoinTimes <- Leftovers
    TestDeltas <- Deltas
    MaxNow = 6
    MaxTicks = 3
    MaxFaults = 1
SYMMETRY Symmetry
INVARIANTS
    GameKeepsUp
    PlayTimeIsTrue
    UnsavedIsBounded
    LootFollowsDogs
PROPERTIES
    NobodyLeavesEarly
CHECK_DEADLOCK FALSE

SPECIFICATION Spec
CONSTANTS
    Maps = {m1}
    Dogs = {d1, d2}
    NoMap = NoMap
    NoTick = NoTick
    Unit = 2
    RetireTime = 2
    SaveInterval = 2
    MaxPlayTime = 4
    BaseInterval = 1000
    JoinTimes <- Leftovers
    TestDeltas <- Deltas
    MaxNow = 4
    MaxTicks = 2
    MaxFaults = 0
INVARIANTS
    LootTakesItsTime
CHECK_DEADLOCK FALSE

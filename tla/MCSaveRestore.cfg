SPECIFICATION Spec
CONSTANTS
    Maps = {m1, m2}
    NoSession = NoSession
    NoFile = NoFile
    Broken = Broken
    NoConfig = NoConfig
    Office = Office
    ConfigFiles <- Configurations
    MaxJoins = 3
    MaxLives = 3
    MaxFaults = 1
SYMMETRY MapSymmetry
INVARIANTS
    IdsStayUnique
    FileCanBeRestored
    FileIsWhole
    SavedPlayersSurvive
    RowsPerPlayer
PROPERTIES
    StartsWhereSaved
CHECK_DEADLOCK FALSE

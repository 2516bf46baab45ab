SPECIFICATION FairSpec
CONSTANTS
    Connections = {c1, c2}
    NoConnection = NoConnection
    Threads = 2
    MaxRequests = 2
INVARIANTS
    OneInGame
    AnswersInOrder
    FinalSaveIsComplete
PROPERTIES
    RequestsEnd
    TicksGoOn
CHECK_DEADLOCK FALSE

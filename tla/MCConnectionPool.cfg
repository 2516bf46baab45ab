SPECIFICATION FairSpec
CONSTANTS
    Threads = {t1, t2, t3, t4}
    Capacity = 2
INVARIANTS
    EachConnectionInOnePlace
    NoLostWakeup
PROPERTIES
    WaitingEnds
    LeaseSpec

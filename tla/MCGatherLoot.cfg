SPECIFICATION Spec
CONSTANTS
    Dogs = 2
    RoadLength = 3
    Office = 1
    BagCapacity = 1
    MaxLoot = 3
INVARIANTS
    NothingReachedIsLeft
    BagIsFromBeyondOffice
PROPERTIES
    InStepTakesReached

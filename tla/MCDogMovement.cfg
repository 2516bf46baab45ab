SPECIFICATION Spec
CONSTANTS
    Roads <- MCRoads
    Steps = {0, 1, 4, 25}
INVARIANTS
    DogOnRoad
    NeverTrapped
PROPERTIES
    MovesAhead
    HaltsAtAnEdge

SPECIFICATION SweepSpec
CONSTANTS
    Side = 4
    Widths = {0, 1, 2}
INVARIANTS
    CollectedIsInBand
    NothingBetweenTicks

SPECIFICATION Spec
CONSTANTS
    SlotCount = 2
    Figures <- MCFigures
    Threshold <- MCThreshold
    ATTIRE_MAX_TIER = 3
    ATTIRE_STAR_MAX = 2
    Byte = 3
    Word = 3
    MaxOps = 5
    MaxFaults = 2
CHECK_DEADLOCK FALSE
INVARIANTS TierAdvances ShownIsOwned ClientTrue
PROPERTIES NothingTakenBack

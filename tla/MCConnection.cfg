SPECIFICATION FairSpec
CONSTANTS
    HighWater = 1
    MaxAoi = 2
    MaxInbox = 2
    MaxSent = 2
    MaxFaults = 1
CHECK_DEADLOCK FALSE
INVARIANTS UnreadBounded SeededFirst
PROPERTIES ServerTimeAdvances BagRestored EndsWithItsClient

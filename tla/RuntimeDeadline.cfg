CONSTANTS
    TICKS_REQUIRED = 1
    KEY_WAIT = 1
    MaxKeys = 1
    MaxDepth = 2
SPECIFICATION FairSpec
PROPERTY InputInTimeCounts

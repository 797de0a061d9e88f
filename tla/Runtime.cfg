CONSTANTS
    TICKS_REQUIRED = 2
    KEY_WAIT = 2
    MaxKeys = 2
    MaxDepth = 2
SPECIFICATION FairSpec
INVARIANTS
    NoReentry
    EOIAcknowledgesOwn
    LinesWhole
    ByteAnnounced
PROPERTIES
    VerdictReached

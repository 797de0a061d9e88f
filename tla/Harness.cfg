CONSTANTS
    Tries = 3
    Captures = 3
    Polls = 3
    Sends = 3
    Runs = 3
SPECIFICATION FairSpec
INVARIANTS
    PassIsEarned
    ImageRestored
    NoOrphan
PROPERTIES
    HarnessEnds

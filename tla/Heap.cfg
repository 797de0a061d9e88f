CONSTANTS
    GRAIN = 2
    Start = 4
    HeapSize = 10
    Layouts <- MCLayouts
    Junk <- MCJunk
SPECIFICATION FairSpec
INVARIANTS
    HeapWhole
    RestoredWhenEmpty
    StatsExact
PROPERTIES
    NullOnlyWhenFull
    Contract
    CallsReturn

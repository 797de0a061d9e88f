CONSTANTS
    PAGE = 16
    LIMIT = 192
    Maps <- MCMaps
    Requests = {2, 3, 12}
    Junk <- MCJunk
    GRAIN = 2
    HEAP_FRAMES = 2
    HeapJunk <- MCHeapJunk
    Growth <- MCGrowth
    Text <- MCText
SPECIFICATION FairMemory
INVARIANTS
    FramesAccounted
    StackInMemory
    PanicsOnlyAtTheTop
    StartsWhenItCan
PROPERTIES
    NoneMeansExhausted
    RoomIsFound
    CallsReturn

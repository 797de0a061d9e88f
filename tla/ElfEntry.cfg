CONSTANTS
    PAGE = 4
    LIMIT = 16
    PHDR_SIZE = 2
    FreePages = {4, 8}
    Images <- MCImages
SPECIFICATION Spec
INVARIANT EntryIsLoaded

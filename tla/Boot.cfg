CONSTANTS
    PAGE = 16
    ENTRY = 6
    REGION_CAPACITY = 3
    KERNEL_STACK_PAGES = 1
    PageCount = 9
    Machines <- MCMachines
    KernelPages = {1, 2}
    FileSize = 2
SPECIFICATION FairSpec
INVARIANTS
    HandoffSurvives
    OnlyFreeFramesOffered
    EntryContract
PROPERTIES
    BootDecides

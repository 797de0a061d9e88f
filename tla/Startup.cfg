CONSTANTS
    SPIN_BUDGET = 3
    MaxKeys = 2
    TIMER_HZ = 100
    Faults = {0, 2, 6, 12, 13, 14}
    HandlerAddress <- MCHandlerAddress
    TssAddress <- MCTssAddress
SPECIFICATION FairStartup
INVARIANTS
    NoWriteLost
    KeyboardReady
    NoSilentReset
    FaultIsNamed
    IrqReachesItsHandler
    DevicesReady
PROPERTIES
    StartupDecides

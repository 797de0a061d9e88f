CONSTANTS
    Tries = 1
    Captures = 1
    Polls = 1
    Sends = 1
    Runs = 1
SPECIFICATION Spec
INVARIANT ExitIsReported

CONSTANTS
    SPIN_BUDGET = 3
    MaxKeys = 1
SPECIFICATION Spec
INVARIANT TranslationKept

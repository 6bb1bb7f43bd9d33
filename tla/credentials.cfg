SPECIFICATION Spec
CONSTANTS
    Words <- MCWords
    Environments <- MCEnvironments
    None = None
CHECK_DEADLOCK FALSE
INVARIANTS EachTokenIsItsOwnKey LoadedAsConfigured

SPECIFICATION Spec
CONSTANTS
    N = 3
    Eager = {8, 9}
    Runs <- MCRuns
INVARIANTS GraphSound GraphExact
PROPERTY Recovered
CHECK_DEADLOCK FALSE

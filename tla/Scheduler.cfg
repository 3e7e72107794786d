SPECIFICATION Spec
CONSTANTS
    NThreads = 4
    NCpus = 2
    Prio <- MCPrio
    Startup = 1
    Flight = 2
    Boost <- MCBoost
    Setups <- MCSetups
INVARIANTS ThreadsAccounted NobodyForgotten
PROPERTIES TurnsKept Terminates
CHECK_DEADLOCK FALSE

SPECIFICATION Spec
CONSTANTS
    a = a
    b = b
    c = c
    Nodes = {a, b, c}
    Configs <- Both
    Buses = 2
    NMessages = 3
    Msgs <- MCMsgs
    Gops = {g1, g2}
    Routes <- MCRoutes
INVARIANTS ResourcesConserved NobodyWaitsInVain
PROPERTY EveryoneServed
CHECK_DEADLOCK FALSE

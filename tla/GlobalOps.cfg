SPECIFICATION Spec
CONSTANTS
    a = a
    b = b
    c = c
    W = W
    X = X
    Threads = {a, b, c}
    Comms = {W, X}
    Members <- MCMembers
    Machine <- MCMachine
    Programs <- SameCalls
    MaxIndex = 5
    ZeroStartup = FALSE
INVARIANTS CallsMatch OperationsAccounted
PROPERTY AllFinish
CHECK_DEADLOCK FALSE

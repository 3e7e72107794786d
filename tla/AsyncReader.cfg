SPECIFICATION Spec
CONSTANTS
    NThreads = 2
    BSize = 3
    Burst = 2
    TraceLen <- MCTraceLen
INVARIANTS TypeOK WindowIntact
PROPERTIES HandedInOrder ReadToTheEnd
CHECK_DEADLOCK FALSE

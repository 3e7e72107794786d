SPECIFICATION Spec
CONSTANTS
    Threads = {1, 2}
    Inputs <- MCInputs
INVARIANTS TraceComplete RecordsCut FilesTidy
PROPERTY Generated
CHECK_DEADLOCK FALSE

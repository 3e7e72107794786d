CONSTANTS
    Invocations <- MCInvocations
    Traces <- MCTraces
    MaxNodes = 4
    Giga = 10
    Garbage = {0, 5}
    None = "none"
SPECIFICATION Spec
INVARIANTS MachinesAsDescribed TasksMapped
 
CHECK_DEADLOCK FALSE

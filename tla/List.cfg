SPECIFICATION Spec
CONSTANTS
    busy = busy
    free = free
    ready = ready
    a = a
    b = b
    c1 = c1
    c2 = c2
    c3 = c3
    Nil = Nil
    Unset = Unset
    Plain <- MCPlain
    Sorted <- MCSorted
    Contents <- MCContents
    Prios <- MCPrios
    Cells <- MCCells
SYMMETRY Symmetric
INVARIANT CellsConsistent
PROPERTIES WalksAndTurns ImplementsQueue

SPECIFICATION Spec
CONSTANTS
    m1 = m1
    m2 = m2
    m3 = m3
    near = near
    far = far
    Tasks <- MCTasks
    Nodes <- MCNodes
    Machines <- MCMachines
    NodeOf <- MCNodeOf
    MachineOf <- MCMachineOf
    Connections <- MCConnections
    AccTag = 8
    Configs <- MCConfigs
    Msgs = {m1, m2, m3}
    Gops = {near, far}
    Span <- MCSpan
    Comm <- MCComm
    Blocking = {near, far}
    Batches <- MCBatches
INVARIANTS ResourcesConserved NobodyWaitsInVain CollectivesWhole
PROPERTY EveryoneServed
CHECK_DEADLOCK FALSE

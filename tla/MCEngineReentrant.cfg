SPECIFICATION FairSpec
CONSTANTS
    None = None
    CPU = CPU
    NO_DEVICE = NO_DEVICE
    c1 = c1
    d1 = d1
    d2 = d2
    g0 = g0
    g1 = g1
    g2 = g2
    g3 = g3
    r = r
    a = a
    b = b
    x = x
    y = y
    z = z
    Nodes = {r, a, b, x, y, z}
    Callers = {c1}
    Devices = {d1, d2}
    PoolThreads = {}
    GraphTasks = {g0, g1, g2, g3}
    NextEdges <- MCNextEdges
    TopologicalNr <- MCTopologicalNr
    NodeDevice <- MCNodeDevice
    SequenceNr <- MCSequenceNr
    Root <- MCRoot
    Outputs <- MCOutputs
    AccumulateGrad <- MCAccumulateGrad
    KeepGraph <- MCKeepGraph
    TopLevel <- MCTopLevel
    Reenters <- MCReenters
    MayThrow <- MCMayThrow
    Saves = {b}
    QueuesCallback = {}
    MaxCallbacks = 0
    MaxDepth = 2
    MultithreadingEnabled = TRUE
    MayStop = TRUE
CHECK_DEADLOCK FALSE
INVARIANTS
    ErrorWins
    ThreadStateRestored
PROPERTIES
    EveryCallReturns
    KeepsPromise
    StopEndsDeviceThreads
